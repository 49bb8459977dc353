------------------------------- MODULE MidiDev -------------------------------
(***************************************************************************)
(* What midi_dev.h promises main(): between mididev_init() and             *)
(* mididev_deinit() a message that is handed over goes out at most once,   *)
(* whole and unchanged if the build carries messages of its kind, and a    *)
(* call that fails has sent nothing.                                       *)
(***************************************************************************)
EXTENDS Integers, Sequences

CONSTANTS Messages,     \* what may be handed over
          NoMessage     \* none of them

VARIABLES state,        \* "closed" or "open"
          carried,      \* the messages that the build carries as they are
          handed,       \* the message of the call, or NoMessage between calls
          answer,       \* what the last call returned
          wire,         \* the messages that went out
          out           \* did the one of the call?

vars == <<state, carried, handed, answer, wire, out>>

Init ==
    /\ state = "closed" /\ carried \in SUBSET Messages
    /\ handed = NoMessage /\ answer = 0
    /\ wire = <<>> /\ out = FALSE

\* An option chooses another way out.
Choose ==
    /\ state = "closed" /\ carried' \in SUBSET Messages
    /\ UNCHANGED <<state, handed, answer, wire, out>>

Open ==
    /\ state = "closed" /\ state' = "open"
    /\ UNCHANGED <<carried, handed, answer, wire, out>>

Call ==
    /\ state = "open" /\ handed = NoMessage
    /\ handed' \in Messages /\ out' = FALSE
    /\ UNCHANGED <<state, carried, answer, wire>>

Transmit ==
    /\ handed # NoMessage /\ ~out
    /\ Len(wire') = Len(wire) + 1 /\ wire' = Append(wire, wire'[Len(wire')])
    /\ handed \in carried => wire' = Append(wire, handed)
    /\ out' = TRUE
    /\ UNCHANGED <<state, carried, handed, answer>>

\* The call returns, with success also when the message was lost further down.
Return ==
    /\ handed # NoMessage /\ handed' = NoMessage
    /\ answer' \in {0, -1} /\ (answer' = -1 => ~out)
    /\ UNCHANGED <<state, carried, wire, out>>

Close ==
    /\ state = "open" /\ handed = NoMessage
    /\ state' = "closed"
    /\ UNCHANGED <<carried, handed, answer, wire, out>>

Next == Choose \/ Open \/ Call \/ Transmit \/ Return \/ Close

Spec == Init /\ [][Next]_vars
=============================================================================
