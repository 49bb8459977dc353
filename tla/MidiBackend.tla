----------------------------- MODULE MidiBackend -----------------------------
(***************************************************************************)
(* What the back ends of the other platforms have in common: the calls of  *)
(* main(), one after the other, what is allocated, and what went out.      *)
(***************************************************************************)
EXTENDS MidiBytes

CONSTANTS Messages,     \* what main may hand over
          NoMessage,
          MaxSends      \* bound: how many go out

ASSUME MessagesAssumption == \A m \in Messages : m \in Seq(0 .. 255) /\ Len(m) > 0
ASSUME BoundAssumption == MaxSends \in Nat /\ NoMessage \notin Messages

VARIABLES pc,           \* where the program is
          held,         \* what is allocated or open
          handed,       \* the message of the call, or NoMessage between calls
          answer,       \* what the last call returned
          wire,         \* the messages that went out
          out           \* did the one of the call?

sent     == <<wire, out>>
callVars == <<handed, answer, sent>>

InitCalls ==
    /\ pc = "parse" /\ held = {} /\ handed = NoMessage /\ answer = 0
    /\ wire = <<>> /\ out = FALSE

Goto(from, to) == pc = from /\ pc' = to

\* A step of mididev_init(): it gets a thing and goes on, or it returns -1 and
\* keeps what is left.
Obtain(from, thing, to, left) ==
    /\ \/ Goto(from, to) /\ held' = held \cup {thing}
       \/ Goto(from, "failed") /\ held' = left
    /\ UNCHANGED callVars

\* A call of mididev_send_bytes(), and its return.
CallSend ==
    /\ Len(wire) < MaxSends
    /\ Goto("ready", "send")
    /\ handed' \in Messages /\ out' = FALSE
    /\ UNCHANGED <<held, answer, wire>>

Returns(result) ==
    pc' = "ready" /\ handed' = NoMessage /\ answer' = result /\ UNCHANGED sent

Transmits(m) == wire' = Append(wire, m) /\ out' = TRUE
=============================================================================
