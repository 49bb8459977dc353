----------------------------- MODULE AtariDelay -----------------------------
(***************************************************************************)
(* delay_ms() of the Atari ST: Timer A of the MFP is started with a period *)
(* of about 1 ms and its interrupts are counted.                           *)
(*                                                                         *)
(* The MFP and the calls of TOS are external.  The interrupt handler runs  *)
(* to its end once it is entered, and an interrupt may be delivered late.  *)
(***************************************************************************)
EXTENDS DelayCall

VARIABLES ticks,
          handler,      \* of Timer A's interrupt: "ours" or "other"
          counter,      \* units until Timer A's next output; 0: stopped
          enabled,      \* is its interrupt enabled?
          pending,      \* is one latched?
          in_service,   \* has the last one not been acknowledged?
          sw_eoi        \* must the handler acknowledge it?

program == <<pc, delay>>
mfp     == <<handler, counter, enabled, pending, in_service, sw_eoi>>
vars    == <<program, ticks, mfp, waited>>

-----------------------------------------------------------------------------
(* The MFP. *)

\* The loop looks at ticks many times a period.
InTime == ~(pc # "idle" /\ enabled /\ handler = "ours" /\ ticks >= delay)

TimePasses ==
    /\ InTime
    /\ counter' = IF counter = 1 THEN Period ELSE IF counter = 0 THEN 0 ELSE counter - 1
    /\ pending' = IF counter = 1 /\ enabled THEN TRUE ELSE pending
    /\ TimeGoesOn
    /\ UNCHANGED <<program, ticks, handler, enabled, in_service, sw_eoi>>

\* tim_a_isr(): counts, and clears the bit the MFP has set when it is in
\* software end-of-interrupt mode.
Handler == ticks' = ticks + 1 /\ in_service' = FALSE

Interrupt ==
    /\ enabled /\ pending /\ ~in_service
    /\ pending' = FALSE
    /\ IF handler = "ours" THEN Handler ELSE in_service' = FALSE /\ UNCHANGED ticks
    /\ UNCHANGED <<program, handler, counter, enabled, sw_eoi, waited>>

\* Disabling an interrupt also drops what is latched and in service.
Jdisint ==
    /\ enabled' = FALSE /\ pending' = FALSE /\ in_service' = FALSE
    /\ UNCHANGED <<handler, counter, sw_eoi>>

-----------------------------------------------------------------------------
(* delay_ms(), statement by statement. *)

Call ==
    /\ Goto("idle", "stop")
    /\ Called
    /\ UNCHANGED <<ticks, mfp>>

\* Mutant: the timer's interrupt is left as it was found.
StopNot == Goto("stop", "reset") /\ UNCHANGED <<delay, ticks, mfp, waited>>
Stop ==
    /\ Goto("stop", "reset")
    /\ Jdisint
    /\ UNCHANGED <<delay, ticks, waited>>

Reset ==
    /\ Goto("reset", "xbtimer")
    /\ ticks' = 0
    /\ UNCHANGED <<delay, mfp, waited>>

\* Xbtimer() starts a whole period. "Not sure if [Jenabint] is 100% necessary or
\* Xbtimer always takes care of this."
Xbtimer ==
    /\ Goto("xbtimer", "sei")
    /\ counter' = Period /\ handler' = "ours"
    /\ enabled' \in BOOLEAN
    /\ UNCHANGED <<delay, ticks, pending, in_service, sw_eoi, waited>>

SetSei ==
    /\ Goto("sei", "enable")
    /\ sw_eoi' = TRUE
    /\ UNCHANGED <<delay, ticks, handler, counter, enabled, pending, in_service, waited>>

Jenabint ==
    /\ Goto("enable", "spin")
    /\ enabled' = TRUE
    /\ UNCHANGED <<delay, ticks, handler, counter, pending, in_service, sw_eoi, waited>>

\* while(ticks < delay);
Spin ==
    /\ Goto("spin", "return") /\ ticks >= delay
    /\ UNCHANGED <<delay, ticks, mfp, waited>>

\* Mutant: the timer goes on interrupting.
ReturnEnabled == Goto("return", "idle") /\ UNCHANGED <<delay, ticks, mfp, waited>>
Return ==
    /\ Goto("return", "idle")
    /\ Jdisint
    /\ UNCHANGED <<delay, ticks, waited>>

Statement == \/ Stop \/ Reset \/ Xbtimer \/ SetSei \/ Jenabint \/ Spin \/ Return

\* Timer A belongs to user programs: the last one may have left it running, with
\* its interrupt on, latched or not acknowledged.
Init ==
    /\ pc = "idle" /\ delay \in Requests /\ ticks = 0
    /\ handler = "other" /\ counter \in 0 .. Period
    /\ enabled \in BOOLEAN /\ pending \in BOOLEAN
    /\ sw_eoi \in BOOLEAN /\ in_service \in {FALSE, sw_eoi}
    /\ waited = 0

Next == TimePasses \/ Interrupt \/ Call \/ Statement

SafeSpec == Init /\ [][Next]_vars

\* The processor goes on, time passes, and an enabled interrupt is delivered.
Fairness == WF_vars(Statement) /\ WF_vars(TimePasses) /\ WF_vars(Interrupt)

-----------------------------------------------------------------------------
\* Ticks of an earlier call do not count, and the first one takes a whole period.
Want == Period * delay

\* The handler is called during delay_ms() only, not when the program may have
\* left memory (delay.c:60-61).
SilentOutside == [][pc = "idle" => ticks' = ticks]_vars
=============================================================================
