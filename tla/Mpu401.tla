------------------------------- MODULE Mpu401 -------------------------------
(***************************************************************************)
(* The DOS back end: mididev_init, mididev_send_bytes and mididev_deinit   *)
(* over the port I/O of MPU401.C, one action per port access or clock      *)
(* reading, next to the interface they drive and to the passing of time.   *)
(*                                                                         *)
(* The interface is not part of the program: it has an output FIFO, input  *)
(* that the program must read, and commands that take a while.  The unit   *)
(* of time is what the interface needs to shift one byte out (320 us).     *)
(* clock() advances in steps of ClockStep units: 55 ms on a PC, longer     *)
(* than the 25 ms waited behind a message.                                 *)
(***************************************************************************)
EXTENDS Integers, Sequences

CONSTANTS Lengths,        \* lengths of the messages that are sent
          FifoSize,       \* bytes the interface takes before it is "not ready"
          ResetTime,      \* longest time it needs to reset
          SwitchTime,     \* longest time it needs to enter UART mode
          ResetTimeout,   \* CLOCKS_PER_SEC/2 in mpu401_rst
          InitWait,       \* delay_ms(100) in mididev_init
          Settle,         \* 25 ms in mpu401_send_bytes
          ClockStep,      \* granularity of clock()
          Cards,          \* what may sit at the port
          Keyboard,       \* may MIDI arrive at the interface's input?
          UnreadLimit     \* bound: input the interface keeps

ASSUME LengthsAssumption == Lengths \subseteq Nat \ {0}
ASSUME TimesAssumption ==
    /\ FifoSize \in Nat \ {0} /\ ResetTime \in Nat \ {0}
    /\ SwitchTime \in Nat \ {0} /\ ClockStep \in Nat \ {0}
    /\ ResetTimeout \in Nat /\ InitWait \in Nat /\ Settle \in Nat
ASSUME CardsAssumption == Cards \subseteq {"mpu", "strict", "absent", "low"}
ASSUME InputAssumption == Keyboard \in BOOLEAN /\ UnreadLimit \in Nat

VARIABLES pc,         \* where the driver is
          len, x,     \* the message being sent, and how much of it was handed over
          phase,      \* the clock's position in its step when the timer started
          elapsed,    \* time since the timer started
          card,       \* what sits at the port
          mode,       \* "intelligent" or "uart"
          task, left, \* the command being executed, and the time it still takes
          fifo,       \* bytes waiting to be shifted out
          wire,       \* bytes of this message shifted out, negative while older
                      \* ones are ahead of it
          unread      \* input the program has not read

driverVars == <<pc, len, x>>
timerVars  == <<phase, elapsed>>
deviceVars == <<mode, task, left, fifo, wire, unread>>
vars       == <<driverVars, timerVars, card, deviceVars>>

-----------------------------------------------------------------------------
(* The interface and the clock. *)

\* An interface. A strict one takes no output while its input is unread ("you
\* MUST read them out", MPU401.C:79).
IsMpu == card \in {"mpu", "strict"}

\* Bit 6 of the status port is clear: a byte may be written.  An empty port
\* reads 0xFF; a port that belongs to something else may always read 0 ("low").
WriteReady ==
    \/ card = "low"
    \/ /\ IsMpu /\ task # "reset" /\ fifo < FifoSize
       /\ card = "strict" => unread = <<>>

\* Bit 7 is clear: there is a byte to read.
ReadReady == card = "low" \/ (IsMpu /\ unread # <<>>)

ReadData == unread' = IF unread = <<>> THEN <<>> ELSE Tail(unread)

\* A reset drops what is in the FIFO and ends UART mode.
WriteReset ==
    IF IsMpu
    THEN /\ fifo' = 0 /\ mode' = "intelligent"
         /\ task' = "reset" /\ left' \in 1 .. ResetTime
    ELSE UNCHANGED <<fifo, mode, task, left>>

WriteUart ==
    IF IsMpu /\ task # "reset"
    THEN task' = "uart" /\ left' \in 1 .. SwitchTime
    ELSE UNCHANGED <<task, left>>

\* Data is lost unless the interface is in UART mode and has room.
WriteData ==
    fifo' = IF IsMpu /\ mode = "uart" /\ task = "none" /\ fifo < FifoSize
            THEN fifo + 1 ELSE fifo

Received(b) == IF Len(unread) < UnreadLimit THEN Append(unread, b) ELSE unread

\* One unit of time: a byte is shifted out and a command comes nearer to its
\* end.  Not every interface acknowledges a reset.
TimerCap == ResetTimeout + InitWait + Settle + ClockStep
TickTimer == elapsed' = IF elapsed < TimerCap THEN elapsed + 1 ELSE elapsed
TickFifo == IF fifo > 0 THEN fifo' = fifo - 1 /\ wire' = wire + 1
                        ELSE UNCHANGED <<fifo, wire>>
TickTask ==
    \/ task = "none" /\ UNCHANGED <<mode, task, left, unread>>
    \/ /\ task # "none" /\ left > 1
       /\ left' = left - 1
       /\ UNCHANGED <<mode, task, unread>>
    \/ /\ task = "reset" /\ left = 1
       /\ task' = "none" /\ left' = 0
       /\ unread' \in {unread, Received("ack")}
       /\ UNCHANGED mode
    \/ /\ task = "uart" /\ left = 1
       /\ task' = "none" /\ left' = 0 /\ mode' = "uart"
       /\ UNCHANGED unread

Tick == TickTimer /\ TickFifo /\ TickTask /\ UNCHANGED <<driverVars, phase, card>>

MidiIn ==
    /\ Keyboard /\ IsMpu /\ Len(unread) < UnreadLimit
    /\ unread' = Append(unread, "midi")
    /\ UNCHANGED <<driverVars, timerVars, card, mode, task, left, fifo, wire>>

\* start = clock(): the clock may be anywhere in its step.
StartTimer == elapsed' = 0 /\ phase' \in 0 .. ClockStep - 1

\* clock() - start
Clock == ((phase + elapsed) \div ClockStep) * ClockStep

-----------------------------------------------------------------------------
(* The driver.  Between two of its actions time may pass and input arrive. *)

Goto(from, to) == pc = from /\ pc' = to
SameDevice == UNCHANGED <<card, deviceVars>>
SameMessage == UNCHANGED <<len, x>>

\* mpu401_waitwrite_timeout() on its way from ready to one of the commands:
\* read the status, and if the interface is not ready, the clock.
WaitTimeout(stat, clk, ready, late) ==
    /\ \/ Goto(stat, ready) /\ WriteReady
       \/ Goto(stat, clk) /\ ~WriteReady
       \/ Goto(clk, late) /\ Clock >= ResetTimeout
       \/ Goto(clk, stat) /\ Clock < ResetTimeout
    /\ UNCHANGED timerVars /\ SameDevice /\ SameMessage

\* One turn of mpu401_flush(): what arrives between the poll and the read only
\* makes more to read.
Flush(from, to) ==
    /\ IF ReadReady THEN Goto(from, from) /\ ReadData
                    ELSE Goto(from, to) /\ UNCHANGED unread
    /\ UNCHANGED <<timerVars, card, mode, task, left, fifo, wire>>
    /\ SameMessage

\* mpu401_waitwrite() flushes before every look at the status. Mutants of it:
\* one that does not heed the status, and one that does not flush.
NoWaitWrite(flush, stat, ready) ==
    \/ Flush(flush, stat)
    \/ /\ Goto(stat, ready)
       /\ UNCHANGED timerVars /\ SameDevice /\ SameMessage
UnflushedWaitWrite(flush, stat, ready) ==
    /\ \/ Goto(flush, stat)
       \/ IF WriteReady THEN Goto(stat, ready) ELSE Goto(stat, flush)
    /\ UNCHANGED timerVars /\ SameDevice /\ SameMessage
WaitWrite(flush, stat, ready) ==
    \/ Flush(flush, stat)
    \/ /\ IF WriteReady THEN Goto(stat, ready) ELSE Goto(stat, flush)
       /\ UNCHANGED timerVars /\ SameDevice /\ SameMessage

\* mididev_init() is called, in the first or in another run of the program.
CallInit ==
    /\ Goto("idle", "rst_stat") /\ StartTimer
    /\ SameDevice /\ SameMessage

\* Mutant: its timeout is not looked at.
RstWaitIgnored == WaitTimeout("rst_stat", "rst_clk", "rst_cmd", "rst_cmd")
RstWait == WaitTimeout("rst_stat", "rst_clk", "rst_cmd", "idle")

RstCommand ==
    /\ Goto("rst_cmd", "ack_poll") /\ StartTimer /\ WriteReset
    /\ UNCHANGED <<card, wire, unread>> /\ SameMessage

\* mpu401_rst() waits for the acknowledgement, but not for long.
AckPoll ==
    /\ IF ReadReady THEN Goto("ack_poll", "ack_read")
                    ELSE Goto("ack_poll", "ack_clk")
    /\ UNCHANGED timerVars /\ SameDevice /\ SameMessage

AckRead ==
    /\ IF unread # <<>> /\ Head(unread) = "ack" THEN Goto("ack_read", "rst_flush")
                                               ELSE Goto("ack_read", "ack_clk")
    /\ ReadData
    /\ UNCHANGED <<timerVars, card, mode, task, left, fifo, wire>>
    /\ SameMessage

AckClock ==
    /\ IF Clock >= ResetTimeout THEN Goto("ack_clk", "rst_flush")
                                ELSE Goto("ack_clk", "ack_poll")
    /\ UNCHANGED timerVars /\ SameDevice /\ SameMessage

RstFlush == Flush("rst_flush", "uart_flush")

\* mpu401_uart(), and delay_ms(100) behind it.
UartWait == WaitWrite("uart_flush", "uart_stat", "uart_cmd")

UartCommand ==
    /\ Goto("uart_cmd", "init_wait") /\ StartTimer /\ WriteUart
    /\ UNCHANGED <<card, mode, fifo, wire, unread>> /\ SameMessage

\* Mutant: the delay is left out.
ReturnInitAtOnce ==
    /\ Goto("init_wait", "ready")
    /\ UNCHANGED timerVars /\ SameDevice /\ SameMessage
ReturnInit ==
    /\ Goto("init_wait", "ready") /\ elapsed >= InitWait
    /\ UNCHANGED timerVars /\ SameDevice /\ SameMessage

\* mididev_send_bytes(buf, len)
CallSend ==
    /\ Goto("ready", "send_flush")
    /\ len' \in Lengths /\ x' = 0 /\ wire' = -fifo
    /\ UNCHANGED <<timerVars, card, mode, task, left, fifo, unread>>

SendWait == WaitWrite("send_flush", "send_stat", "send_byte")

\* Mutant: one byte too many.
SendByteTooMany ==
    /\ IF x = len THEN Goto("send_byte", "settle") /\ StartTimer
                  ELSE Goto("send_byte", "send_flush") /\ UNCHANGED timerVars
    /\ x' = x + 1 /\ WriteData
    /\ UNCHANGED <<len, card, mode, task, left, wire, unread>>
SendByte ==
    /\ IF x + 1 = len THEN Goto("send_byte", "settle") /\ StartTimer
                      ELSE Goto("send_byte", "send_flush") /\ UNCHANGED timerVars
    /\ x' = x + 1 /\ WriteData
    /\ UNCHANGED <<len, card, mode, task, left, wire, unread>>

\* "Wait a bit to give the MPU401 time to shift out our message". Mutant: the
\* wait is left out.
ReturnSendAtOnce ==
    /\ Goto("settle", "ready")
    /\ UNCHANGED timerVars /\ SameDevice /\ SameMessage
ReturnSend ==
    /\ Goto("settle", "ready") /\ Clock >= Settle
    /\ UNCHANGED timerVars /\ SameDevice /\ SameMessage

\* mididev_deinit(): the result of the reset is not looked at.
CallDeinit ==
    /\ Goto("ready", "drst_stat") /\ StartTimer
    /\ SameDevice /\ SameMessage

DeinitWait == WaitTimeout("drst_stat", "drst_clk", "drst_cmd", "idle")

DeinitCommand ==
    /\ Goto("drst_cmd", "idle") /\ WriteReset
    /\ UNCHANGED <<timerVars, card, wire, unread>> /\ SameMessage

\* The program ends without mididev_deinit(): abort() on an unusable picture,
\* or the user breaks it off.
Die ==
    /\ pc # "idle" /\ pc' = "idle"
    /\ UNCHANGED timerVars /\ SameDevice /\ SameMessage

Call == CallInit \/ CallSend \/ CallDeinit

Step == \/ RstWait \/ RstCommand \/ AckPoll \/ AckRead \/ AckClock \/ RstFlush
        \/ UartWait \/ UartCommand \/ ReturnInit
        \/ SendWait \/ SendByte \/ ReturnSend
        \/ DeinitWait \/ DeinitCommand

Init ==
    /\ pc = "idle" /\ len = 0 /\ x = 0
    /\ phase = 0 /\ elapsed = 0
    /\ card \in Cards /\ mode \in {"intelligent", "uart"}
    /\ task = "none" /\ left = 0 /\ fifo = 0 /\ wire = 0 /\ unread = <<>>

Next == Call \/ Step \/ Die \/ Tick \/ MidiIn

SafeSpec == Init /\ [][Next]_vars

\* The driver polls without ever giving up the processor, and time passes.
Spec == SafeSpec /\ WF_vars(Step) /\ WF_vars(Tick)

-----------------------------------------------------------------------------
Resetting == {"rst_stat", "rst_clk", "rst_cmd", "ack_poll", "ack_read", "ack_clk",
              "rst_flush"}
Starting  == Resetting \cup {"uart_flush", "uart_stat", "uart_cmd", "init_wait"}
Sending   == {"send_flush", "send_stat", "send_byte", "settle"}
Stopping  == {"drst_stat", "drst_clk", "drst_cmd"}

\* Types and ranges of the driver's variables and of the interface's.
TypeOK ==
    /\ pc \in {"idle", "ready"} \cup Starting \cup Sending \cup Stopping
    /\ len \in Lengths \cup {0} /\ x \in 0 .. len
    /\ phase \in 0 .. ClockStep - 1 /\ elapsed \in 0 .. TimerCap
    /\ card \in Cards /\ mode \in {"intelligent", "uart"}
    /\ task \in {"none", "reset", "uart"} /\ left \in Nat
    /\ fifo \in 0 .. FifoSize /\ wire \in Int
    /\ unread \in Seq({"ack", "midi"})

\* Every byte the program hands to the interface goes to the wire or waits in
\* the FIFO: none is written before the interface is in UART mode or while it
\* is full (MPU401.C:52-59, midi_dev.c:19-26).
NoByteLost == pc \in Sending /\ IsMpu => wire + fifo = x

\* The time it takes at least until clock() is Settle further, whatever the
\* clock's position when the wait began: on a PC one unit, since the first step
\* of the clock ends the wait.
LeastWait == ((Settle + ClockStep - 1) \div ClockStep) * ClockStep - (ClockStep - 1)
LeftBehind == IF LeastWait < FifoSize THEN FifoSize - LeastWait ELSE 0

\* When mididev_deinit() resets the interface, the wait behind the last message
\* has left at most that many bytes to be cut off (MPU401.C:133-137, 114-118).
ResetDropsLittle == pc \in Stopping => fifo <= LeftBehind

\* The reset interrupts no message at all (MPU401.C:134-136, "Otherwise, a MPU401
\* reset command may interrupt the midi msg / 25ms should be fine even if the
\* hardware has a large buffer"). Not so on a PC.
ResetNeverTruncates == pc \in Stopping => fifo = 0

\* To its caller the driver is MidiOut: while it is open it loses and drops
\* nothing, and a send returns with at most LeftBehind bytes on their way.
Out == INSTANCE MidiOut WITH
    state <- IF pc \in Sending THEN "busy"
             ELSE IF pc \in {"ready"} \cup Stopping THEN "open" ELSE "closed",
    given <- x, flying <- fifo, Capacity <- FifoSize, Left <- LeftBehind
DeliversMessages == Out!Spec

\* A program that finds no interface never gets as far as writing to it, and a
\* port that is something else's is written nothing but resets (midi_dev.c:15-18).
NothingSentToEmptyPort ==
    /\ card = "absent" => pc \in {"idle", "rst_stat", "rst_clk"}
    /\ card = "low" => pc \in {"idle"} \cup Resetting

\* Every call of the back end returns, unless the input it has to read never
\* ceases (MPU401.C:62-63, 98: "no longer than timeout", "skip waiting if no
\* answer"). At a port that always has a byte it does not: there every call comes
\* as far as the flush of the reset, past all waits for an answer (MPU401.C:46-48).
InCall == pc \notin {"idle", "ready"}
CallsReturn ==
    \/ []<><<MidiIn>>_vars
    \/ InCall ~> ~InCall \/ (card = "low" /\ pc = "rst_flush")
=============================================================================
