---------------------------- MODULE Mpu401Proofs ----------------------------
(***************************************************************************)
(* Proofs about Mpu401, for every FIFO, clock, wait and set of message     *)
(* lengths, and whatever sits at the port.  DeviceInv is about the         *)
(* interface alone; PhaseInv says how far the driver has brought it at     *)
(* each of its steps, and what the wait behind a message has left in the   *)
(* FIFO.  They are inductive with the type invariant.  UartInv adds what   *)
(* the delay of mididev_init() is for, and it alone needs SwitchesInTime.  *)
(***************************************************************************)
EXTENDS Mpu401, TLAPS

\* The 100 ms of mididev_init() cover the switch to UART mode.
SwitchesInTime == SwitchTime <= InitWait

Opened == {"ready"} \cup Sending \cup Stopping

DeviceInv ==
    /\ ~IsMpu => fifo = 0 /\ task = "none"
    /\ task = "reset" => fifo = 0
    /\ task # "none" => left \in Nat \ {0}

PhaseInv ==
    /\ pc \in {"ack_poll", "ack_read", "ack_clk", "rst_flush", "uart_flush",
               "uart_stat", "uart_cmd", "init_wait"} => fifo = 0
    /\ pc \in {"send_flush", "send_stat", "send_byte"} => x < len
    /\ pc = "settle" => x = len /\ (fifo = 0 \/ fifo + elapsed <= FifoSize)
    /\ pc \in {"ready"} \cup Stopping => fifo <= LeftBehind
    /\ card = "absent" => pc \in {"idle", "rst_stat", "rst_clk"}
    /\ card = "low" => pc \in {"idle"} \cup Resetting

UartInv ==
    /\ IsMpu /\ pc = "uart_cmd" => task # "reset"
    /\ IsMpu /\ pc = "init_wait" =>
           \/ task = "uart" /\ left + elapsed <= SwitchTime
           \/ task = "none" /\ mode = "uart"
    /\ IsMpu /\ pc \in Opened => task = "none" /\ mode = "uart"
    /\ IsMpu /\ pc = "send_byte" => fifo < FifoSize
    /\ IsMpu /\ pc \in Sending => wire + fifo = x

SafeInv == TypeOK /\ DeviceInv /\ PhaseInv

\* Of two multiples of h, the one that is less than h above the other is not
\* above it.
LEMMA LessByAStep ==
    ASSUME NEW a \in Nat, NEW b \in Nat, NEW h \in Nat \ {0},
           a * h < b * h + h
    PROVE  a <= b
<1> SUFFICES ASSUME a >= b + 1 PROVE FALSE OBVIOUS
<1>1. PICK d \in Nat : a = b + 1 + d
  <2>1. a - b - 1 \in Nat /\ a = b + 1 + (a - b - 1) OBVIOUS
  <2> QED BY <2>1
<1>2. a * h = b * h + h + d * h BY <1>1
<1>3. d * h \in Nat /\ b * h \in Nat OBVIOUS
<1> QED BY <1>2, <1>3

USE LengthsAssumption, TimesAssumption
USE DEF Starting, Resetting, Sending, Stopping, Opened

-----------------------------------------------------------------------------
LEMMA CapType == TimerCap \in Nat
BY DEF TimerCap

\* Once the clock is Settle further, at least LeastWait has passed.
LEMMA SettlesAfter ==
    ASSUME TypeOK, Clock >= Settle PROVE elapsed >= LeastWait
<1> DEFINE g == ClockStep
           k == (Settle + g - 1) \div g
           q == (phase + elapsed) \div g
<1>1. /\ g \in Nat \ {0} /\ Settle \in Nat /\ elapsed \in Nat
      /\ phase \in 0 .. g - 1
  BY CapType DEF TypeOK
<1>2. ASSUME NEW a \in Nat, NEW h \in Nat \ {0}
      PROVE  /\ a \div h \in Nat /\ (a \div h) * h <= a
             /\ a < (a \div h) * h + h
  OBVIOUS
<1>3. k \in Nat /\ k * g <= Settle + g - 1
  <2>1. Settle + g - 1 \in Nat BY <1>1
  <2> QED BY <1>1, <1>2, <2>1
<1>4. q \in Nat /\ q * g <= phase + elapsed
  <2>1. phase + elapsed \in Nat BY <1>1
  <2> QED BY <1>1, <1>2, <2>1
<1>5. q * g >= Settle BY DEF Clock
<1> HIDE DEF g, k, q
<1>6. k * g < q * g + g
  <2>1. k * g \in Int /\ q * g \in Int BY <1>1, <1>3, <1>4
  <2> QED BY <1>1, <1>3, <1>5, <2>1
<1>7. k <= q
  BY <1>1, <1>3, <1>4, <1>6, LessByAStep
<1>8. k * g <= q * g BY <1>1, <1>3, <1>4, <1>7
<1>9. k * g \in Int /\ k * g <= phase + elapsed /\ phase <= g - 1
  <2>1. k * g \in Int /\ q * g \in Int BY <1>1, <1>3, <1>4
  <2> QED BY <1>1, <1>4, <1>8, <2>1
<1>10. elapsed >= k * g - (g - 1) BY <1>1, <1>9
<1> QED BY <1>10 DEF LeastWait, g, k

LEMMA LeftType == LeftBehind \in Nat /\ LeastWait \in Int
<1>1. ASSUME NEW a \in Nat, NEW h \in Nat \ {0}
      PROVE  (a \div h) * h \in Int
  OBVIOUS
<1>2. Settle + ClockStep - 1 \in Nat OBVIOUS
<1>3. LeastWait \in Int BY <1>1, <1>2 DEF LeastWait
<1>4. LeftBehind \in Nat BY <1>3 DEF LeftBehind
<1> QED BY <1>3, <1>4

\* Input is only appended to or taken from.
LEMMA UnreadType ==
    ASSUME unread \in Seq({"ack", "midi"})
    PROVE  /\ Received("ack") \in Seq({"ack", "midi"})
           /\ Append(unread, "midi") \in Seq({"ack", "midi"})
           /\ ReadData => unread' \in Seq({"ack", "midi"})
BY DEF Received, ReadData

LEMMA InitSafe == Init => SafeInv
<1> SUFFICES ASSUME Init PROVE SafeInv OBVIOUS
<1>1. TypeOK
  <2>1. unread \in Seq({"ack", "midi"}) BY DEF Init
  <2> QED BY <2>1, CapType DEF Init, TypeOK
<1>2. DeviceInv BY DEF Init, DeviceInv
<1>3. PhaseInv BY DEF Init, PhaseInv
<1> QED BY <1>1, <1>2, <1>3 DEF SafeInv

-----------------------------------------------------------------------------
(* Steps of the driver that change neither the interface nor the message:  *)
(* only pc, and perhaps the timer.                                         *)
Quiet == SameDevice /\ SameMessage /\ pc' \in {"idle", "ready"}
            \cup Starting \cup Sending \cup Stopping

LEMMA QuietStep ==
    ASSUME TypeOK, DeviceInv, Quiet, UNCHANGED timerVars \/ StartTimer
    PROVE  TypeOK' /\ DeviceInv'
<1>1. phase' \in 0 .. ClockStep - 1 /\ elapsed' \in 0 .. TimerCap
  BY CapType DEF StartTimer, TypeOK, timerVars
<1>2. TypeOK'
  BY <1>1 DEF Quiet, SameDevice, SameMessage, deviceVars, TypeOK, TimerCap
<1>3. DeviceInv'
  BY DEF Quiet, SameDevice, SameMessage, deviceVars, DeviceInv, IsMpu
<1> QED BY <1>2, <1>3

\* Reading input changes nothing else.
LEMMA FlushStep ==
    ASSUME TypeOK, DeviceInv, NEW from, NEW to, Flush(from, to),
           {from, to} \subseteq Starting \cup Sending
    PROVE  /\ TypeOK' /\ DeviceInv' /\ pc = from /\ pc' \in {from, to}
           /\ UNCHANGED <<card, mode, task, left, fifo, wire, len, x, elapsed>>
<1>1. /\ pc = from /\ pc' \in {from, to}
      /\ UNCHANGED <<card, mode, task, left, fifo, wire, len, x, phase, elapsed>>
  BY DEF Flush, Goto, SameMessage, timerVars
<1>2. unread' \in Seq({"ack", "midi"})
  BY UnreadType DEF Flush, Goto, TypeOK
<1>3. TypeOK' BY <1>1, <1>2 DEF TypeOK, TimerCap
<1>4. DeviceInv' BY <1>1 DEF DeviceInv, IsMpu
<1> QED BY <1>1, <1>3, <1>4

LEMMA StepSafe == SafeInv /\ [Next]_vars => SafeInv'
<1> SUFFICES ASSUME SafeInv, [Next]_vars PROVE SafeInv'
  OBVIOUS
<1> USE DEF SafeInv, IsMpu
<1>0. card \in {"mpu", "strict", "absent", "low"} BY CardsAssumption DEF TypeOK
<1>1. CASE CallInit
  <2>1. Quiet /\ StartTimer /\ pc' = "rst_stat" BY <1>1 DEF CallInit, Goto, Quiet
  <2>2. PhaseInv'
    BY <2>1 DEF PhaseInv, Quiet, SameDevice, SameMessage, deviceVars
  <2> QED BY <2>1, <2>2, QuietStep
<1>2. CASE RstWait
  <2>1. Quiet /\ UNCHANGED timerVars /\ pc' \in {"rst_stat", "rst_clk", "rst_cmd", "idle"}
    BY <1>2 DEF RstWait, WaitTimeout, Goto, Quiet
  <2>2. card = "absent" => pc' # "rst_cmd"
    BY <1>2, <1>0 DEF RstWait, WaitTimeout, Goto, WriteReady
  <2>3. PhaseInv'
    BY <2>1, <2>2 DEF PhaseInv, Quiet, SameDevice, SameMessage, deviceVars
  <2> QED BY <2>1, <2>3, QuietStep
<1>3. CASE RstCommand
  <2>1. /\ pc = "rst_cmd" /\ pc' = "ack_poll" /\ card # "absent" /\ card' = card
        /\ wire' = wire /\ unread' = unread /\ len' = len /\ x' = x
        /\ elapsed' = 0 /\ phase' \in 0 .. ClockStep - 1
    BY <1>3 DEF RstCommand, Goto, PhaseInv, StartTimer, SameMessage
  <2>2. CASE IsMpu
    <3>1. /\ fifo' = 0 /\ mode' = "intelligent" /\ task' = "reset"
          /\ left' \in 1 .. ResetTime
      BY <1>3, <2>2 DEF RstCommand, WriteReset
    <3>2. TypeOK' BY <2>1, <3>1, CapType DEF TypeOK, TimerCap
    <3>3. DeviceInv' BY <2>1, <2>2, <3>1 DEF DeviceInv
    <3>4. PhaseInv' BY <2>1, <2>2, <3>1 DEF PhaseInv
    <3> QED BY <3>2, <3>3, <3>4
  <2>3. CASE ~IsMpu
    <3>1. UNCHANGED <<fifo, mode, task, left>> /\ fifo = 0
      BY <1>3, <2>3 DEF RstCommand, WriteReset, DeviceInv
    <3>2. TypeOK' BY <2>1, <3>1, CapType DEF TypeOK, TimerCap
    <3>3. DeviceInv' BY <2>1, <3>1 DEF DeviceInv
    <3>4. PhaseInv' BY <2>1, <3>1 DEF PhaseInv
    <3> QED BY <3>2, <3>3, <3>4
  <2> QED BY <2>2, <2>3
<1>4. CASE AckPoll
  <2>1. /\ Quiet /\ UNCHANGED timerVars
        /\ pc = "ack_poll" /\ pc' \in {"ack_read", "ack_clk"}
    BY <1>4 DEF AckPoll, Goto, Quiet
  <2>2. PhaseInv'
    BY <2>1 DEF PhaseInv, Quiet, SameDevice, SameMessage, deviceVars
  <2> QED BY <2>1, <2>2, QuietStep
<1>5. CASE AckRead
  <2>1. /\ pc = "ack_read" /\ pc' \in {"rst_flush", "ack_clk"}
        /\ UNCHANGED <<timerVars, card, mode, task, left, fifo, wire, len, x>>
    BY <1>5 DEF AckRead, Goto, SameMessage
  <2>2. unread' \in Seq({"ack", "midi"})
    BY <1>5, UnreadType DEF AckRead, TypeOK
  <2>3. TypeOK' BY <2>1, <2>2 DEF TypeOK, TimerCap, timerVars
  <2>4. DeviceInv' BY <2>1 DEF DeviceInv
  <2>5. PhaseInv' BY <2>1 DEF PhaseInv
  <2> QED BY <2>3, <2>4, <2>5
<1>6. CASE AckClock
  <2>1. /\ Quiet /\ UNCHANGED timerVars
        /\ pc = "ack_clk" /\ pc' \in {"rst_flush", "ack_poll"}
    BY <1>6 DEF AckClock, Goto, Quiet
  <2>2. PhaseInv'
    BY <2>1 DEF PhaseInv, Quiet, SameDevice, SameMessage, deviceVars
  <2> QED BY <2>1, <2>2, QuietStep
<1>7. CASE RstFlush
  <2>1. /\ TypeOK' /\ DeviceInv'
        /\ pc = "rst_flush" /\ pc' \in {"rst_flush", "uart_flush"}
        /\ UNCHANGED <<card, mode, task, left, fifo, wire, len, x, elapsed>>
    BY <1>7, FlushStep DEF RstFlush
  <2>2. card = "low" => pc' = "rst_flush"
    BY <1>7 DEF RstFlush, Flush, ReadReady, Goto
  <2>3. PhaseInv' BY <2>1, <2>2 DEF PhaseInv
  <2> QED BY <2>1, <2>3
<1>8. CASE UartWait
  <2>1. CASE Flush("uart_flush", "uart_stat")
    <3>1. /\ TypeOK' /\ DeviceInv'
          /\ pc = "uart_flush" /\ pc' \in {"uart_flush", "uart_stat"}
          /\ UNCHANGED <<card, mode, task, left, fifo, wire, len, x, elapsed>>
      BY <2>1, FlushStep
    <3>2. PhaseInv' BY <3>1 DEF PhaseInv
    <3> QED BY <3>1, <3>2
  <2>2. CASE ~Flush("uart_flush", "uart_stat")
    <3>1. /\ Quiet /\ UNCHANGED timerVars
          /\ pc = "uart_stat" /\ pc' \in {"uart_flush", "uart_cmd"}
      BY <1>8, <2>2 DEF UartWait, WaitWrite, Goto, Quiet
    <3>2. PhaseInv'
      BY <3>1 DEF PhaseInv, Quiet, SameDevice, SameMessage, deviceVars
    <3> QED BY <3>1, <3>2, QuietStep
  <2> QED BY <2>1, <2>2
<1>9. CASE UartCommand
  <2>1. /\ pc = "uart_cmd" /\ pc' = "init_wait" /\ IsMpu /\ card' = card
        /\ fifo = 0 /\ fifo' = 0 /\ mode' = mode
        /\ wire' = wire /\ unread' = unread /\ len' = len /\ x' = x
        /\ elapsed' = 0 /\ phase' \in 0 .. ClockStep - 1
    BY <1>0, <1>9 DEF UartCommand, Goto, PhaseInv, SameMessage, StartTimer
  <2>2. \/ task # "reset" /\ task' = "uart" /\ left' \in 1 .. SwitchTime
        \/ task = "reset" /\ task' = task /\ left' = left
    BY <1>9, <2>1 DEF UartCommand, WriteUart
  <2>3. TypeOK' BY <2>1, <2>2, CapType DEF TypeOK, TimerCap
  <2>4. DeviceInv' BY <2>1, <2>2 DEF DeviceInv
  <2>5. PhaseInv' BY <2>1 DEF PhaseInv
  <2> QED BY <2>3, <2>4, <2>5
<1>10. CASE ReturnInit
  <2>1. Quiet /\ UNCHANGED timerVars /\ pc = "init_wait" /\ pc' = "ready"
    BY <1>10 DEF ReturnInit, Goto, Quiet
  <2>2. fifo <= LeftBehind BY <2>1, LeftType DEF PhaseInv
  <2>3. PhaseInv'
    <3>1. LeftBehind' = LeftBehind BY DEF LeftBehind, LeastWait
    <3> QED BY <2>1, <2>2, <3>1
        DEF PhaseInv, Quiet, SameDevice, SameMessage, deviceVars
  <2> QED BY <2>1, <2>3, QuietStep
<1>11. CASE CallSend
  <2>1. /\ pc = "ready" /\ pc' = "send_flush" /\ x' = 0 /\ wire' = -fifo
        /\ UNCHANGED <<phase, elapsed, card, mode, task, left, fifo, unread>>
    BY <1>11 DEF CallSend, Goto, timerVars
  <2>2. PICK l \in Lengths : len' = l BY <1>11 DEF CallSend
  <2>3. TypeOK' BY <2>1, <2>2 DEF TypeOK, TimerCap
  <2>4. DeviceInv' BY <2>1 DEF DeviceInv
  <2>5. PhaseInv' BY <2>1, <2>2 DEF PhaseInv
  <2> QED BY <2>3, <2>4, <2>5
<1>12. CASE SendWait
  <2>1. CASE Flush("send_flush", "send_stat")
    <3>1. /\ TypeOK' /\ DeviceInv'
          /\ pc = "send_flush" /\ pc' \in {"send_flush", "send_stat"}
          /\ UNCHANGED <<card, mode, task, left, fifo, wire, len, x, elapsed>>
      BY <2>1, FlushStep
    <3>2. PhaseInv' BY <3>1 DEF PhaseInv
    <3> QED BY <3>1, <3>2
  <2>2. CASE ~Flush("send_flush", "send_stat")
    <3>1. /\ Quiet /\ UNCHANGED timerVars
          /\ pc = "send_stat" /\ pc' \in {"send_flush", "send_byte"}
      BY <1>12, <2>2 DEF SendWait, WaitWrite, Goto, Quiet
    <3>2. PhaseInv'
      BY <3>1 DEF PhaseInv, Quiet, SameDevice, SameMessage, deviceVars
    <3> QED BY <3>1, <3>2, QuietStep
  <2> QED BY <2>1, <2>2
<1>13. CASE SendByte
  <2>1. /\ pc = "send_byte" /\ pc' \in {"settle", "send_flush"}
        /\ IsMpu /\ x < len /\ x' = x + 1
        /\ UNCHANGED <<len, card, mode, task, left, wire, unread>>
    BY <1>0, <1>13 DEF SendByte, Goto, PhaseInv
  <2>2. PICK f \in 0 .. FifoSize : fifo' = f /\ (f # fifo => task = "none")
    <3>1. fifo < FifoSize => fifo + 1 \in 0 .. FifoSize BY DEF TypeOK
    <3> QED BY <1>13, <3>1 DEF SendByte, WriteData, TypeOK
  <2>3. /\ pc' = "settle" => x + 1 = len /\ elapsed' = 0
        /\ pc' = "send_flush" => x + 1 # len
        /\ phase' \in 0 .. ClockStep - 1 /\ elapsed' \in 0 .. TimerCap
    BY <1>13, <2>1, CapType DEF SendByte, Goto, StartTimer, TypeOK, timerVars
  <2>4. /\ len \in Nat /\ x \in Nat /\ x + 1 \in 0 .. len
        /\ x + 1 # len => x + 1 < len
    BY <2>1 DEF TypeOK
  <2>5. TypeOK' BY <2>1, <2>2, <2>3, <2>4 DEF TypeOK, TimerCap
  <2>6. DeviceInv' BY <2>1, <2>2 DEF DeviceInv
  <2>7. PhaseInv'
    <3>1. f + 0 <= FifoSize OBVIOUS
    <3> QED BY <2>1, <2>2, <2>3, <2>4, <3>1 DEF PhaseInv
  <2> QED BY <2>5, <2>6, <2>7
<1>14. CASE ReturnSend
  <2>1. /\ Quiet /\ UNCHANGED timerVars
        /\ pc = "settle" /\ pc' = "ready" /\ Clock >= Settle
    BY <1>14 DEF ReturnSend, Goto, Quiet
  <2>2. fifo <= LeftBehind
    <3>1. /\ fifo \in Nat /\ elapsed \in Nat
          /\ fifo = 0 \/ fifo + elapsed <= FifoSize
      BY <2>1, CapType DEF TypeOK, PhaseInv
    <3>2. elapsed >= LeastWait /\ LeastWait \in Int
      BY <2>1, SettlesAfter, LeftType
    <3> QED BY <3>1, <3>2, LeftType DEF LeftBehind
  <2>3. PhaseInv'
    <3>1. LeftBehind' = LeftBehind BY DEF LeftBehind, LeastWait
    <3> QED BY <2>1, <2>2, <3>1
        DEF PhaseInv, Quiet, SameDevice, SameMessage, deviceVars
  <2> QED BY <2>1, <2>3, QuietStep
<1>15. CASE CallDeinit
  <2>1. Quiet /\ StartTimer /\ pc = "ready" /\ pc' = "drst_stat"
    BY <1>15 DEF CallDeinit, Goto, Quiet
  <2>2. PhaseInv'
    BY <2>1 DEF PhaseInv, Quiet, SameDevice, SameMessage, deviceVars
  <2> QED BY <2>1, <2>2, QuietStep
<1>16. CASE DeinitWait
  <2>1. /\ Quiet /\ UNCHANGED timerVars
        /\ pc \in {"drst_stat", "drst_clk"}
        /\ pc' \in {"drst_stat", "drst_clk", "drst_cmd", "idle"}
    BY <1>16 DEF DeinitWait, WaitTimeout, Goto, Quiet
  <2>2. PhaseInv'
    BY <2>1 DEF PhaseInv, Quiet, SameDevice, SameMessage, deviceVars
  <2> QED BY <2>1, <2>2, QuietStep
<1>17. CASE DeinitCommand
  <2>1. /\ pc = "drst_cmd" /\ pc' = "idle" /\ IsMpu /\ card' = card
        /\ fifo' = 0 /\ mode' = "intelligent" /\ task' = "reset"
        /\ UNCHANGED <<wire, unread, len, x, phase, elapsed>>
        /\ left' \in 1 .. ResetTime
    BY <1>0, <1>17 DEF DeinitCommand, Goto, PhaseInv, WriteReset, SameMessage,
                       timerVars
  <2>2. TypeOK' BY <2>1 DEF TypeOK, TimerCap
  <2>3. DeviceInv' BY <2>1 DEF DeviceInv
  <2>4. PhaseInv' BY <2>1 DEF PhaseInv
  <2> QED BY <2>2, <2>3, <2>4
<1>18. CASE Die
  <2>1. Quiet /\ UNCHANGED timerVars /\ pc' = "idle" BY <1>18 DEF Die, Quiet
  <2>2. PhaseInv'
    BY <2>1 DEF PhaseInv, Quiet, SameDevice, SameMessage, deviceVars
  <2> QED BY <2>1, <2>2, QuietStep
<1>19. CASE Tick
  <2>1. UNCHANGED <<pc, len, x, phase, card>>
    BY <1>19 DEF Tick, driverVars
  <2>2. PICK e \in 0 .. TimerCap :
               /\ elapsed' = e
               /\ e = elapsed + 1 \/ (e = elapsed /\ elapsed = TimerCap)
    BY <1>19, CapType DEF Tick, TickTimer, TypeOK
  <2>3. PICK f \in 0 .. FifoSize : fifo' = f /\ (f = fifo \/ f = fifo - 1)
                                   /\ (fifo = 0 => f = 0) /\ (fifo > 0 => f = fifo - 1)
    <3>1. CASE fifo > 0
      <4>1. fifo - 1 \in 0 .. FifoSize BY <3>1 DEF TypeOK
      <4> QED BY <1>19, <3>1, <4>1 DEF Tick, TickFifo
    <3>2. CASE fifo = 0
      BY <1>19, <3>2 DEF Tick, TickFifo, TypeOK
    <3> QED BY <3>1, <3>2 DEF TypeOK
  <2>4. PICK l \in Nat :
               /\ left' = l
               /\ \/ task' = task /\ mode' = mode /\ (task = "none" \/ (l = left - 1 /\ l > 0))
                  \/ task = "reset" /\ task' = "none" /\ mode' = mode
                  \/ task = "uart" /\ task' = "none" /\ mode' = "uart"
    <3>1. CASE task = "none"
      <4>1. task' = task /\ mode' = mode /\ left' = left /\ left \in Nat
        BY <1>19, <3>1 DEF Tick, TickTask, TypeOK
      <4> QED BY <3>1, <4>1
    <3>2. CASE task # "none" /\ left > 1
      <4>1. left - 1 \in Nat /\ left - 1 > 0 BY <3>2 DEF TypeOK
      <4> QED BY <1>19, <3>2, <4>1 DEF Tick, TickTask
    <3>3. CASE task # "none" /\ ~(left > 1)
      BY <1>19, <3>3 DEF Tick, TickTask, TypeOK
    <3> QED BY <3>1, <3>2, <3>3
  <2>5. unread' \in Seq({"ack", "midi"})
    BY <1>19, UnreadType DEF Tick, TickTask, TypeOK
  <2>6. TypeOK'
    <3>1. task' \in {"none", "reset", "uart"} /\ mode' \in {"intelligent", "uart"}
      BY <2>4 DEF TypeOK
    <3>2. wire' \in Int BY <1>19 DEF Tick, TickFifo, TypeOK
    <3> QED BY <2>1, <2>2, <2>3, <2>4, <2>5, <3>1, <3>2 DEF TypeOK, TimerCap
  <2>7. DeviceInv'
    <3>1. task' # "none" => task' = task /\ l > 0
      BY <2>4
    <3>2. task = "none" => task' = "none"
      BY <2>4
    <3> QED BY <2>1, <2>3, <2>4, <3>1, <3>2 DEF DeviceInv
  <2>8. PhaseInv'
    <3>1. f <= fifo BY <2>3 DEF TypeOK
    <3>2. fifo <= LeftBehind => f <= LeftBehind BY <3>1, LeftType DEF TypeOK
    <3>3. ASSUME fifo + elapsed <= FifoSize PROVE f = 0 \/ f + e <= FifoSize
      BY <2>2, <2>3, <3>3, CapType DEF TypeOK
    <3>4. LeftBehind' = LeftBehind BY DEF LeftBehind, LeastWait
    <3> QED
      BY <2>1, <2>2, <2>3, <3>2, <3>3, <3>4 DEF PhaseInv
  <2> QED BY <2>6, <2>7, <2>8
<1>20. CASE MidiIn
  <2>1. UNCHANGED <<pc, len, x, phase, elapsed, card, mode, task, left, fifo, wire>>
    BY <1>20 DEF MidiIn, driverVars, timerVars
  <2>2. unread' \in Seq({"ack", "midi"})
    BY <1>20, UnreadType DEF MidiIn, TypeOK
  <2>3. TypeOK' BY <2>1, <2>2 DEF TypeOK, TimerCap
  <2>4. DeviceInv' BY <2>1 DEF DeviceInv
  <2>5. PhaseInv' BY <2>1 DEF PhaseInv
  <2> QED BY <2>3, <2>4, <2>5
<1>21. CASE UNCHANGED vars
  BY <1>21 DEF vars, driverVars, timerVars, deviceVars, TypeOK, TimerCap,
               DeviceInv, PhaseInv
<1> QED
  BY <1>1, <1>2, <1>3, <1>4, <1>5, <1>6, <1>7, <1>8, <1>9, <1>10, <1>11, <1>12,
     <1>13, <1>14, <1>15, <1>16, <1>17, <1>18, <1>19, <1>20, <1>21
  DEF Next, Call, Step

LEMMA AlwaysSafe == SafeSpec => []SafeInv
BY InitSafe, StepSafe, PTL DEF SafeSpec

-----------------------------------------------------------------------------
(* What mididev_init() brings the interface to, and what a send relies on. *)

\* A step that leaves interface and message alone and goes on to a place of
\* which UartInv says nothing, or back to one of which it held.
LEMMA UartQuiet ==
    ASSUME UartInv, SameDevice, SameMessage,
           \/ pc' \notin {"uart_cmd", "init_wait", "send_byte"} \cup Opened
           \/ pc \in Sending /\ pc' \in Sending \ {"send_byte"}
           \/ pc \in Opened /\ pc' \in {"ready"} \cup Stopping
    PROVE  UartInv'
BY DEF UartInv, SameDevice, SameMessage, deviceVars, IsMpu

\* The same of a step that reads input.
LEMMA UartFlush ==
    ASSUME UartInv, NEW from, NEW to, Flush(from, to),
           {from, to} \subseteq {"rst_flush", "uart_flush", "uart_stat"}
             \/ {from, to} \subseteq Sending \ {"send_byte"}
    PROVE  UartInv'
<1>1. /\ pc = from /\ pc' \in {from, to}
      /\ UNCHANGED <<card, mode, task, left, fifo, wire, len, x, elapsed>>
  BY DEF Flush, Goto, SameMessage, timerVars
<1> QED BY <1>1 DEF UartInv, IsMpu

LEMMA StepUart ==
    ASSUME SwitchesInTime
    PROVE  SafeInv /\ UartInv /\ [Next]_vars => UartInv'
<1> SUFFICES ASSUME SafeInv, UartInv, [Next]_vars PROVE UartInv'
  OBVIOUS
<1>1. CASE CallInit \/ RstWait \/ AckPoll \/ AckClock
  <2>1. /\ SameDevice /\ SameMessage
        /\ pc' \notin {"uart_cmd", "init_wait", "send_byte"} \cup Opened
    BY <1>1 DEF CallInit, RstWait, AckPoll, AckClock, WaitTimeout, Goto
  <2> QED BY <2>1, UartQuiet
<1>2. CASE RstCommand \/ AckRead \/ DeinitCommand
  <2>1. pc' \in {"ack_poll", "ack_clk", "rst_flush", "idle"}
    BY <1>2 DEF RstCommand, AckRead, DeinitCommand, Goto
  <2> QED BY <2>1 DEF UartInv
<1>3. CASE RstFlush
  BY <1>3, UartFlush DEF RstFlush
<1>4. CASE UartWait
  <2>1. CASE Flush("uart_flush", "uart_stat") BY <2>1, UartFlush
  <2>2. CASE ~Flush("uart_flush", "uart_stat")
    <3>1. /\ SameDevice /\ SameMessage
          /\ pc' \in {"uart_flush", "uart_cmd"}
          /\ pc' = "uart_cmd" => WriteReady
      BY <1>4, <2>2 DEF UartWait, WaitWrite, Goto
    <3>2. IsMpu /\ pc' = "uart_cmd" => task # "reset"
      BY <3>1 DEF WriteReady, IsMpu
    <3> QED BY <3>1, <3>2 DEF UartInv, SameDevice, deviceVars, IsMpu
  <2> QED BY <2>1, <2>2
<1>5. CASE UartCommand
  <2>1. /\ pc = "uart_cmd" /\ pc' = "init_wait" /\ card' = card
        /\ IsMpu /\ task # "reset" => task' = "uart" /\ left' \in 1 .. SwitchTime
        /\ elapsed' = 0
    BY <1>5 DEF UartCommand, WriteUart, StartTimer, Goto
  <2>2. IsMpu => task' = "uart" /\ left' \in 1 .. SwitchTime
    BY <2>1 DEF UartInv
  <2>3. ASSUME IsMpu PROVE left' + elapsed' <= SwitchTime
    BY <2>1, <2>2, <2>3
  <2> QED BY <2>1, <2>2, <2>3 DEF UartInv, IsMpu
<1>6. CASE ReturnInit
  <2>1. /\ SameDevice /\ SameMessage
        /\ pc = "init_wait" /\ pc' = "ready" /\ elapsed >= InitWait
    BY <1>6 DEF ReturnInit, Goto
  <2>2. ASSUME IsMpu PROVE task = "none" /\ mode = "uart"
    <3>1. ASSUME task = "uart", left + elapsed <= SwitchTime PROVE FALSE
      <4>1. left \in Nat \ {0} /\ elapsed \in Nat
        BY <3>1, CapType DEF SafeInv, DeviceInv, TypeOK
      <4> QED BY <2>1, <3>1, <4>1 DEF SwitchesInTime
    <3> QED BY <2>1, <2>2, <3>1 DEF UartInv
  <2> QED BY <2>1, <2>2 DEF UartInv, SameDevice, deviceVars, IsMpu
<1>7. CASE CallSend
  <2>1. /\ pc = "ready" /\ pc' = "send_flush" /\ x' = 0 /\ wire' = -fifo
        /\ UNCHANGED <<card, mode, task, fifo>>
    BY <1>7 DEF CallSend, Goto
  <2>2. wire' + fifo' = x' BY <2>1 DEF SafeInv, TypeOK
  <2> QED BY <2>1, <2>2 DEF UartInv, IsMpu
<1>8. CASE SendWait
  <2>1. CASE Flush("send_flush", "send_stat") BY <2>1, UartFlush
  <2>2. CASE ~Flush("send_flush", "send_stat")
    <3>1. /\ SameDevice /\ SameMessage
          /\ pc = "send_stat" /\ pc' \in {"send_flush", "send_byte"}
          /\ pc' = "send_byte" => WriteReady
      BY <1>8, <2>2 DEF SendWait, WaitWrite, Goto
    <3>2. IsMpu /\ pc' = "send_byte" => fifo < FifoSize
      BY <3>1 DEF WriteReady, IsMpu
    <3> QED BY <3>1, <3>2 DEF UartInv, SameDevice, SameMessage, deviceVars, IsMpu
  <2> QED BY <2>1, <2>2
<1>9. CASE SendByte
  <2>1. /\ pc = "send_byte" /\ pc' \in {"settle", "send_flush"} /\ x' = x + 1
        /\ UNCHANGED <<card, mode, task, wire>>
    BY <1>9 DEF SendByte, Goto
  <2>2. ASSUME IsMpu PROVE wire' + fifo' = x'
    <3>1. task = "none" /\ mode = "uart" /\ fifo < FifoSize /\ wire + fifo = x
      BY <2>1, <2>2 DEF UartInv
    <3>2. fifo' = fifo + 1 BY <1>9, <2>2, <3>1 DEF SendByte, WriteData
    <3> QED BY <2>1, <3>1, <3>2 DEF SafeInv, TypeOK
  <2> QED BY <2>1, <2>2 DEF UartInv, IsMpu
<1>10. CASE ReturnSend \/ CallDeinit \/ DeinitWait \/ Die
  <2>1. /\ SameDevice /\ SameMessage
        /\ pc' = "idle" \/ (pc \in Opened /\ pc' \in {"ready"} \cup Stopping)
    BY <1>10 DEF ReturnSend, CallDeinit, DeinitWait, Die, WaitTimeout, Goto
  <2> QED BY <2>1, UartQuiet
<1>11. CASE Tick
  <2>1. UNCHANGED <<pc, len, x, card>> BY <1>11 DEF Tick, driverVars
  <2>2. elapsed \in Nat /\ elapsed' \in {elapsed, elapsed + 1}
    BY <1>11, CapType DEF Tick, TickTimer, SafeInv, TypeOK
  <2>3. /\ wire' + fifo' = wire + fifo
        /\ fifo < FifoSize => fifo' < FifoSize
    BY <1>11 DEF Tick, TickFifo, SafeInv, TypeOK
  <2>4. /\ task = "none" => task' = "none" /\ mode' = mode
        /\ task # "reset" => task' # "reset"
    BY <1>11 DEF Tick, TickTask, SafeInv, TypeOK
  <2>5. ASSUME task = "uart", left + elapsed <= SwitchTime
        PROVE  \/ task' = "uart" /\ left' + elapsed' <= SwitchTime
               \/ task' = "none" /\ mode' = "uart"
    <3>1. left \in Nat \ {0}
      BY <2>5 DEF SafeInv, DeviceInv
    <3>2. CASE left > 1
      <4>1. task' = "uart" /\ left' = left - 1
        BY <1>11, <2>5, <3>2 DEF Tick, TickTask
      <4>2. ASSUME NEW e \in {elapsed, elapsed + 1}
            PROVE  left - 1 + e <= SwitchTime
        BY <2>2, <2>5, <3>1
      <4> QED BY <2>2, <4>1, <4>2
    <3>3. CASE ~(left > 1)
      <4>1. left = 1 BY <3>1, <3>3
      <4> QED BY <1>11, <2>5, <4>1 DEF Tick, TickTask
    <3> QED BY <3>2, <3>3
  <2> QED BY <2>1, <2>3, <2>4, <2>5 DEF UartInv, IsMpu
<1>12. CASE MidiIn
  BY <1>12 DEF MidiIn, driverVars, timerVars, UartInv, IsMpu
<1>13. CASE UNCHANGED vars
  BY <1>13 DEF vars, driverVars, timerVars, deviceVars, UartInv, IsMpu
<1> QED
  BY <1>1, <1>2, <1>3, <1>4, <1>5, <1>6, <1>7, <1>8, <1>9, <1>10, <1>11, <1>12,
     <1>13
  DEF Next, Call, Step

LEMMA AlwaysUart ==
    ASSUME SwitchesInTime PROVE SafeSpec => [](SafeInv /\ UartInv)
<1>1. Init => UartInv BY DEF Init, UartInv
<1>2. SafeInv /\ UartInv /\ [Next]_vars => UartInv' BY StepUart
<1> QED BY <1>1, <1>2, AlwaysSafe, PTL DEF SafeSpec

-----------------------------------------------------------------------------
\* The variables stay within their types, whatever sits at the port and however
\* long it takes; the count of bytes handed over never exceeds the message.
THEOREM TypeCorrect == SafeSpec => []TypeOK
<1>1. SafeInv => TypeOK BY DEF SafeInv
<1> QED BY <1>1, AlwaysSafe, PTL

\* A port that does not answer is written nothing, and one that is something
\* else's nothing but resets (midi_dev.c:15-18).
THEOREM EmptyPortLeftAlone == SafeSpec => []NothingSentToEmptyPort
<1>1. SafeInv => NothingSentToEmptyPort
  BY DEF SafeInv, PhaseInv, NothingSentToEmptyPort
<1> QED BY <1>1, AlwaysSafe, PTL

\* Whatever the step of the clock, the length of the wait and the size of the
\* FIFO, the reset at the end cuts off no more bytes than the shortest possible
\* wait leaves in a full FIFO (MPU401.C:133-137, 114-118).
THEOREM ResetDropsAtMost == SafeSpec => []ResetDropsLittle
<1>1. SafeInv => ResetDropsLittle
  BY DEF SafeInv, PhaseInv, ResetDropsLittle
<1> QED BY <1>1, AlwaysSafe, PTL

\* If the delay of mididev_init() covers the switch to UART mode, every byte
\* handed to the interface is on the wire or in the FIFO, whatever the clock,
\* the FIFO's size, the input that arrives and the runs that died before
\* (MPU401.C:52-59, midi_dev.c:19-26).
THEOREM NoByteIsLost ==
    ASSUME SwitchesInTime PROVE SafeSpec => []NoByteLost
<1>1. UartInv => NoByteLost BY DEF UartInv, NoByteLost
<1> QED BY <1>1, AlwaysUart, PTL

\* Under the same condition, and with any clock, the driver implements MidiOut:
\* nothing in flight is dropped while it is open, and a send returns when all of
\* its message is handed over and at most LeftBehind bytes are on their way.
THEOREM ImplementsMidiOut ==
    ASSUME SwitchesInTime PROVE SafeSpec => DeliversMessages
<1>1. Init => Out!Init BY DEF Init, Out!Init
<1>2. SafeInv /\ SafeInv' /\ UartInv /\ [Next]_vars => [Out!Next]_Out!vars
  <2> SUFFICES ASSUME SafeInv, SafeInv', UartInv, [Next]_vars
               PROVE  [Out!Next]_Out!vars
    OBVIOUS
  <2>0. /\ card \in {"mpu", "strict", "absent", "low"}
        /\ fifo \in Nat
        /\ pc \in Opened => IsMpu
    BY CardsAssumption DEF SafeInv, TypeOK, PhaseInv, IsMpu
  <2>1. CASE ReturnInit
    <3>1. /\ pc = "init_wait" /\ pc' = "ready" /\ UNCHANGED <<len, x, fifo>>
      BY <2>1 DEF ReturnInit, Goto, SameDevice, SameMessage, deviceVars
    <3> QED BY <3>1 DEF Out!Next, Out!Open
  <2>2. CASE CallSend
    <3>1. /\ pc = "ready" /\ pc' = "send_flush" /\ x' = 0 /\ len' \in Lengths
          /\ fifo' = fifo
      BY <2>2 DEF CallSend, Goto
    <3> QED BY <3>1 DEF Out!Next, Out!Send
  <2>3. CASE SendByte
    <3>1. /\ pc = "send_byte" /\ pc' \in {"settle", "send_flush"}
          /\ x' = x + 1 /\ len' = len
      BY <2>3 DEF SendByte, Goto
    <3>2. x < len /\ task = "none" /\ mode = "uart" /\ fifo < FifoSize
      BY <2>0, <3>1 DEF SafeInv, PhaseInv, UartInv
    <3>3. fifo' = fifo + 1
      BY <2>0, <2>3, <3>1, <3>2 DEF SendByte, WriteData
    <3> QED BY <3>1, <3>2, <3>3 DEF Out!Next, Out!Accept
  <2>4. CASE ReturnSend
    <3>1. /\ pc = "settle" /\ pc' = "ready" /\ UNCHANGED <<len, x, fifo>>
      BY <2>4 DEF ReturnSend, Goto, SameDevice, SameMessage, deviceVars
    <3>2. x = len BY <3>1 DEF SafeInv, PhaseInv
    <3>3. fifo <= LeftBehind
      <4>1. LeftBehind' = LeftBehind BY DEF LeftBehind, LeastWait
      <4> QED BY <3>1, <4>1 DEF SafeInv, PhaseInv
    <3> QED BY <3>1, <3>2, <3>3 DEF Out!Next, Out!Return
  <2>5. CASE DeinitWait \/ DeinitCommand
    <3>1. /\ pc \in Stopping /\ pc' \in Stopping \cup {"idle"}
          /\ UNCHANGED <<len, x>> /\ fifo' \in {fifo, 0}
          /\ pc' # "idle" => fifo' = fifo
      BY <2>5 DEF DeinitWait, WaitTimeout, DeinitCommand, WriteReset, Goto,
                  SameDevice, SameMessage, deviceVars
    <3> QED BY <3>1 DEF Out!Next, Out!Close, Out!vars
  <2>6. CASE Die
    <3>1. pc' = "idle" /\ UNCHANGED <<len, x, fifo>>
      BY <2>6 DEF Die, SameDevice, SameMessage, deviceVars
    <3> QED BY <3>1 DEF Out!Next, Out!Close, Out!Die, Out!vars
  <2>7. CASE Tick
    <3>1. UNCHANGED <<pc, len, x>> BY <2>7 DEF Tick, driverVars
    <3> QED
      BY <2>0, <2>7, <3>1 DEF Tick, TickFifo, Out!Next, Out!Transmit, Out!vars
  <2>8. CASE RstCommand
    <3>1. /\ pc = "rst_cmd" /\ pc' = "ack_poll" /\ UNCHANGED <<len, x>>
          /\ fifo' \in {fifo, 0}
      BY <2>8 DEF RstCommand, WriteReset, Goto, SameMessage
    <3> QED BY <3>1 DEF Out!Next, Out!Drop, Out!vars
  <2>9. CASE \/ CallInit \/ RstWait \/ AckPoll \/ AckRead
             \/ AckClock \/ RstFlush \/ UartWait \/ UartCommand
    <3>1. /\ pc \notin Sending \cup {"ready"} \cup Stopping
          /\ pc' \notin Sending \cup {"ready"} \cup Stopping
          /\ UNCHANGED <<len, x, fifo>>
      BY <2>9 DEF CallInit, RstWait, AckPoll, AckRead, AckClock,
                  RstFlush, UartWait, UartCommand, WaitTimeout, WaitWrite, Flush,
                  Goto, SameDevice, SameMessage, deviceVars
    <3> QED BY <3>1 DEF Out!vars
  <2>10. CASE SendWait
    <3>1. pc \in Sending /\ pc' \in Sending /\ UNCHANGED <<len, x, fifo>>
      BY <2>10 DEF SendWait, WaitWrite, Flush, Goto, SameDevice,
                   SameMessage, deviceVars
    <3> QED BY <3>1 DEF Out!vars
  <2>11. CASE CallDeinit
    <3>1. /\ pc = "ready" /\ pc' = "drst_stat" /\ UNCHANGED <<len, x, fifo>>
      BY <2>11 DEF CallDeinit, Goto, SameDevice, SameMessage, deviceVars
    <3> QED BY <3>1 DEF Out!vars
  <2>12. CASE MidiIn
    BY <2>12 DEF MidiIn, driverVars, Out!vars
  <2>13. CASE UNCHANGED vars
    BY <2>13 DEF vars, driverVars, deviceVars, Out!vars
  <2> QED
    BY <2>1, <2>2, <2>3, <2>4, <2>5, <2>6, <2>7, <2>8, <2>9, <2>10, <2>11,
       <2>12, <2>13
    DEF Next, Call, Step
<1> QED BY <1>1, <1>2, AlwaysUart, PTL DEF SafeSpec, DeliversMessages, Out!Spec
=============================================================================
