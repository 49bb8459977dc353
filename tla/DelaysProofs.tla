---------------------------- MODULE DelaysProofs ----------------------------
(***************************************************************************)
(* Proofs about Delays, for every length of the delays, of the timer's     *)
(* period, of a second and of a tick.  Each platform has its invariant: it *)
(* ties the place in delay_ms() to the state of the machine, and the count *)
(* so far to the time since the call.                                      *)
(***************************************************************************)
EXTENDS Delays, TLAPS

\* At the bound, waited says no more than that.
Passed(time) == waited >= time \/ waited = WaitedCap

-----------------------------------------------------------------------------
LEMMA Numbers ==
    /\ Period \in Nat /\ Period >= 1 /\ Ratio \in Nat /\ Ratio >= 1
    /\ Second \in Nat /\ Second >= 1 /\ TickLength \in Nat /\ TickLength >= 1
    /\ WaitedCap \in Nat
    /\ Period * Ratio \in Nat /\ Period * Ratio >= 1
BY TimesAssumption, WaitedCapAssumption

LEMMA Monotone ==
    \A a, b \in Nat : a <= b => Period * a <= Period * b
BY Numbers

\* What is asked for is a number of whole ticks below the bound.
LEMMA RequestFacts ==
    ASSUME NEW r \in Requests
    PROVE  /\ r \in Nat /\ Period * r \in Nat /\ r <= Period * r
           /\ Period * r + TickLength <= WaitedCap
           /\ (r \div TickLength) * TickLength = r /\ r \div TickLength \in Nat
<1>1. PICK k \in 0 .. 250 : r = TickLength * k
  BY RequestsAssumption
<1>2. r \in Nat
  BY <1>1, Numbers
<1>3. Period * r \in Nat /\ r <= Period * r
  BY <1>2, Numbers
<1>4. r \div TickLength = k
  BY <1>1, Numbers
<1>5. QED
  BY <1>1, <1>2, <1>3, <1>4, Numbers, WaitedCapAssumption

-----------------------------------------------------------------------------
(* Every platform: the call, and the passing of time. *)

LEMMA TimeGrows ==
    ASSUME waited \in 0 .. WaitedCap, TimeGoesOn
    PROVE  /\ waited' \in 0 .. WaitedCap /\ waited' >= waited /\ waited' <= waited + 1
           /\ pc # "idle" => waited' = waited + 1 \/ waited' = WaitedCap
           /\ pc = "idle" => waited' = waited
BY Numbers DEF TimeGoesOn

-----------------------------------------------------------------------------
(* Amiga: the last tick comes when the time is over. *)

AmigaInv ==
    /\ pc \in {"idle", "waiting"} /\ delay \in Requests /\ waited \in 0 .. WaitedCap
    /\ dos_base \in BOOLEAN /\ phase \in 1 .. TickLength /\ ticks \in Nat
    /\ pc = "waiting" /\ dos_base =>
           /\ ticks > 0 => /\ Passed(delay + 1 - phase - (ticks - 1) * TickLength)
                           /\ waited + phase + (ticks - 1) * TickLength <= delay + TickLength
           /\ ticks = 0 => Passed(delay)
    /\ pc = "waiting" /\ ~dos_base => ticks = 0

LEMMA AmigaInit == Amiga!Init => AmigaInv
BY Numbers DEF Amiga!Init, AmigaInv, Passed

LEMMA AmigaNext == AmigaInv /\ Amiga!Next => AmigaInv'
<1> SUFFICES ASSUME AmigaInv, Amiga!Next PROVE AmigaInv'
  OBVIOUS
<1> USE Numbers
<1>1. CASE Amiga!Call
  <2>1. delay' \in Requests /\ waited' = 0 /\ pc' = "waiting"
    BY <1>1 DEF Amiga!Call, Amiga!Called, Amiga!Goto, Called, Goto
  <2>2. PICK d \in Nat : delay' \div TickLength = d /\ d * TickLength = delay'
    BY <2>1, RequestFacts
  <2>3. ticks' = IF dos_base THEN d + 1 ELSE 0
    BY <1>1, <2>2 DEF Amiga!Call, Amiga!TicksFor
  <2>4. QED
    BY <1>1, <2>1, <2>2, <2>3 DEF Amiga!Call, AmigaInv, Passed
<1>2. CASE Amiga!TimePasses
  <2>1. delay \in Nat
    BY RequestFacts DEF AmigaInv
  <2>2. pc' = pc /\ delay' = delay /\ dos_base' = dos_base /\ TimeGoesOn
    BY <1>2 DEF Amiga!TimePasses, Amiga!TimeGoesOn, TimeGoesOn
  <2>3. PICK w \in waited .. WaitedCap :
           waited' = w /\ w <= waited + 1 /\ (pc # "idle" => w = waited + 1 \/ w = WaitedCap)
    BY <2>2, TimeGrows DEF AmigaInv
  <2>4. CASE phase = 1 /\ ticks > 0
    <3>1. PICK t \in Nat : ticks' = t /\ t = ticks - 1
      BY <1>2, <2>4 DEF Amiga!TimePasses, AmigaInv
    <3>2. phase' = TickLength
      BY <1>2, <2>4 DEF Amiga!TimePasses
    <3>3. PICK p \in Int : (ticks - 1) * TickLength = p /\ (t - 1) * TickLength = p - TickLength
                          /\ (t = 0 => p = 0)
      BY <3>1, <2>4 DEF AmigaInv
    <3>4. QED
      BY <2>1, <2>2, <2>3, <2>4, <3>1, <3>2, <3>3 DEF AmigaInv, Passed
  <2>5. CASE phase = 1 /\ ~(ticks > 0)
    BY <1>2, <2>1, <2>2, <2>3, <2>5 DEF Amiga!TimePasses, AmigaInv, Passed
  <2>6. CASE phase # 1
    <3>1. PICK f \in 1 .. TickLength : phase' = f /\ f = phase - 1
      BY <1>2, <2>6 DEF Amiga!TimePasses, AmigaInv
    <3>2. ticks' = ticks
      BY <1>2, <2>6 DEF Amiga!TimePasses
    <3>3. PICK p \in Int : (ticks - 1) * TickLength = p
      BY DEF AmigaInv
    <3>4. QED
      BY <2>1, <2>2, <2>3, <2>6, <3>1, <3>2, <3>3 DEF AmigaInv, Passed
  <2>7. QED
    BY <2>4, <2>5, <2>6
<1>3. CASE Amiga!Return
  BY <1>3 DEF Amiga!Return, AmigaInv
<1>4. QED
  BY <1>1, <1>2, <1>3 DEF Amiga!Next

-----------------------------------------------------------------------------
(* Linux: what was slept and what is left add up to the delay.  What is    *)
(* left is in the kernel, in tr or in ts, one after the other.             *)

TimeSpec == [sec : Nat, ms : Nat]

LEMMA SplitFacts ==
    ASSUME NEW t \in Nat
    PROVE  Linux!Split(t) \in TimeSpec /\ Linux!Total(Linux!Split(t)) = t
<1>1. Linux!Split(t) \in TimeSpec
  BY Numbers DEF Linux!Split, TimeSpec
<1>2. \A s \in Nat : s > 0 => (t % s = t - s * (t \div s) /\ s * (t \div s) = (t \div s) * s)
  <2>1. SUFFICES ASSUME NEW s \in Nat, s > 0
                 PROVE  t % s = t - s * (t \div s) /\ s * (t \div s) = (t \div s) * s
    OBVIOUS
  <2>2. t % s = t - s * (t \div s)
    BY <2>1
  <2>3. s * (t \div s) = (t \div s) * s
    BY <2>1
  <2>4. QED
    BY <2>2, <2>3
<1>3. PICK q \in Int, r \in Int : q = t \div Second /\ r = t % Second
  BY Numbers
<1>4. q * Second + r = t
  <2>1. t % Second = t - Second * (t \div Second) /\ Second * (t \div Second) = (t \div Second) * Second
    BY <1>2, Numbers
  <2>2. r = t - q * Second /\ q * Second \in Int
    BY <1>3, <2>1, Numbers
  <2>3. QED
    BY <2>2
<1>5. Linux!Split(t).sec = q /\ Linux!Split(t).ms = r
  BY <1>3 DEF Linux!Split
<1>6. QED
  BY <1>1, <1>4, <1>5 DEF Linux!Total

LinuxInv ==
    /\ pc \in {"idle", "sleep", "asleep", "woken"} /\ delay \in Requests
    /\ waited \in 0 .. WaitedCap /\ eintr \in BOOLEAN
    /\ ts \in TimeSpec /\ tr \in TimeSpec /\ left \in Nat /\ slept \in Nat
    /\ pc = "sleep" => slept + Linux!Total(ts) = delay
    /\ pc = "asleep" => slept + left = delay
    /\ pc = "woken" => slept + (IF eintr THEN Linux!Total(tr) ELSE 0) = delay
    /\ pc # "idle" => Passed(slept)

LEMMA TotalIsNat == \A t \in TimeSpec : Linux!Total(t) \in Nat
BY Numbers DEF TimeSpec, Linux!Total

LEMMA LinuxInit == Linux!Init => LinuxInv
<1> SUFFICES ASSUME Linux!Init PROVE LinuxInv
  OBVIOUS
<1>1. delay \in Nat /\ 0 \in Nat
  BY RequestFacts DEF Linux!Init
<1>2. ts \in TimeSpec /\ tr \in TimeSpec
  BY <1>1, SplitFacts DEF Linux!Init
<1>3. waited = 0 /\ left = 0 /\ slept = 0 /\ eintr = FALSE /\ pc = "idle" /\ delay \in Requests
  BY DEF Linux!Init
<1>4. waited \in 0 .. WaitedCap /\ left \in Nat /\ slept \in Nat
  BY <1>3, Numbers
<1>5. QED
  BY <1>2, <1>3, <1>4 DEF LinuxInv

LEMMA LinuxNext == LinuxInv /\ Linux!Next => LinuxInv'
<1> SUFFICES ASSUME LinuxInv, Linux!Next PROVE LinuxInv'
  OBVIOUS
<1> USE Numbers, TotalIsNat
<1>0. delay \in Nat
  BY RequestFacts DEF LinuxInv
<1>1. CASE Linux!Call
  <2>1. delay' \in Requests /\ waited' = 0 /\ pc' = "sleep" /\ ts' = Linux!Split(delay')
    BY <1>1 DEF Linux!Call, Linux!Called, Called
  <2>2. delay' \in Nat
    BY <2>1, RequestFacts
  <2>3. ts' \in TimeSpec /\ Linux!Total(ts') = delay'
    BY <2>1, <2>2, SplitFacts
  <2>4. slept' = 0 /\ tr' = tr /\ eintr' = eintr /\ left' = left
    BY <1>1 DEF Linux!Call
  <2>5. (slept + Linux!Total(ts))' = delay'
    BY <2>2, <2>3, <2>4 DEF Linux!Total
  <2>6. waited' \in 0 .. WaitedCap /\ slept' \in Nat /\ Passed(slept)'
    BY <2>1, <2>4 DEF Passed
  <2>7. QED
    BY <2>1, <2>3, <2>4, <2>5, <2>6 DEF LinuxInv
<1>2. CASE Linux!Sleep
  <2>1. pc' = "asleep" /\ UNCHANGED <<delay, ts, tr, eintr, slept, waited>>
    BY <1>2 DEF Linux!Sleep
  <2>2. left' \in Nat /\ slept' + left' = delay'
    BY <1>2, <2>1 DEF Linux!Sleep, LinuxInv
  <2>3. QED
    BY <1>2, <2>1, <2>2 DEF Linux!Sleep, LinuxInv, Passed
<1>3. CASE Linux!WakeUp
  BY <1>0, <1>3 DEF Linux!WakeUp, LinuxInv, Passed
<1>4. CASE Linux!Again
  BY <1>4 DEF Linux!Again, LinuxInv, Passed, Linux!Total
<1>5. CASE Linux!Return
  BY <1>5 DEF Linux!Return, LinuxInv, Passed
<1>6. CASE Linux!Signal
  <2>1. tr' \in TimeSpec /\ Linux!Total(tr') = left
    BY <1>6, SplitFacts DEF Linux!Signal, LinuxInv
  <2>2. Linux!Total(tr)' = left
    BY <2>1 DEF Linux!Total
  <2>3. QED
    BY <1>6, <2>1, <2>2 DEF Linux!Signal, LinuxInv, Passed
<1>7. CASE Linux!TimePasses
  <2>1. UNCHANGED <<pc, delay, ts, tr, eintr>> /\ pc # "idle" /\ TimeGoesOn
    BY <1>7 DEF Linux!TimePasses, Linux!TimeGoesOn, TimeGoesOn
  <2>2. PICK w \in waited .. WaitedCap : waited' = w /\ (w = waited + 1 \/ w = WaitedCap)
    BY <2>1, TimeGrows DEF LinuxInv
  <2>3. CASE pc = "asleep" /\ left > 0
    <3>1. PICK l \in Nat, d \in Nat : left' = l /\ slept' = d /\ d = slept + 1 /\ l + d = delay
      BY <1>0, <1>7, <2>3 DEF Linux!TimePasses, LinuxInv
    <3>2. QED
      BY <1>0, <2>1, <2>2, <2>3, <3>1 DEF LinuxInv, Passed
  <2>4. CASE ~(pc = "asleep" /\ left > 0)
    <3>1. UNCHANGED <<left, slept>>
      BY <1>7, <2>4 DEF Linux!TimePasses
    <3>2. QED
      BY <2>1, <2>2, <3>1 DEF LinuxInv, Passed, Linux!Total
  <2>5. QED
    BY <2>3, <2>4
<1>8. QED
  BY <1>1, <1>2, <1>3, <1>4, <1>5, <1>6, <1>7 DEF Linux!Next, Linux!Progress

-----------------------------------------------------------------------------
(* Atari: every counted tick stands for a whole period since the counter   *)
(* was set to zero, whatever was latched before that.                      *)

AtariCount == Period * ticks + (IF pending THEN Period ELSE 0) + Period - counter

AtariInv ==
    /\ pc \in {"idle", "stop", "reset", "xbtimer", "sei", "enable", "spin", "return"}
    /\ delay \in Requests /\ waited \in 0 .. WaitedCap /\ ticks \in Nat
    /\ counter \in 0 .. Period /\ enabled \in BOOLEAN /\ pending \in BOOLEAN
    /\ handler \in {"ours", "other"}
    /\ pc = "idle" => handler = "other" \/ (~enabled /\ ~pending)
    /\ pc \in {"reset", "xbtimer"} => ~enabled /\ ~pending
    /\ pc = "xbtimer" => ticks = 0
    /\ pc \in {"sei", "enable", "spin"} =>
           handler = "ours" /\ counter >= 1 /\ Passed(AtariCount)
    /\ pc = "return" => Passed(Period * delay)

LEMMA AtariInit == Atari!Init => AtariInv
<1> SUFFICES ASSUME Atari!Init PROVE AtariInv
  OBVIOUS
<1>1. pc = "idle" /\ delay \in Requests /\ waited = 0 /\ ticks = 0
      /\ handler = "other" /\ counter \in 0 .. Period /\ enabled \in BOOLEAN /\ pending \in BOOLEAN
  BY DEF Atari!Init
<1>2. waited \in 0 .. WaitedCap /\ ticks \in Nat
  BY <1>1, Numbers
<1>3. QED
  BY <1>1, <1>2 DEF AtariInv

LEMMA AtariNext == AtariInv /\ Atari!Next => AtariInv'
<1> SUFFICES ASSUME AtariInv, Atari!Next PROVE AtariInv'
  OBVIOUS
<1> USE Numbers
<1>0. delay \in Nat /\ Period * delay \in Nat
  BY RequestFacts DEF AtariInv
<1>1. CASE Atari!Call
  BY <1>1 DEF Atari!Call, Atari!Called, Atari!Goto, Atari!mfp, AtariInv
<1>2. CASE Atari!Stop
  BY <1>2 DEF Atari!Stop, Atari!Goto, Atari!Jdisint, AtariInv
<1>3. CASE Atari!Reset
  BY <1>3 DEF Atari!Reset, Atari!Goto, Atari!mfp, AtariInv
<1>4. CASE Atari!Xbtimer
  <2>1. Period * 0 = 0
    OBVIOUS
  <2>2. pc = "xbtimer" /\ pc' = "sei" /\ counter' = Period /\ handler' = "ours" /\ enabled' \in BOOLEAN
        /\ UNCHANGED <<delay, ticks, pending, waited>>
    BY <1>4 DEF Atari!Xbtimer, Atari!Goto
  <2>3. AtariCount' = 0
    BY <2>1, <2>2 DEF AtariInv, AtariCount
  <2>4. QED
    BY <2>2, <2>3 DEF AtariInv, Passed
<1>5. CASE Atari!SetSei
  <2>1. pc = "sei" /\ pc' = "enable" /\ UNCHANGED <<delay, ticks, handler, counter, enabled, pending, waited>>
    BY <1>5 DEF Atari!SetSei, Atari!Goto
  <2>2. QED
    BY <2>1 DEF AtariInv, AtariCount, Passed
<1>6. CASE Atari!Jenabint
  <2>1. pc = "enable" /\ pc' = "spin" /\ enabled' = TRUE
        /\ UNCHANGED <<delay, ticks, handler, counter, pending, waited>>
    BY <1>6 DEF Atari!Jenabint, Atari!Goto
  <2>2. QED
    BY <2>1 DEF AtariInv, AtariCount, Passed
<1>7. CASE Atari!Spin
  <2>1. pc = "spin" /\ pc' = "return" /\ ticks >= delay
        /\ UNCHANGED <<delay, ticks, handler, counter, enabled, pending, waited>>
    BY <1>7 DEF Atari!Spin, Atari!Goto, Atari!mfp
  <2>2. Period * delay <= Period * ticks /\ Period * ticks \in Nat
    BY <1>0, <2>1, Monotone DEF AtariInv
  <2>3. Period * delay <= AtariCount /\ AtariCount \in Int
    BY <1>0, <2>2 DEF AtariInv, AtariCount
  <2>4. Passed(Period * delay)
    BY <1>0, <2>1, <2>3 DEF AtariInv, Passed
  <2>5. QED
    BY <2>1, <2>4 DEF AtariInv, Passed
<1>8. CASE Atari!Return
  BY <1>8 DEF Atari!Return, Atari!Goto, Atari!Jdisint, AtariInv
<1>9. CASE Atari!Interrupt
  <2>1. enabled /\ pending /\ pending' = FALSE
        /\ UNCHANGED <<pc, delay, handler, counter, enabled, waited>>
        /\ \/ handler = "ours" /\ ticks' = ticks + 1
           \/ handler # "ours" /\ ticks' = ticks
    BY <1>9 DEF Atari!Interrupt, Atari!Handler, Atari!program
  <2>2. CASE handler = "ours"
    <3>1. PICK t \in Nat : ticks' = t /\ Period * t = Period * ticks + Period
      BY <2>1, <2>2 DEF AtariInv
    <3>2. AtariCount' = AtariCount
      BY <2>1, <3>1 DEF AtariCount, AtariInv
    <3>3. QED
      BY <2>1, <2>2, <3>1, <3>2 DEF AtariInv, Passed
  <2>3. CASE handler # "ours"
    BY <2>1, <2>3 DEF AtariInv, Passed
  <2>4. QED
    BY <2>2, <2>3
<1>10. CASE Atari!TimePasses
  <2>1. UNCHANGED <<pc, delay, ticks, handler, enabled>> /\ TimeGoesOn
        /\ counter' = (IF counter = 1 THEN Period ELSE IF counter = 0 THEN 0 ELSE counter - 1)
        /\ pending' = (IF counter = 1 /\ enabled THEN TRUE ELSE pending)
    BY <1>10 DEF Atari!TimePasses, Atari!TimeGoesOn, TimeGoesOn, Atari!program
  <2>2. PICK w \in waited .. WaitedCap :
           waited' = w /\ (pc # "idle" => w = waited + 1 \/ w = WaitedCap)
    BY <2>1, TimeGrows DEF AtariInv
  <2>3. PICK c \in 0 .. Period : counter' = c /\ (counter >= 1 => c >= 1)
    BY <2>1 DEF AtariInv
  <2>4. PICK p \in Int : Period * ticks = p
    BY DEF AtariInv
  <2>5. AtariCount \in Int /\ AtariCount' \in Int /\ (counter >= 1 => AtariCount' <= AtariCount + 1)
    BY <2>1, <2>3, <2>4 DEF AtariInv, AtariCount
  <2>6. pc \in {"sei", "enable", "spin"} => Passed(AtariCount)'
    BY <2>1, <2>2, <2>5 DEF AtariInv, Passed
  <2>7. pc = "return" => Passed(Period * delay)'
    BY <1>0, <2>1, <2>2 DEF AtariInv, Passed
  <2>8. pending' \in BOOLEAN /\ (~enabled /\ ~pending => ~pending')
    BY <2>1 DEF AtariInv
  <2>9. waited' \in 0 .. WaitedCap /\ counter' \in 0 .. Period
        /\ (pc \in {"sei", "enable", "spin"} => counter' >= 1)
    BY <2>2, <2>3 DEF AtariInv
  <2>10. QED
    BY <2>1, <2>6, <2>7, <2>8, <2>9 DEF AtariInv
<1>11. QED
  BY <1>1, <1>2, <1>3, <1>4, <1>5, <1>6, <1>7, <1>8, <1>9, <1>10
     DEF Atari!Next, Atari!Statement

-----------------------------------------------------------------------------
(* DOS: which handler and which speed belong to which statement, and that  *)
(* no interrupt comes in between.  The interrupt latched at the start is   *)
(* the one that may count for nothing.                                     *)

DosCount == Period * ticks + (IF irq THEN Period ELSE 0) - counter

OffAt == {"install", "speed_up", "enable", "restore", "slow_down", "return"}

DosPlaces ==
    /\ iflag = (pc \notin OffAt)
    /\ vector = (IF pc \in {"speed_up", "enable", "spin", "restore"} THEN "ours" ELSE "dos")
    /\ divisor = (IF pc \in {"enable", "spin", "restore", "slow_down"} THEN "fast" ELSE "slow")
    /\ orig_isr = "dos"

DosInv ==
    /\ Dos!TypeOK /\ DosPlaces
    /\ pc \in {"disable", "install", "speed_up"} => ticks = 0
    /\ pc \in {"enable", "spin"} => Passed(DosCount)
    /\ pc \in {"restore", "slow_down", "return"} => Passed(Period * (delay - 1))

LEMMA Lengths ==
    \A d \in {"slow", "fast"} : Dos!Length(d) \in Nat /\ Dos!Length(d) >= 1
BY Numbers DEF Dos!Length

LEMMA DosInit == Dos!Init => DosInv
<1> SUFFICES ASSUME Dos!Init PROVE DosInv
  OBVIOUS
<1>1. pc = "idle" /\ delay \in Requests /\ ticks = 0 /\ doscall_counter = 0
      /\ orig_isr = "dos" /\ vector = "dos" /\ divisor = "slow"
      /\ counter \in 1 .. Dos!Length(divisor)
      /\ irq \in BOOLEAN /\ pic_busy = FALSE /\ iflag = TRUE
      /\ dos_clock = 0 /\ chained = 0 /\ waited = 0
  BY DEF Dos!Init
<1>2. waited \in 0 .. WaitedCap /\ ticks \in Nat /\ doscall_counter \in 0 .. Ratio - 1
      /\ dos_clock \in 0 .. 1 /\ chained \in Nat
  BY <1>1, Numbers
<1>3. Dos!TypeOK
  BY <1>1, <1>2 DEF Dos!TypeOK
<1>4. DosPlaces
  BY <1>1 DEF DosPlaces, OffAt
<1>5. QED
  BY <1>1, <1>3, <1>4 DEF DosInv

LEMMA DosNext == DosInv /\ Dos!Next => DosInv'
<1> SUFFICES ASSUME DosInv, Dos!Next PROVE DosInv'
  OBVIOUS
<1> USE Numbers
<1>0. delay \in Nat /\ Period * delay \in Nat /\ Period * (delay - 1) \in Int
      /\ Period * (delay - 1) = Period * delay - Period
  BY RequestFacts DEF DosInv, Dos!TypeOK
<1>1. CASE Dos!Call
  <2>1. pc = "idle" /\ pc' = "getvect" /\ delay' \in Requests /\ waited' = 0
        /\ UNCHANGED <<orig_isr, ticks, doscall_counter, vector, divisor, counter, irq, pic_busy, iflag, dos_clock, chained>>
    BY <1>1 DEF Dos!Call, Dos!Called, Dos!Goto, Dos!counters, Dos!machine
  <2>2. QED
    BY <2>1 DEF DosInv, Dos!TypeOK, DosPlaces, OffAt, DosCount, Passed, Dos!Length
<1>2. CASE Dos!GetVect
  <2>1. pc = "getvect" /\ pc' = "reset" /\ orig_isr' = vector
        /\ UNCHANGED <<delay, ticks, doscall_counter, vector, divisor, counter, irq, pic_busy, iflag, dos_clock, chained, waited>>
    BY <1>2 DEF Dos!GetVect, Dos!Goto, Dos!counters, Dos!machine
  <2>2. QED
    BY <2>1 DEF DosInv, Dos!TypeOK, DosPlaces, OffAt, DosCount, Passed, Dos!Length
<1>3. CASE Dos!ResetCounters
  <2>1. pc = "reset" /\ pc' = "disable" /\ ticks' = 0 /\ doscall_counter' = 0 /\ chained' = 0
        /\ UNCHANGED <<delay, orig_isr, vector, divisor, counter, irq, pic_busy, iflag, dos_clock, waited>>
    BY <1>3 DEF Dos!ResetCounters, Dos!Goto
  <2>2. QED
    BY <2>1 DEF DosInv, Dos!TypeOK, DosPlaces, OffAt, DosCount, Passed, Dos!Length
<1>4. CASE Dos!Disable
  <2>1. pc = "disable" /\ pc' = "install" /\ iflag' = FALSE
        /\ UNCHANGED <<delay, orig_isr, ticks, doscall_counter, vector, divisor, counter, irq, pic_busy, dos_clock, chained, waited>>
    BY <1>4 DEF Dos!Disable, Dos!Interrupts, Dos!Goto, Dos!counters
  <2>2. QED
    BY <2>1 DEF DosInv, Dos!TypeOK, DosPlaces, OffAt, DosCount, Passed, Dos!Length
<1>5. CASE Dos!Install
  <2>1. pc = "install" /\ pc' = "speed_up" /\ vector' = "ours"
        /\ UNCHANGED <<delay, orig_isr, ticks, doscall_counter, divisor, counter, irq, pic_busy, iflag, dos_clock, chained, waited>>
    BY <1>5 DEF Dos!Install, Dos!SetVect, Dos!Goto, Dos!counters
  <2>2. QED
    BY <2>1 DEF DosInv, Dos!TypeOK, DosPlaces, OffAt, DosCount, Passed, Dos!Length
<1>6. CASE Dos!SpeedUp
  <2>1. pc = "speed_up" /\ pc' = "enable" /\ divisor' = "fast" /\ counter' = Period
        /\ UNCHANGED <<delay, orig_isr, ticks, doscall_counter, vector, irq, pic_busy, iflag, dos_clock, chained, waited>>
    BY <1>6 DEF Dos!SpeedUp, Dos!SetTimer, Dos!Goto, Dos!Length, Dos!counters
  <2>2. Period * ticks = 0
    BY <2>1 DEF DosInv
  <2>3. DosCount' <= 0 /\ DosCount' \in Int
    BY <2>1, <2>2 DEF DosCount, DosInv, Dos!TypeOK
  <2>4. Passed(DosCount)'
    BY <2>1, <2>3 DEF DosInv, Dos!TypeOK, Passed
  <2>5. Dos!TypeOK' /\ DosPlaces'
    BY <2>1 DEF DosInv, Dos!TypeOK, DosPlaces, OffAt, Dos!Length
  <2>6. QED
    BY <2>1, <2>4, <2>5 DEF DosInv
<1>7. CASE Dos!Enable
  <2>1. pc = "enable" /\ pc' = "spin" /\ iflag' = TRUE
        /\ UNCHANGED <<delay, orig_isr, ticks, doscall_counter, vector, divisor, counter, irq, pic_busy, dos_clock, chained, waited>>
    BY <1>7 DEF Dos!Enable, Dos!Interrupts, Dos!Goto, Dos!counters
  <2>2. QED
    BY <2>1 DEF DosInv, Dos!TypeOK, DosPlaces, OffAt, DosCount, Passed, Dos!Length
<1>8. CASE Dos!Spin
  <2>1. pc = "spin" /\ pc' = "restore" /\ iflag' = FALSE /\ ticks >= delay
        /\ UNCHANGED <<delay, orig_isr, ticks, doscall_counter, vector, divisor, counter, irq, pic_busy, dos_clock, chained, waited>>
    BY <1>8 DEF Dos!Spin, Dos!Interrupts, Dos!Goto, Dos!counters
  <2>2. Period * delay <= Period * ticks /\ Period * ticks \in Nat /\ ticks \in Nat
    BY <1>0, <2>1, Monotone DEF DosInv, Dos!TypeOK
  <2>3. counter \in 1 .. Period
    BY <2>1 DEF DosInv, Dos!TypeOK, DosPlaces, Dos!Length
  <2>4. Period * (delay - 1) <= DosCount /\ DosCount \in Int
    BY <1>0, <2>2, <2>3 DEF DosCount
  <2>5. Passed(Period * (delay - 1)) /\ Passed(Period * (delay - 1))'
    BY <1>0, <2>1, <2>4 DEF DosInv, Dos!TypeOK, Passed
  <2>6. Dos!TypeOK' /\ DosPlaces'
    BY <2>1 DEF DosInv, Dos!TypeOK, DosPlaces, OffAt, Dos!Length
  <2>7. QED
    BY <2>1, <2>5, <2>6 DEF DosInv
<1>9. CASE Dos!Restore
  <2>1. pc = "restore" /\ pc' = "slow_down" /\ vector' = orig_isr
        /\ UNCHANGED <<delay, orig_isr, ticks, doscall_counter, divisor, counter, irq, pic_busy, iflag, dos_clock, chained, waited>>
    BY <1>9 DEF Dos!Restore, Dos!SetVect, Dos!Goto, Dos!counters
  <2>2. QED
    BY <2>1 DEF DosInv, Dos!TypeOK, DosPlaces, OffAt, DosCount, Passed, Dos!Length
<1>10. CASE Dos!SlowDown
  <2>1. pc = "slow_down" /\ pc' = "return" /\ divisor' = "slow" /\ counter' = Period * Ratio
        /\ UNCHANGED <<delay, orig_isr, ticks, doscall_counter, vector, irq, pic_busy, iflag, dos_clock, chained, waited>>
    BY <1>10 DEF Dos!SlowDown, Dos!SetTimer, Dos!Goto, Dos!Length, Dos!counters
  <2>2. QED
    BY <2>1 DEF DosInv, Dos!TypeOK, DosPlaces, OffAt, DosCount, Passed, Dos!Length
<1>11. CASE Dos!Return
  <2>1. pc = "return" /\ pc' = "idle" /\ iflag' = TRUE
        /\ UNCHANGED <<delay, orig_isr, ticks, doscall_counter, vector, divisor, counter, irq, pic_busy, dos_clock, chained, waited>>
    BY <1>11 DEF Dos!Return, Dos!Interrupts, Dos!Goto, Dos!counters
  <2>2. QED
    BY <2>1 DEF DosInv, Dos!TypeOK, DosPlaces, OffAt, DosCount, Passed, Dos!Length
<1>12. CASE Dos!Interrupt
  <2>1. irq /\ iflag /\ irq' = FALSE
        /\ UNCHANGED <<pc, delay, orig_isr, vector, divisor, counter, iflag, waited>>
    BY <1>12 DEF Dos!Interrupt, Dos!program
  <2>2. CASE vector = "dos"
    <3>1. UNCHANGED <<ticks, doscall_counter, chained>> /\ dos_clock' = 1 - dos_clock
          /\ pic_busy' = FALSE
      BY <1>12, <2>2 DEF Dos!Interrupt, Dos!DosHandler, Dos!Eoi, Dos!counters
    <3>2. dos_clock' \in 0 .. 1 /\ chained' \in Nat
      BY <3>1 DEF DosInv, Dos!TypeOK
    <3>3. Dos!TypeOK' /\ DosPlaces'
      BY <2>1, <3>1, <3>2 DEF DosInv, Dos!TypeOK, DosPlaces, Dos!Length
    <3>4. pc \notin {"enable", "spin"}
      BY <2>2 DEF DosInv, DosPlaces
    <3>5. QED
      BY <2>1, <3>1, <3>3, <3>4 DEF DosInv, Passed
  <2>3. CASE vector # "dos"
    <3>1. ticks' = ticks + 1
          /\ pic_busy' = FALSE
          /\ \/ doscall_counter' = 0 /\ dos_clock' = 1 - dos_clock /\ chained' = chained + 1
             \/ /\ ~(doscall_counter + 1 >= Ratio)
                /\ doscall_counter' = doscall_counter + 1 /\ dos_clock' = dos_clock
                /\ chained' = chained
      BY <1>12, <2>3 DEF Dos!Interrupt, Dos!OurHandler, Dos!Chain, Dos!Count, Dos!DosHandler, Dos!Eoi
    <3>2. ticks' \in Nat /\ doscall_counter' \in 0 .. Ratio - 1 /\ dos_clock' \in 0 .. 1
          /\ chained' \in Nat
      BY <3>1 DEF DosInv, Dos!TypeOK
    <3>3. Dos!TypeOK' /\ DosPlaces'
      BY <2>1, <3>1, <3>2 DEF DosInv, Dos!TypeOK, DosPlaces, Dos!Length
    <3>4. pc = "spin"
      BY <2>1, <2>3 DEF DosInv, DosPlaces, OffAt, Dos!TypeOK
    <3>5. PICK t \in Nat : ticks' = t /\ Period * t = Period * ticks + Period
      BY <3>1 DEF DosInv, Dos!TypeOK
    <3>6. DosCount' = DosCount
      BY <2>1, <3>5 DEF DosInv, Dos!TypeOK, DosCount, Dos!Length, DosPlaces
    <3>7. QED
      BY <2>1, <3>3, <3>4, <3>6 DEF DosInv, Passed
  <2>4. QED
    BY <2>2, <2>3
<1>13. CASE Dos!TimePasses
  <2>1. UNCHANGED <<pc, delay, orig_isr, ticks, doscall_counter, vector, divisor, pic_busy, iflag, dos_clock, chained>>
        /\ TimeGoesOn
        /\ \/ counter = 1 /\ counter' = Dos!Length(divisor) /\ irq' = TRUE
           \/ counter # 1 /\ counter' = counter - 1 /\ irq' = irq
    BY <1>13 DEF Dos!TimePasses, Dos!TimeGoesOn, TimeGoesOn, Dos!program, Dos!counters
  <2>2. PICK w \in waited .. WaitedCap :
           waited' = w /\ (pc # "idle" => w = waited + 1 \/ w = WaitedCap)
    BY <2>1, TimeGrows DEF DosInv, Dos!TypeOK
  <2>3. PICK c \in 1 .. Dos!Length(divisor) :
           /\ counter' = c
           /\ \/ counter = 1 /\ c = Dos!Length(divisor) /\ irq' = TRUE
              \/ counter # 1 /\ c = counter - 1 /\ irq' = irq
    BY <2>1, Lengths DEF DosInv, Dos!TypeOK
  <2>4. waited' \in 0 .. WaitedCap
    BY <2>2 DEF DosInv, Dos!TypeOK
  <2>5. irq' \in BOOLEAN
    BY <2>3, Zenon DEF DosInv, Dos!TypeOK
  <2>6. counter' \in 1 .. Dos!Length(divisor)'
    BY <2>1, <2>3 DEF Dos!Length
  <2>7. Dos!TypeOK' /\ DosPlaces'
    BY <2>1, <2>4, <2>6, <2>5 DEF DosInv, Dos!TypeOK, DosPlaces
  <2>8. CASE pc \in {"enable", "spin"}
    <3>1. Dos!Length(divisor) = Period
      BY <2>8 DEF DosInv, DosPlaces, Dos!Length
    <3>2. PICK p \in Int : Period * ticks = p
      BY DEF DosInv, Dos!TypeOK
    <3>3. DosCount \in Int /\ DosCount' \in Int /\ DosCount' <= DosCount + 1
      BY <2>1, <2>3, <3>1, <3>2 DEF DosInv, Dos!TypeOK, DosCount
    <3>4. Passed(DosCount)'
      BY <2>2, <2>8, <3>3 DEF DosInv, Dos!TypeOK, Passed
    <3>5. QED
      BY <2>1, <2>7, <2>8, <3>4 DEF DosInv
  <2>9. CASE pc \notin {"enable", "spin"}
    <3>1. pc \in {"restore", "slow_down", "return"} => Passed(Period * (delay - 1))'
      BY <1>0, <2>1, <2>2 DEF DosInv, Dos!TypeOK, Passed
    <3>2. QED
      BY <2>1, <2>7, <2>9, <3>1 DEF DosInv
  <2>10. QED
    BY <2>8, <2>9
<1>14. QED
  BY <1>1, <1>2, <1>3, <1>4, <1>5, <1>6, <1>7, <1>8, <1>9, <1>10, <1>11, <1>12, <1>13
     DEF Dos!Next, Dos!Statement

\* The count of the handler, and what it handed to DOS, add up to the ticks.
DosKept == ticks = Ratio * chained + doscall_counter

LEMMA DosKeptInit == Dos!Init => DosKept
BY Numbers DEF Dos!Init, DosKept

LEMMA DosKeptNext == Dos!TypeOK /\ DosKept /\ Dos!Next => DosKept'
<1> SUFFICES ASSUME Dos!TypeOK, DosKept, Dos!Next PROVE DosKept'
  OBVIOUS
<1>1. CASE Dos!ResetCounters
  <2>1. ticks' = 0 /\ doscall_counter' = 0 /\ chained' = 0
    BY <1>1 DEF Dos!ResetCounters
  <2>2. QED
    BY <2>1, Numbers DEF DosKept
<1>2. CASE Dos!Interrupt
  <2>1. CASE vector = "dos"
    BY <1>2, <2>1 DEF Dos!Interrupt, Dos!counters, DosKept
  <2>2. CASE vector # "dos"
    <3>1. PICK r \in Nat : r = Ratio /\ r >= 1
      BY Numbers
    <3>2. ticks' = ticks + 1
      BY <1>2, <2>2 DEF Dos!Interrupt, Dos!OurHandler
    <3>3. CASE doscall_counter + 1 >= Ratio
      <4>1. doscall_counter' = 0 /\ chained' = chained + 1
        BY <1>2, <2>2, <3>3 DEF Dos!Interrupt, Dos!OurHandler, Dos!Chain
      <4>2. doscall_counter + 1 = r
        BY <3>1, <3>3 DEF Dos!TypeOK
      <4>3. r * (chained + 1) = r * chained + r /\ r * chained \in Nat
        BY <3>1 DEF Dos!TypeOK
      <4>4. QED
        BY <3>1, <3>2, <4>1, <4>2, <4>3 DEF DosKept, Dos!TypeOK
    <3>4. CASE ~(doscall_counter + 1 >= Ratio)
      <4>1. doscall_counter' = doscall_counter + 1 /\ chained' = chained
        BY <1>2, <2>2, <3>4 DEF Dos!Interrupt, Dos!OurHandler, Dos!Count
      <4>2. r * chained \in Nat
        BY <3>1 DEF Dos!TypeOK
      <4>3. QED
        BY <3>1, <3>2, <4>1, <4>2 DEF DosKept, Dos!TypeOK
    <3>5. QED
      BY <3>3, <3>4
  <2>3. QED
    BY <2>1, <2>2
<1>3. CASE \/ Dos!TimePasses \/ Dos!Call \/ Dos!GetVect \/ Dos!Disable \/ Dos!Install
           \/ Dos!SpeedUp \/ Dos!Enable \/ Dos!Spin \/ Dos!Restore \/ Dos!SlowDown \/ Dos!Return
  <2>1. UNCHANGED <<ticks, doscall_counter, chained>>
    BY <1>3 DEF Dos!TimePasses, Dos!Call, Dos!GetVect, Dos!Disable, Dos!Install, Dos!SpeedUp,
       Dos!Enable, Dos!Spin, Dos!Restore, Dos!SlowDown, Dos!Return, Dos!Interrupts,
       Dos!SetVect, Dos!SetTimer, Dos!counters, Dos!machine
  <2>2. QED
    BY <2>1 DEF DosKept
<1>4. QED
  BY <1>1, <1>2, <1>3 DEF Dos!Next, Dos!Statement

-----------------------------------------------------------------------------
(* The builds together. *)

DelaysInv ==
    /\ platform \in {"dos", "atari", "linux", "amiga"}
    /\ platform = "dos" => DosInv /\ DosKept
    /\ platform = "atari" => AtariInv
    /\ platform = "linux" => LinuxInv
    /\ platform = "amiga" => AmigaInv

LEMMA InitHolds == Init => DelaysInv
BY DosInit, DosKeptInit, AtariInit, LinuxInit, AmigaInit DEF Init, DelaysInv

LEMMA NextHolds == DelaysInv /\ Next => DelaysInv'
BY DosNext, DosKeptNext, AtariNext, LinuxNext, AmigaNext
   DEF Next, OnDos, OnAtari, OnLinux, OnAmiga, DelaysInv, DosInv

LEMMA StutterHolds == DelaysInv /\ UNCHANGED vars => DelaysInv'
BY DEF DelaysInv, DosInv, AtariInv, LinuxInv, AmigaInv, vars, callVars, dosVars, atariVars,
       linuxVars, amigaVars, DosPlaces, OffAt, DosKept, DosCount, AtariCount, Passed, TimeSpec,
       Dos!TypeOK, Dos!Length, Linux!Total

LEMMA SpecHolds == Spec => []DelaysInv
BY InitHolds, NextHolds, StutterHolds, PTL DEF Spec

\* What DOS promises of its counters and of the machine (dos_src/delay.c:21-86).
THEOREM AlwaysDosTypeOK == Spec => []DosTypeOK
BY SpecHolds, PTL DEF DelaysInv, DosInv, DosTypeOK

\* No interrupt finds the fast timer at the handler of DOS, or the slow one at the
\* program's (dos_src/delay.c:49-64, 69-85).
THEOREM AlwaysSpeedFits == Spec => []SpeedFitsHandler
<1>1. DelaysInv => SpeedFitsHandler
  BY DEF DelaysInv, DosInv, DosPlaces, OffAt, SpeedFitsHandler, Dos!SpeedFitsHandler
<1>2. QED
  BY <1>1, SpecHolds, PTL

\* Of Ratio interrupts of the fast timer, one reaches the handler of DOS, for every
\* Ratio and every length of the delay (dos_src/delay.c:26-29).
THEOREM AlwaysDosClockRate == Spec => []DosClockRate
<1>1. Dos!TypeOK /\ DosKept => Dos!DosClockRate
  <2>1. SUFFICES ASSUME Dos!TypeOK, DosKept PROVE Dos!DosClockRate
    OBVIOUS
  <2>2. PICK p \in Nat : Ratio * chained = p
    BY <2>1, Numbers DEF Dos!TypeOK
  <2>3. QED
    BY <2>1, <2>2, Numbers DEF DosKept, Dos!TypeOK, Dos!DosClockRate
<1>2. DelaysInv => DosClockRate
  BY <1>1 DEF DelaysInv, DosInv, DosClockRate
<1>3. QED
  BY <1>2, SpecHolds, PTL

\* However many signals cut it short, the sleep is as long as asked for
\* (linux_src/delay.c:16-23).
THEOREM AlwaysSleepsNoLonger == Spec => []SleepsNoLonger
<1>1. DelaysInv => SleepsNoLonger
  BY DEF DelaysInv, LinuxInv, SleepsNoLonger, Linux!SleepsNoLonger
<1>2. QED
  BY <1>1, SpecHolds, PTL

\* The tick more is one tick at most (amiga_src/delay.c:20).
THEOREM AlwaysNotMuchLonger == Spec => []NotMuchLonger
<1>1. AmigaInv => Amiga!NotMuchLonger
  <2>1. SUFFICES ASSUME AmigaInv, pc = "waiting", ticks > 0 PROVE waited < delay + TickLength
    BY DEF Amiga!NotMuchLonger
  <2>2. PICK p \in Nat : (ticks - 1) * TickLength = p
    BY <2>1, Numbers DEF AmigaInv
  <2>3. waited + phase + p <= delay + TickLength
    BY <2>1, <2>2 DEF AmigaInv
  <2>4. delay \in Nat /\ waited \in Nat /\ phase \in Nat /\ phase >= 1
    BY <2>1, RequestFacts, Numbers DEF AmigaInv
  <2>5. QED
    BY <2>2, <2>3, <2>4, Numbers
<1>2. DelaysInv => NotMuchLonger
  BY <1>1 DEF DelaysInv, NotMuchLonger
<1>3. QED
  BY <1>2, SpecHolds, PTL

\* The Atari's handler is not called between two delays (atari_src/delay.c:60-61).
THEOREM AlwaysSilentOutside == Spec => SilentOutside
<1>1. ASSUME AtariInv, Atari!Next, pc = "idle" PROVE ticks' = ticks
  BY <1>1 DEF AtariInv, Atari!Next, Atari!Statement, Atari!Interrupt, Atari!TimePasses,
     Atari!Call, Atari!Stop, Atari!Reset, Atari!Xbtimer, Atari!SetSei, Atari!Jenabint,
     Atari!Spin, Atari!Return, Atari!Goto
<1>2. DelaysInv /\ [Next]_vars => [platform = "atari" /\ pc = "idle" => ticks' = ticks]_vars
  BY <1>1 DEF DelaysInv, Next, OnDos, OnAtari, OnLinux, OnAmiga
<1>3. QED
  BY <1>2, SpecHolds, PTL DEF Spec, SilentOutside

-----------------------------------------------------------------------------
(* Every step of a delay is one of the promise's. *)

CallStep         == pc = "idle" /\ pc' # "idle" /\ waited' = 0
PassStep         == pc # "idle" /\ pc' # "idle" /\ waited' > waited /\ UNCHANGED delay
ReturnStep(want) == pc # "idle" /\ pc' = "idle" /\ waited >= want /\ UNCHANGED <<delay, waited>>
NoStep           == (pc = "idle" <=> pc' = "idle") /\ UNCHANGED <<delay, waited>>
KeepsWord(want)  == CallStep \/ PassStep \/ ReturnStep(want) \/ NoStep

\* The bound lies beyond every delay.
LEMMA PassedIsLater ==
    ASSUME NEW t \in Int, t <= WaitedCap, waited \in Nat, Passed(t) PROVE waited >= t
BY Numbers DEF Passed

LEMMA TimeStep ==
    ASSUME waited \in 0 .. WaitedCap, TimeGoesOn, UNCHANGED <<pc, delay>>
    PROVE  PassStep \/ NoStep
BY Numbers DEF TimeGoesOn, PassStep, NoStep

LEMMA AmigaKeepsWord == AmigaInv /\ Amiga!Next => KeepsWord(Amiga!Want)
<1> SUFFICES ASSUME AmigaInv, Amiga!Next PROVE KeepsWord(Amiga!Want)
  OBVIOUS
<1>1. CASE Amiga!Call
  BY <1>1 DEF Amiga!Call, Amiga!Goto, Amiga!Called, KeepsWord, CallStep
<1>2. CASE Amiga!TimePasses
  <2>1. TimeGoesOn /\ UNCHANGED <<pc, delay>>
    BY <1>2 DEF Amiga!TimePasses, Amiga!TimeGoesOn, TimeGoesOn
  <2>2. QED
    BY <2>1, TimeStep DEF AmigaInv, KeepsWord
<1>3. CASE Amiga!Return
  <2>1. pc = "waiting" /\ ticks = 0 /\ pc' = "idle" /\ UNCHANGED <<delay, waited>>
    BY <1>3 DEF Amiga!Return
  <2>2. Amiga!Want \in Int /\ Amiga!Want <= WaitedCap /\ waited \in Nat
    BY RequestFacts, Numbers DEF AmigaInv, Amiga!Want
  <2>3. Passed(Amiga!Want)
    BY <2>1, Numbers DEF AmigaInv, Amiga!Want, Passed
  <2>4. waited >= Amiga!Want
    BY <2>2, <2>3, PassedIsLater
  <2>5. QED
    BY <2>1, <2>4 DEF KeepsWord, ReturnStep
<1>4. QED
  BY <1>1, <1>2, <1>3 DEF Amiga!Next

LEMMA LinuxKeepsWord == LinuxInv /\ Linux!Next => KeepsWord(Linux!Want)
<1> SUFFICES ASSUME LinuxInv, Linux!Next PROVE KeepsWord(Linux!Want)
  OBVIOUS
<1>1. CASE Linux!Call
  BY <1>1 DEF Linux!Call, Linux!Called, KeepsWord, CallStep
<1>2. CASE Linux!TimePasses
  <2>1. TimeGoesOn /\ UNCHANGED <<pc, delay>>
    BY <1>2 DEF Linux!TimePasses, Linux!TimeGoesOn, TimeGoesOn
  <2>2. QED
    BY <2>1, TimeStep DEF LinuxInv, KeepsWord
<1>3. CASE Linux!Return
  <2>1. pc = "woken" /\ ~eintr /\ pc' = "idle" /\ UNCHANGED <<delay, waited>>
    BY <1>3 DEF Linux!Return
  <2>2. delay \in Int /\ delay <= WaitedCap /\ waited \in Nat
    BY RequestFacts, Numbers DEF LinuxInv
  <2>3. Passed(delay)
    BY <2>1, <2>2 DEF LinuxInv, Passed
  <2>4. waited >= delay
    BY <2>2, <2>3, PassedIsLater
  <2>5. QED
    BY <2>1, <2>4 DEF KeepsWord, ReturnStep, Linux!Want
<1>4. CASE Linux!Sleep \/ Linux!WakeUp \/ Linux!Again \/ Linux!Signal
  BY <1>4 DEF Linux!Sleep, Linux!WakeUp, Linux!Again, Linux!Signal, KeepsWord, NoStep
<1>5. QED
  BY <1>1, <1>2, <1>3, <1>4 DEF Linux!Next, Linux!Progress

LEMMA AtariKeepsWord == AtariInv /\ Atari!Next => KeepsWord(Atari!Want)
<1> SUFFICES ASSUME AtariInv, Atari!Next PROVE KeepsWord(Atari!Want)
  OBVIOUS
<1>1. CASE Atari!Call
  BY <1>1 DEF Atari!Call, Atari!Goto, Atari!Called, KeepsWord, CallStep
<1>2. CASE Atari!TimePasses
  <2>1. TimeGoesOn /\ UNCHANGED <<pc, delay>>
    BY <1>2 DEF Atari!TimePasses, Atari!TimeGoesOn, TimeGoesOn, Atari!program
  <2>2. QED
    BY <2>1, TimeStep DEF AtariInv, KeepsWord
<1>3. CASE Atari!Return
  <2>1. pc = "return" /\ pc' = "idle" /\ UNCHANGED <<delay, waited>>
    BY <1>3 DEF Atari!Return, Atari!Goto
  <2>2. Atari!Want \in Int /\ Atari!Want <= WaitedCap /\ waited \in Nat
    BY RequestFacts, Numbers DEF AtariInv, Atari!Want
  <2>3. Passed(Atari!Want)
    BY <2>1 DEF AtariInv, Atari!Want
  <2>4. waited >= Atari!Want
    BY <2>2, <2>3, PassedIsLater
  <2>5. QED
    BY <2>1, <2>4 DEF KeepsWord, ReturnStep
<1>4. CASE Atari!Stop \/ Atari!Reset \/ Atari!Xbtimer \/ Atari!SetSei \/ Atari!Jenabint
           \/ Atari!Spin
  BY <1>4 DEF Atari!Stop, Atari!Reset, Atari!Xbtimer, Atari!SetSei, Atari!Jenabint, Atari!Spin,
     Atari!Goto, KeepsWord, NoStep
<1>5. CASE Atari!Interrupt
  BY <1>5 DEF Atari!Interrupt, Atari!program, KeepsWord, NoStep
<1>6. QED
  BY <1>1, <1>2, <1>3, <1>4, <1>5 DEF Atari!Next, Atari!Statement

LEMMA DosKeepsWord == DosInv /\ Dos!Next => KeepsWord(Dos!Want)
<1> SUFFICES ASSUME DosInv, Dos!Next PROVE KeepsWord(Dos!Want)
  OBVIOUS
<1>1. CASE Dos!Call
  BY <1>1 DEF Dos!Call, Dos!Goto, Dos!Called, KeepsWord, CallStep
<1>2. CASE Dos!TimePasses
  <2>1. TimeGoesOn /\ UNCHANGED <<pc, delay>>
    BY <1>2 DEF Dos!TimePasses, Dos!TimeGoesOn, TimeGoesOn, Dos!program
  <2>2. QED
    BY <2>1, TimeStep DEF DosInv, Dos!TypeOK, KeepsWord
<1>3. CASE Dos!Return
  <2>1. pc = "return" /\ pc' = "idle" /\ UNCHANGED <<delay, waited>>
    BY <1>3 DEF Dos!Return, Dos!Interrupts, Dos!Goto
  <2>2. Dos!Want \in Int /\ Dos!Want <= WaitedCap /\ waited \in Nat
    <3>1. delay \in Nat /\ Period * delay \in Nat /\ Period * delay <= WaitedCap
      BY RequestFacts, Numbers DEF DosInv, Dos!TypeOK
    <3>2. Period * (delay - 1) = Period * delay - Period
      BY <3>1, Numbers
    <3>3. QED
      BY <3>1, <3>2, Numbers DEF Dos!Want, DosInv, Dos!TypeOK
  <2>3. Passed(Dos!Want)
    BY <2>1 DEF DosInv, Dos!Want
  <2>4. waited >= Dos!Want
    BY <2>2, <2>3, PassedIsLater
  <2>5. QED
    BY <2>1, <2>4 DEF KeepsWord, ReturnStep
<1>4. CASE \/ Dos!GetVect \/ Dos!ResetCounters \/ Dos!Disable \/ Dos!Install \/ Dos!SpeedUp
           \/ Dos!Enable \/ Dos!Spin \/ Dos!Restore \/ Dos!SlowDown
  BY <1>4 DEF Dos!GetVect, Dos!ResetCounters, Dos!Disable, Dos!Install, Dos!SpeedUp, Dos!Enable,
     Dos!Spin, Dos!Restore, Dos!SlowDown, Dos!Interrupts, Dos!SetVect, Dos!SetTimer, Dos!Goto,
     KeepsWord, NoStep
<1>5. CASE Dos!Interrupt
  BY <1>5 DEF Dos!Interrupt, Dos!program, KeepsWord, NoStep
<1>6. QED
  BY <1>1, <1>2, <1>3, <1>4, <1>5 DEF Dos!Next, Dos!Statement

WantHere == CASE platform = "dos" -> Dos!Want [] platform = "atari" -> Atari!Want
              [] platform = "linux" -> Linux!Want [] platform = "amiga" -> Amiga!Want

LEMMA WantIsInt == DelaysInv => WantHere \in Int
<1> SUFFICES ASSUME DelaysInv PROVE WantHere \in Int
  OBVIOUS
<1>1. delay \in Requests
  BY DEF DelaysInv, DosInv, Dos!TypeOK, AtariInv, LinuxInv, AmigaInv
<1>2. delay \in Nat
  BY <1>1, RequestFacts
<1>3. Dos!Want \in Int /\ Atari!Want \in Int /\ Linux!Want \in Int /\ Amiga!Want \in Int
  BY <1>2, Numbers DEF Dos!Want, Atari!Want, Linux!Want, Amiga!Want
<1>4. QED
  BY <1>3 DEF DelaysInv, WantHere

LEMMA WantIsIntNext == DelaysInv' => WantHere' \in Int
<1> SUFFICES ASSUME DelaysInv' PROVE WantHere' \in Int
  OBVIOUS
<1>1. delay' \in Requests
  BY DEF DelaysInv, DosInv, Dos!TypeOK, AtariInv, LinuxInv, AmigaInv
<1>2. delay' \in Nat
  BY <1>1, RequestFacts
<1>3. Dos!Want' \in Int /\ Atari!Want' \in Int /\ Linux!Want' \in Int /\ Amiga!Want' \in Int
  BY <1>2, Numbers DEF Dos!Want, Atari!Want, Linux!Want, Amiga!Want
<1>4. QED
  BY <1>3 DEF DelaysInv, WantHere

\* What it must wait is settled by the call.
LEMMA WantStays == Next /\ UNCHANGED delay => WantHere' = WantHere
<1> SUFFICES ASSUME Next, UNCHANGED delay PROVE WantHere' = WantHere
  OBVIOUS
<1>1. UNCHANGED <<platform, delay, dos_base>>
  BY DEF Next, OnDos, OnAtari, OnLinux, OnAmiga, amigaVars, Amiga!Next, Amiga!Call,
         Amiga!TimePasses, Amiga!Return
<1>2. QED
  BY <1>1 DEF WantHere, Dos!Want, Atari!Want, Linux!Want, Amiga!Want

LEMMA NextKeepsWord == DelaysInv /\ Next => KeepsWord(WantHere)
<1> SUFFICES ASSUME DelaysInv, Next PROVE KeepsWord(WantHere)
  OBVIOUS
<1>1. CASE OnDos
  BY <1>1, DosKeepsWord DEF OnDos, DelaysInv, WantHere
<1>2. CASE OnAtari
  BY <1>2, AtariKeepsWord DEF OnAtari, DelaysInv, WantHere
<1>3. CASE OnLinux
  BY <1>3, LinuxKeepsWord DEF OnLinux, DelaysInv, WantHere
<1>4. CASE OnAmiga
  BY <1>4, AmigaKeepsWord DEF OnAmiga, DelaysInv, WantHere
<1>5. QED
  BY <1>1, <1>2, <1>3, <1>4 DEF Next

\* delay_ms() never returns early, on no platform.
THEOREM AlwaysWaitsLongEnough == Spec => WaitsLongEnough
<1>1. Init => Promise!Init
  <2>1. Init => pc = "idle" /\ waited = 0
    BY DEF Init, Dos!Init, Atari!Init, Linux!Init, Amiga!Init
  <2>2. QED
    BY <2>1, InitHolds, WantIsInt DEF Promise!Init, WantHere
<1>2. DelaysInv /\ DelaysInv' /\ [Next]_vars => [Promise!Next]_(Promise!vars)
  <2> SUFFICES ASSUME DelaysInv, DelaysInv', [Next]_vars PROVE [Promise!Next]_(Promise!vars)
    OBVIOUS
  <2>1. CASE UNCHANGED vars
    <3>1. UNCHANGED <<pc, delay, waited, platform, dos_base>>
      BY <2>1 DEF vars, callVars, amigaVars
    <3>2. QED
      BY <3>1 DEF Promise!vars, Dos!Want, Atari!Want, Linux!Want, Amiga!Want
  <2>2. CASE Next
    <3>1. KeepsWord(WantHere) /\ (UNCHANGED delay => WantHere' = WantHere)
      BY <2>2, NextKeepsWord, WantStays
    <3>2. WantHere' \in Int
      BY WantIsIntNext
    <3>3. ASSUME CallStep PROVE Promise!Call
      BY <3>2, <3>3 DEF Promise!Call, CallStep, WantHere
    <3>4. ASSUME PassStep PROVE Promise!Pass
      BY <3>1, <3>4 DEF Promise!Pass, PassStep, WantHere
    <3>5. ASSUME ReturnStep(WantHere) PROVE Promise!Return
      BY <3>1, <3>5 DEF Promise!Return, ReturnStep, WantHere
    <3>6. ASSUME NoStep PROVE UNCHANGED Promise!vars
      BY <3>1, <3>6 DEF Promise!vars, NoStep, WantHere
    <3>7. QED
      BY <3>1, <3>3, <3>4, <3>5, <3>6 DEF Promise!Next, KeepsWord
  <2>3. QED
    BY <2>1, <2>2
<1>3. QED
  BY <1>1, <1>2, SpecHolds, PTL DEF Spec, WaitsLongEnough, Promise!Spec
=============================================================================
