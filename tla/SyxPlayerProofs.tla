--------------------------- MODULE SyxPlayerProofs ---------------------------
(***************************************************************************)
(* Proofs about SyxPlayer, for every file, every buffer size, pipes and    *)
(* failing reads included.  SafeInv is the inductive invariant: what the   *)
(* buffer holds (BufferInv), what the search has seen of it (ScanInv), and *)
(* where a lap stands relative to the message sent last (LapInv).          *)
(***************************************************************************)
EXTENDS SyxPlayer, TLAPS

\* The buffer holds bytes base .. base + n - 1 of the file, and the stream
\* stands behind them until the foot of the lap seeks.
BufferInv ==
    /\ base + n <= Len(file)
    /\ pc # "read" => pos = base + n
    /\ pc = "open" => pos = 0 /\ n = 0
    /\ seekable => read_start = base
    /\ ~seekable /\ pc \in {"scan", "send", "seek"} => read_start = -1
    /\ pc \in {"scan", "send", "seek"} /\ ~faulty =>
           n = BufSize \/ base + n = Len(file)

\* What found_start and found_end say of the bytes searched so far.
ScanInv ==
    /\ ~found_start =>
           ~found_end /\ \A k \in 0 .. i - 1 : At(file, base + k) # F0
    /\ found_start =>
           /\ start_index < i /\ At(file, base + start_index) = F0
           /\ \A k \in 0 .. start_index - 1 : At(file, base + k) # F0
    /\ found_start /\ ~found_end =>
           \A k \in start_index + 1 .. i - 1 : At(file, base + k) \notin {F0, F7}
    /\ found_end =>
           /\ found_start /\ start_index < end_index /\ end_index < i
           /\ At(file, base + end_index) = F7
           /\ \A k \in start_index + 1 .. end_index - 1 :
                 At(file, base + k) \notin {F0, F7}

\* A lap begins behind the message sent last: right behind it if the file can
\* be sought, somewhere behind it if it is a pipe.
LapInv ==
    /\ pc \in {"send", "seek"} => found_start /\ found_end
    /\ pc = "open" => last = NoMessage
    /\ pc = "read" => last.final + 1 <= pos /\ (seekable => pos = last.final + 1)
    /\ pc \in {"scan", "send"} =>
           last.final + 1 <= base /\ (seekable => base = last.final + 1)
    /\ pc = "seek" => last = [first |-> base + start_index,
                              final |-> base + end_index]

SafeInv == TypeOK /\ BufferInv /\ ScanInv /\ LapInv

USE DEF F0, F7, medium

-----------------------------------------------------------------------------
\* What fread() may deliver fits the buffer and the rest of the file.
LEMMA ReadFits ==
    ASSUME TypeOK, NEW m \in ReadSizes
    PROVE  /\ m \in 0 .. BufSize /\ pos + m <= Len(file)
           /\ ~faulty => m = BufSize \/ pos + m = Len(file)
<1>1. file \in Seq(Byte) /\ Len(file) \in Nat
  BY FilesAssumption DEF TypeOK
<1>2. Available \in 0 .. BufSize /\ pos + Available <= Len(file)
      /\ (Available = BufSize \/ pos + Available = Len(file))
  BY <1>1, BufSizeAssumption DEF TypeOK, Available
<1> QED
  BY <1>1, <1>2, BufSizeAssumption DEF ReadSizes, TypeOK

\* Once both ends are found they are the ends of a message in the buffer.
LEMMA FoundIsMessage ==
    ASSUME SafeInv, found_start, found_end
    PROVE  IsMessage(file, base + start_index, base + end_index)
<1>1. file \in Seq(Byte) /\ Len(file) \in Nat
  BY FilesAssumption DEF SafeInv, TypeOK
<1>2. /\ base \in Nat /\ start_index \in Nat /\ end_index \in Nat
      /\ start_index < end_index /\ base + end_index < Len(file)
  BY <1>1, BufSizeAssumption DEF SafeInv, TypeOK, BufferInv, ScanInv
<1>3. ASSUME NEW k \in base + start_index + 1 .. base + end_index - 1
      PROVE  At(file, k) \notin {F0, F7}
  <2>1. k - base \in start_index + 1 .. end_index - 1 /\ base + (k - base) = k
    BY <1>2
  <2> QED BY <2>1 DEF SafeInv, ScanInv
<1>4. At(file, base + start_index) = F0 /\ At(file, base + end_index) = F7
  BY DEF SafeInv, ScanInv
<1> QED BY <1>1, <1>2, <1>3, <1>4 DEF IsMessage, Offsets

LEMMA InitSafe == InitPlayer => SafeInv
<1> SUFFICES ASSUME InitPlayer PROVE SafeInv OBVIOUS
<1>1. file \in Seq(Byte) /\ Len(file) \in Nat
  BY FilesAssumption DEF InitPlayer
<1>2. TypeOK
  <2>1. last \in [first : -1 .. Len(file), final : -1 .. Len(file)]
    BY <1>1 DEF InitPlayer, NoMessage
  <2>2. seekable \in BOOLEAN /\ faulty \in BOOLEAN BY DEF InitPlayer
  <2>3. found_start \in BOOLEAN /\ found_end \in BOOLEAN BY DEF InitPlayer
  <2> QED BY <1>1, <2>1, <2>2, <2>3, BufSizeAssumption DEF InitPlayer, TypeOK
<1>3. BufferInv BY <1>1 DEF InitPlayer, BufferInv
<1>4. ScanInv BY DEF InitPlayer, ScanInv
<1>5. LapInv BY DEF InitPlayer, LapInv
<1> QED BY <1>2, <1>3, <1>4, <1>5 DEF SafeInv

LEMMA StepSafe == SafeInv /\ [NextPlayer]_playerVars => SafeInv'
<1> SUFFICES ASSUME SafeInv, [NextPlayer]_playerVars PROVE SafeInv'
  OBVIOUS
<1> USE DEF SafeInv
<1>0. file \in Seq(Byte) /\ Len(file) \in Nat /\ BufSize \in Nat
  BY FilesAssumption, BufSizeAssumption DEF TypeOK
<1>1. CASE Open
  <2>1. TypeOK' BY <1>1 DEF Open, TypeOK, scanVars
  <2>2. BufferInv' BY <1>1 DEF Open, BufferInv, scanVars
  <2>3. ScanInv' BY <1>1 DEF Open, ScanInv, scanVars
  <2>4. LapInv' BY <1>1 DEF Open, LapInv, BufferInv, NoMessage, scanVars
  <2> QED BY <2>1, <2>2, <2>3, <2>4
<1>2. CASE ReadBuffer
  <2>1. PICK m \in ReadSizes : n' = m /\ pos' = pos + m
    BY <1>2 DEF ReadBuffer
  <2>2. /\ m \in 0 .. BufSize /\ pos + m <= Len(file) /\ pos \in 0 .. Len(file)
        /\ ~faulty => m = BufSize \/ pos + m = Len(file)
    BY ReadFits DEF TypeOK
  <2>3. TypeOK'
    <3>1. read_start' \in {-1} \cup (0 .. Len(file)) /\ i' \in 0 .. n'
      BY <1>2, <2>1, <2>2 DEF ReadBuffer, TypeOK, Tell
    <3>2. found_start' \in BOOLEAN /\ found_end' \in BOOLEAN
      BY <1>2 DEF ReadBuffer
    <3> QED BY <1>0, <1>2, <2>1, <2>2, <3>1, <3>2 DEF ReadBuffer, TypeOK
  <2>4. BufferInv'
    BY <1>0, <1>2, <2>1, <2>2 DEF ReadBuffer, BufferInv, TypeOK, Tell
  <2>5. ScanInv' BY <1>2 DEF ReadBuffer, ScanInv
  <2>6. LapInv' BY <1>2 DEF ReadBuffer, LapInv
  <2> QED BY <2>3, <2>4, <2>5, <2>6
<1>3. CASE ScanSecondStart
  <2>1. TypeOK' BY <1>3 DEF ScanSecondStart, TypeOK, scanVars
  <2>2. BufferInv' BY <1>3 DEF ScanSecondStart, BufferInv, Scanning, scanVars
  <2>3. ScanInv' BY <1>3 DEF ScanSecondStart, ScanInv, scanVars
  <2>4. LapInv' BY <1>3 DEF ScanSecondStart, LapInv, scanVars
  <2> QED BY <2>1, <2>2, <2>3, <2>4
<1>4. CASE ScanByte
  <2> USE <1>0, <1>4 DEF ScanByte, Scanning
  <2>1. TypeOK'
    <3>1. found_start' \in BOOLEAN /\ found_end' \in BOOLEAN
      BY DEF TypeOK
    <3>2. start_index' \in 0 .. BufSize /\ end_index' \in 0 .. BufSize
          /\ i' \in 0 .. n'
      BY DEF TypeOK
    <3> QED BY <3>1, <3>2 DEF TypeOK
  <2>2. BufferInv' BY DEF BufferInv
  <2>3. ScanInv'
    <3>1. CASE SeesStart /\ ~found_start
      BY <3>1 DEF ScanInv, SeesStart, SeesEnd, TypeOK
    <3>2. CASE ~SeesStart /\ ~found_start
      <4>1. ~found_start' /\ ~found_end' /\ i' = i + 1 /\ ~found_end
        BY <3>2 DEF SeesEnd, ScanInv
      <4>2. ASSUME NEW k \in 0 .. i PROVE At(file, base + k) # F0
        <5>1. CASE k = i BY <3>2, <5>1 DEF SeesStart
        <5>2. CASE k \in 0 .. i - 1 BY <3>2, <5>2 DEF ScanInv
        <5> QED BY <5>1, <5>2 DEF TypeOK
      <4> QED BY <3>2, <4>1, <4>2 DEF ScanInv, TypeOK
    <3>3. CASE ~SeesStart /\ found_start /\ SeesEnd
      <4>1. /\ found_start' /\ start_index' = start_index
            /\ found_end' /\ end_index' = i /\ i' = i + 1 /\ ~found_end
        BY <3>3
      <4> QED BY <3>3, <4>1 DEF ScanInv, SeesEnd, TypeOK
    <3>4. CASE ~SeesStart /\ found_start /\ ~SeesEnd
      <4>1. /\ found_start' /\ start_index' = start_index
            /\ ~found_end' /\ i' = i + 1 /\ ~found_end
        BY <3>4
      <4>2. ASSUME NEW k \in start_index + 1 .. i
            PROVE  At(file, base + k) \notin {F0, F7}
        <5>1. CASE k = i BY <3>4, <5>1 DEF SeesStart, SeesEnd
        <5>2. CASE k \in start_index + 1 .. i - 1
          BY <3>4, <4>1, <5>2 DEF ScanInv
        <5> QED BY <5>1, <5>2 DEF TypeOK
      <4> QED BY <3>4, <4>1, <4>2 DEF ScanInv, TypeOK
    <3> QED BY <3>1, <3>2, <3>3, <3>4
  <2>4. LapInv' BY DEF LapInv
  <2> QED BY <2>1, <2>2, <2>3, <2>4
<1>5. CASE ScanOver
  <2>1. TypeOK' BY <1>5 DEF ScanOver, TypeOK, scanVars
  <2>2. BufferInv' BY <1>5 DEF ScanOver, BufferInv, Scanning, scanVars
  <2>3. ScanInv' BY <1>5 DEF ScanOver, ScanInv, scanVars
  <2>4. LapInv' BY <1>5 DEF ScanOver, LapInv, scanVars
  <2> QED BY <2>1, <2>2, <2>3, <2>4
<1>6. CASE Send
  <2>1. /\ start_index \in Nat /\ end_index \in Nat /\ base \in Nat
        /\ start_index < end_index /\ base + end_index < Len(file)
    BY <1>0, <1>6 DEF Send, TypeOK, BufferInv, ScanInv, LapInv
  <2>2. TypeOK'
    BY <1>0, <1>6, <2>1 DEF Send, TypeOK, scanVars
  <2>3. BufferInv' BY <1>6 DEF Send, BufferInv, scanVars
  <2>4. ScanInv' BY <1>6 DEF Send, ScanInv, scanVars
  <2>5. LapInv' BY <1>6 DEF Send, LapInv, scanVars
  <2> QED BY <2>2, <2>3, <2>4, <2>5
<1>7. CASE SeekNext
  <2>1. /\ end_index \in Nat /\ base \in Nat /\ n \in Nat
        /\ end_index < n /\ base + end_index + 1 <= Len(file)
        /\ last.final = base + end_index
    BY <1>0, <1>7 DEF SeekNext, TypeOK, BufferInv, ScanInv, LapInv
  <2>2. TypeOK'
    BY <1>0, <1>7, <2>1 DEF SeekNext, TypeOK, BufferInv, Resume, scanVars
  <2>3. BufferInv' BY <1>7 DEF SeekNext, BufferInv, scanVars
  <2>4. ScanInv' BY <1>7 DEF SeekNext, ScanInv, scanVars
  <2>5. LapInv'
    BY <1>7, <2>1 DEF SeekNext, LapInv, BufferInv, Resume, scanVars
  <2> QED BY <2>2, <2>3, <2>4, <2>5
<1>8. CASE UNCHANGED playerVars
  BY <1>8 DEF playerVars, scanVars, TypeOK, BufferInv, ScanInv, LapInv, At
<1> QED
  BY <1>1, <1>2, <1>3, <1>4, <1>5, <1>6, <1>7, <1>8 DEF NextPlayer

\* The player changes neither the file nor what it is read from.
LEMMA MediumStays ==
    [NextPlayer]_playerVars =>
        file' = file /\ seekable' = seekable /\ faulty' = faulty
BY DEF NextPlayer, Open, ReadBuffer, ScanSecondStart, ScanByte, ScanOver, Send,
       SeekNext, playerVars, scanVars

LEMMA AlwaysSafe == SafePlayer => []SafeInv
BY InitSafe, StepSafe, PTL DEF SafePlayer

-----------------------------------------------------------------------------
\* The reader's variables stay within their types and ranges; in particular
\* no index leaves the buffer and no seek leaves the file.
THEOREM TypeCorrect == SafePlayer => []TypeOK
BY AlwaysSafe, PTL DEF SafeInv

\* Whatever the file and the size of the buffer, the bytes handed to the
\* backend are one complete SysEx message (mt32-pi.c:404-432).
THEOREM AlwaysWholeMessage == SafePlayer => []SendsWholeMessage
<1>1. SafeInv => SendsWholeMessage
  BY FoundIsMessage DEF SafeInv, LapInv, SendsWholeMessage
<1> QED BY <1>1, AlwaysSafe, PTL

\* Messages go out in the order of the file and none goes out twice, from
\* files and pipes, with and without failing reads (mt32-pi.c:435-437).
THEOREM AlwaysInFileOrder == SafePlayer => InFileOrder
<1>1. SafeInv /\ [NextPlayer]_playerVars
        => [pc = "send" => last'.first > last.final]_playerVars
  <2> SUFFICES ASSUME SafeInv, NextPlayer, pc = "send"
               PROVE  last'.first > last.final
    BY DEF playerVars
  <2>1. Send
    BY DEF NextPlayer, Open, ReadBuffer, ScanSecondStart, ScanByte, ScanOver,
           SeekNext, Scanning
  <2>2. base \in Nat /\ start_index \in Nat /\ last.final \in Int
        /\ last.final + 1 <= base
    BY BufSizeAssumption, FilesAssumption DEF SafeInv, TypeOK, LapInv
  <2> QED BY <2>1, <2>2 DEF Send
<1> QED BY <1>1, AlwaysSafe, PTL DEF SafePlayer, InFileOrder

-----------------------------------------------------------------------------
\* Success with bytes left unread means that the message sent last ended in
\* the last byte of a full buffer (mt32-pi.c:435).
THEOREM AlwaysStopsShortOnlyAtBufferEnd ==
    SafePlayer => []StopsShortOnlyAtBufferEnd
<1>1. InitPlayer => StopsShortOnlyAtBufferEnd
  BY DEF InitPlayer, StopsShortOnlyAtBufferEnd
<1>2. SafeInv /\ StopsShortOnlyAtBufferEnd /\ [NextPlayer]_playerVars
        => StopsShortOnlyAtBufferEnd'
  <2> SUFFICES ASSUME SafeInv, StopsShortOnlyAtBufferEnd,
                      [NextPlayer]_playerVars, pc' = "success", ~faulty
               PROVE  last'.final + 1 = Len(file') \/ end_index' = BufSize - 1
    BY MediumStays DEF StopsShortOnlyAtBufferEnd
  <2>1. CASE SeekNext
    <3>1. /\ last' = last /\ file' = file /\ end_index' = end_index
          /\ Resume = Tell(pos) /\ pc = "seek"
      BY <2>1 DEF SeekNext, EndOfFile, scanVars
    <3>2. /\ end_index \in Nat /\ base \in Nat /\ n \in Nat
          /\ Len(file) \in Nat /\ BufSize \in Nat
      BY <3>1, BufSizeAssumption, FilesAssumption DEF SafeInv, TypeOK
    <3>3. /\ last.final = base + end_index /\ pos = base + n
          /\ n = BufSize \/ base + n = Len(file)
          /\ seekable => read_start = base
          /\ ~seekable => read_start = -1
      BY <3>1, <3>2 DEF SafeInv, BufferInv, LapInv
    <3>4. end_index + 1 = n
      BY <3>1, <3>2, <3>3 DEF Resume, Tell
    <3> QED BY <3>1, <3>2, <3>3, <3>4
  <2>2. CASE ~SeekNext
    BY <2>2 DEF StopsShortOnlyAtBufferEnd, NextPlayer, Open, ReadBuffer,
                ScanSecondStart, ScanByte, ScanOver, Send, Scanning,
                playerVars, scanVars
  <2> QED BY <2>1, <2>2
<1> QED BY <1>1, <1>2, AlwaysSafe, PTL DEF SafePlayer

-----------------------------------------------------------------------------
\* On a well-formed file every lap begins at the start of a message, and none
\* is turned down.
WellFormedInv ==
    WellFormed(file) /\ seekable /\ ~faulty =>
        /\ pc = "read" => pos < Len(file) /\ At(file, pos) = F0
        /\ pc = "scan" => n > 0 /\ At(file, base) = F0
        /\ pc # "failure"

\* In a well-formed file a message ends before the next one starts.
LEMMA EndBeforeStart ==
    ASSUME NEW f \in Seq(Byte), WellFormed(f),
           NEW k \in Offsets(f), k > 0, At(f, k) = F0
    PROVE  k - 1 \in Offsets(f) /\ At(f, k - 1) = F7
<1>1. Len(f) \in Nat /\ k \in 1 .. Len(f) /\ f[k + 1] = F0 BY DEF Offsets, At
<1>2. f[k] = F7 BY <1>1 DEF WellFormed
<1> QED BY <1>1, <1>2 DEF Offsets, At

\* Behind the end of a message there is another one or nothing.
LEMMA StartBehindEnd ==
    ASSUME NEW f \in Seq(Byte), WellFormed(f),
           NEW k \in Offsets(f), At(f, k) = F7, k + 1 # Len(f)
    PROVE  k + 1 < Len(f) /\ At(f, k + 1) = F0
<1>1. Len(f) \in Nat /\ k + 1 \in 1 .. Len(f) /\ f[k + 1] = F7
  BY DEF Offsets, At
<1>2. f[k + 1 + 1] = F0 BY <1>1 DEF WellFormed
<1> QED BY <1>1, <1>2 DEF At, Offsets

\* The end of a message that starts at offset s lies within BufSize bytes.
LEMMA EndWithinBuffer ==
    ASSUME NEW f \in Seq(Byte), WellFormed(f),
           NEW s \in Offsets(f), At(f, s) = F0
    PROVE  \E e \in Offsets(f) : s < e /\ e < s + BufSize /\ At(f, e) = F7
<1>1. Len(f) \in Nat /\ s + 1 \in 1 .. Len(f) /\ f[s + 1] = F0
  BY DEF Offsets, At
<1>2. PICK e \in s + 1 + 1 .. s + 1 + BufSize - 1 : e <= Len(f) /\ f[e] = F7
  BY <1>1 DEF WellFormed
<1>3. /\ e - 1 \in Offsets(f) /\ s < e - 1 /\ e - 1 < s + BufSize
      /\ e - 1 + 1 = e
  BY <1>1, <1>2, BufSizeAssumption DEF Offsets
<1> QED BY <1>2, <1>3 DEF At

LEMMA StepWellFormed ==
    SafeInv /\ WellFormedInv /\ [NextPlayer]_playerVars => WellFormedInv'
<1> SUFFICES ASSUME SafeInv, WellFormedInv, [NextPlayer]_playerVars,
                    WellFormed(file'), seekable', ~faulty
             PROVE  /\ pc' = "read" => pos' < Len(file') /\ At(file', pos') = F0
                    /\ pc' = "scan" => n' > 0 /\ At(file', base') = F0
                    /\ pc' # "failure"
  BY MediumStays DEF WellFormedInv
<1>0. file' = file /\ seekable' = seekable
  BY MediumStays
<1>1. /\ file \in Seq(Byte) /\ Len(file) \in Nat /\ BufSize \in Nat \ {0}
      /\ base \in Nat /\ n \in Nat /\ i \in Nat /\ i <= n
      /\ WellFormed(file) /\ seekable
  BY <1>0, BufSizeAssumption, FilesAssumption DEF SafeInv, TypeOK
<1>2. CASE Open
  <2>1. Len(file) > 0 /\ At(file, 0) = F0 BY <1>1 DEF WellFormed, At
  <2>2. pos' = 0 /\ pc' \in {"read", "unopened"}
    BY <1>2 DEF Open, SafeInv, BufferInv
  <2> QED BY <1>0, <2>1, <2>2
<1>3. CASE ReadBuffer
  <2>1. PICK m \in ReadSizes : n' = m
    BY <1>3 DEF ReadBuffer
  <2>2. m \in 0 .. BufSize /\ (m = BufSize \/ pos + m = Len(file))
    BY ReadFits DEF SafeInv
  <2>3. pos \in Nat /\ pos < Len(file) /\ At(file, pos) = F0
    BY <1>1, <1>3 DEF WellFormedInv, ReadBuffer, SafeInv, TypeOK
  <2>4. m > 0 BY <1>1, <2>2, <2>3
  <2> QED BY <1>0, <1>3, <2>1, <2>3, <2>4 DEF ReadBuffer
<1>4. CASE ScanSecondStart
  <2>1. pc = "scan" /\ found_start /\ ~found_end /\ i < n
        /\ At(file, base + i) = F0
    BY <1>4 DEF ScanSecondStart, Scanning, SeesStart
  <2>2. /\ start_index \in Nat /\ start_index < i
        /\ At(file, base + start_index) = F0
        /\ \A k \in start_index + 1 .. i - 1 : At(file, base + k) \notin {F0, F7}
        /\ base + n <= Len(file)
    BY <1>1, <2>1 DEF SafeInv, TypeOK, ScanInv, BufferInv
  <2>3. base + i \in Offsets(file) /\ base + i > 0
    BY <1>1, <2>1, <2>2 DEF Offsets
  <2>4. At(file, base + i - 1) = F7
    BY <1>1, <2>1, <2>3, EndBeforeStart
  <2>5. base + i - 1 = base + (i - 1) /\ i - 1 \in start_index .. i - 1
    BY <1>1, <2>2
  <2>6. CASE i - 1 = start_index BY <2>2, <2>4, <2>5, <2>6
  <2>7. CASE i - 1 # start_index
    <3>1. i - 1 \in start_index + 1 .. i - 1 BY <1>1, <2>2, <2>7
    <3> QED BY <2>2, <2>4, <2>5, <3>1
  <2> QED BY <2>6, <2>7
<1>5. CASE ScanByte
  BY <1>0, <1>1, <1>5 DEF ScanByte, Scanning, WellFormedInv
<1>6. CASE ScanOver
  <2>1. pc = "scan" /\ n > 0 /\ At(file, base) = F0
        /\ base + n <= Len(file) /\ (n = BufSize \/ base + n = Len(file))
    BY <1>1, <1>6 DEF ScanOver, WellFormedInv, SafeInv, BufferInv
  <2>2. ASSUME ~(found_start /\ found_end) PROVE FALSE
    <3>1. i = n BY <1>1, <1>6, <2>1, <2>2 DEF ScanOver, Scanning
    <3>2. base \in Offsets(file) BY <1>1, <2>1 DEF Offsets
    <3>3. PICK e \in Offsets(file) :
                 base < e /\ e < base + BufSize /\ At(file, e) = F7
      BY <1>1, <2>1, <3>2, EndWithinBuffer
    <3>4. /\ e - base \in 1 .. n - 1 /\ base + (e - base) = e
          /\ 0 \in 0 .. n - 1 /\ base + 0 = base
      BY <1>1, <2>1, <3>3 DEF Offsets
    <3>5. found_start
      BY <2>1, <3>1, <3>4 DEF SafeInv, ScanInv
    <3>6. start_index = 0
      <4>1. start_index \in Nat BY <1>1 DEF SafeInv, TypeOK
      <4> QED BY <1>1, <2>1, <3>4, <3>5, <4>1 DEF SafeInv, ScanInv
    <3>7. e - base \in start_index + 1 .. i - 1 BY <3>1, <3>4, <3>6
    <3> QED BY <2>2, <3>3, <3>4, <3>5, <3>7 DEF SafeInv, ScanInv
  <2> QED BY <1>6, <2>2 DEF ScanOver
<1>7. CASE Send
  BY <1>7 DEF Send
<1>8. CASE SeekNext
  <2>1. pc = "seek" /\ pc' \in {"success", "read"} BY <1>8 DEF SeekNext
  <2>2. /\ end_index \in Nat /\ end_index < n /\ base + n <= Len(file)
        /\ At(file, base + end_index) = F7
        /\ read_start = base /\ pos = base + n
        /\ n = BufSize \/ base + n = Len(file)
    BY <1>1, <2>1 DEF SafeInv, TypeOK, ScanInv, BufferInv, LapInv
  <2>3. ASSUME pc' = "read" PROVE pos' < Len(file) /\ At(file, pos') = F0
    <3>1. pos' = base + end_index + 1 /\ base + end_index + 1 # pos
      BY <1>1, <1>8, <2>2, <2>3 DEF SeekNext, EndOfFile, Resume, Tell
    <3>2. base + end_index \in Offsets(file) BY <1>1, <2>2 DEF Offsets
    <3>3. base + end_index + 1 # Len(file) BY <1>1, <2>2, <3>1
    <3> QED BY <1>1, <2>2, <3>1, <3>2, <3>3, StartBehindEnd
  <2> QED BY <1>0, <2>1, <2>3
<1>9. CASE UNCHANGED playerVars
  BY <1>0, <1>1, <1>9 DEF playerVars, WellFormedInv
<1> QED
  BY <1>2, <1>3, <1>4, <1>5, <1>6, <1>7, <1>8, <1>9 DEF NextPlayer

\* A file of back-to-back messages that fit the buffer is, once open, never
\* rejected: no boundary of the buffer makes it look malformed, and playing
\* ends before the read that would find nothing (mt32-pi.c:403-436).
THEOREM AlwaysAcceptsWellFormed == SafePlayer => []AcceptsWellFormed
<1>1. InitPlayer => WellFormedInv BY DEF InitPlayer, WellFormedInv
<1>2. SafeInv /\ WellFormedInv => AcceptsWellFormed
  BY DEF WellFormedInv, AcceptsWellFormed
<1> QED BY <1>1, <1>2, StepWellFormed, AlwaysSafe, PTL DEF SafePlayer

-----------------------------------------------------------------------------
\* On a file that can be sought the player implements SysExStream: each
\* message sent is the next one of the file (mt32-pi.c:393-438).
THEOREM ImplementsStream == SafePlayer => PlaysStream
<1>1. InitPlayer => Stream!Init
  BY DEF InitPlayer, Stream!Init, Ended, NoMessage, Stream!NoMessage
<1>2. SafeInv /\ [NextPlayer]_playerVars => [Stream!Next]_Stream!vars
  <2> SUFFICES ASSUME SafeInv, [NextPlayer]_playerVars
               PROVE  [Stream!Next]_Stream!vars
    OBVIOUS
  <2> USE DEF Ended, NoMessage, Stream!NoMessage
  <2>0. seekable' = seekable /\ file' = file
    BY MediumStays
  <2> SUFFICES ASSUME seekable PROVE [Stream!Next]_Stream!vars
    BY <2>0 DEF Stream!vars
  <2>1. CASE Open \/ ScanSecondStart \/ ScanOver
    BY <2>0, <2>1 DEF Open, ScanSecondStart, ScanOver, Scanning, scanVars,
                Stream!Next, Stream!GiveUp, Stream!vars
  <2>2. CASE ReadBuffer \/ ScanByte
    BY <2>0, <2>2 DEF ReadBuffer, ScanByte, Scanning, Stream!vars
  <2>3. CASE Send
    <3>1. found_start /\ found_end /\ base = last.final + 1
      BY <2>3 DEF Send, SafeInv, LapInv, BufferInv
    <3>2. IsMessage(file, base + start_index, base + end_index)
      BY <3>1, FoundIsMessage
    <3>3. base \in Nat /\ start_index \in Nat
      BY FilesAssumption, BufSizeAssumption DEF SafeInv, TypeOK
    <3>4. ASSUME NEW k \in base .. base + start_index - 1
          PROVE  At(file, k) # F0
      <4>1. k - base \in 0 .. start_index - 1 /\ base + (k - base) = k
        BY <3>3
      <4> QED BY <3>1, <4>1 DEF SafeInv, ScanInv
    <3>5. IsNextMessage(file, last.final + 1, base + start_index,
                        base + end_index)
      BY <3>1, <3>2, <3>3, <3>4 DEF IsNextMessage
    <3>6. base + start_index \in Offsets(file)
          /\ base + end_index \in Offsets(file)
      BY <3>2 DEF IsMessage
    <3>7. Stream!IsNextMessage(file, last.final + 1, base + start_index,
                               base + end_index)
      BY <3>5 DEF IsNextMessage, Stream!IsNextMessage, IsMessage,
                  Stream!IsMessage, Offsets, Stream!Offsets, At, Stream!At,
                  Stream!F0, Stream!F7
    <3>8. base + start_index \in Stream!Offsets(file)
          /\ base + end_index \in Stream!Offsets(file)
      BY <3>6 DEF Offsets, Stream!Offsets
    <3>9. /\ pc = "send" /\ pc' = "seek" /\ file' = file
          /\ last' = [first |-> base + start_index, final |-> base + end_index]
      BY <2>3 DEF Send
    <3>10. Stream!SendNext
      BY <2>0, <3>7, <3>8, <3>9 DEF Stream!SendNext
    <3> QED BY <3>10 DEF Stream!Next
  <2>4. CASE SeekNext
    <3>1. last # NoMessage
      <4>1. base \in Nat /\ start_index \in Nat
        BY FilesAssumption, BufSizeAssumption DEF SafeInv, TypeOK
      <4>2. last.first = base + start_index
        BY <2>4 DEF SeekNext, SafeInv, LapInv
      <4> QED BY <4>1, <4>2 DEF NoMessage
    <3> QED
      BY <2>0, <2>4, <3>1 DEF SeekNext, scanVars, Stream!Next, Stream!Succeed,
                        Stream!vars, NoMessage, Stream!NoMessage
  <2>5. CASE UNCHANGED playerVars
    BY <2>0, <2>5 DEF playerVars, Stream!vars
  <2> QED BY <2>1, <2>2, <2>3, <2>4, <2>5 DEF NextPlayer
<1> QED BY <1>1, <1>2, AlwaysSafe, PTL DEF SafePlayer, PlaysStream, Stream!Spec
=============================================================================
