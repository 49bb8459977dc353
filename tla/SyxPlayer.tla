------------------------------ MODULE SyxPlayer ------------------------------
(***************************************************************************)
(* The "-Y/--syx FILE" stage of main(): the file is read through a buffer  *)
(* of BufSize bytes (fbuf[512]); each lap finds the first SysEx message in *)
(* the buffer, sends it, and seeks to the byte after it.                   *)
(*                                                                         *)
(* fbuf is not kept: fbuf[k] is the byte at offset base + k of the file.   *)
(* The position is the stream's, as the C library keeps it.                *)
(***************************************************************************)
EXTENDS SysExBytes

CONSTANTS Files,        \* what the file may hold
          BufSize       \* sizeof fbuf

ASSUME FilesAssumption == Files \subseteq Seq(Byte)
ASSUME BufSizeAssumption == BufSize \in Nat \ {0}

VARIABLES file,         \* the contents of the file
          last,         \* first and last offset of the message sent last
          pc,           \* "open", "read", "scan", "send", "seek" or the outcome
          seekable,     \* FALSE: a pipe, where ftell and fseek fail
          faulty,       \* TRUE: fread() may come back short before the end
          pos,          \* the stream's position
          base,         \* offset in the file of fbuf[0]
          read_start, n, i, found_start, found_end, start_index, end_index

medium     == <<seekable, faulty>>
scanVars   == <<found_start, found_end, start_index, end_index>>
playerVars == <<pc, file, medium, pos, base, read_start, n, i, scanVars, last>>

\* What ftell() says at position p.
Tell(p) == IF seekable THEN p ELSE -1

\* How many bytes fread() may deliver: as many as fit and are left, or fewer
\* when the medium fails.
Available == IF Len(file) - pos < BufSize THEN Len(file) - pos ELSE BufSize
ReadSizes == IF faulty THEN 0 .. Available ELSE {Available}

InitPlayer ==
    /\ file \in Files /\ seekable \in BOOLEAN /\ faulty \in BOOLEAN
    /\ pc = "open" /\ pos = 0 /\ base = 0 /\ read_start = 0 /\ n = 0 /\ i = 0
    /\ found_start = FALSE /\ found_end = FALSE
    /\ start_index = 0 /\ end_index = 0
    /\ last = NoMessage

\* fopen(), which may fail: "Can't open".
Open ==
    /\ pc = "open"
    /\ pc' \in {"read", "unopened"}
    /\ UNCHANGED <<file, medium, pos, base, read_start, n, i, scanVars, last>>

\* The head of a lap: note the position, fill the buffer, clear the findings.
ReadBuffer ==
    /\ pc = "read"
    /\ read_start' = Tell(pos) /\ base' = pos
    /\ \E m \in ReadSizes : n' = m /\ pos' = pos + m
    /\ found_start' = FALSE /\ found_end' = FALSE
    /\ start_index' = 0 /\ end_index' = 0
    /\ i' = 0
    /\ pc' = "scan"
    /\ UNCHANGED <<file, medium, last>>

Scanning == pc = "scan" /\ i < n /\ ~(found_start /\ found_end)

\* fbuf[i] starts a message...
SeesStart == At(file, base + i) = F0
\* ...or ends the one that was started. A second end is never seen: the loop
\* stops at the first.
SeesEndAnywhere == At(file, base + i) = F7
SeesEnd == found_start /\ At(file, base + i) = F7

\* A second start before the end: "Malformed SysEx".
ScanSecondStart ==
    /\ Scanning /\ SeesStart /\ found_start
    /\ pc' = "failure"
    /\ UNCHANGED <<file, medium, pos, base, read_start, n, i, scanVars, last>>

\* One turn of the search loop.
ScanByte ==
    /\ Scanning /\ ~(SeesStart /\ found_start)
    /\ IF SeesStart THEN found_start' = TRUE /\ start_index' = i
                    ELSE UNCHANGED <<found_start, start_index>>
    /\ IF SeesEnd THEN found_end' = TRUE /\ end_index' = i
                  ELSE UNCHANGED <<found_end, end_index>>
    /\ i' = i + 1
    /\ UNCHANGED <<pc, file, medium, pos, base, read_start, n, last>>

\* The loop is over: send what was found, or "Malformed or too long SysEx".
ScanOver ==
    /\ pc = "scan" /\ ~Scanning
    /\ pc' = IF found_start /\ found_end THEN "send" ELSE "failure"
    /\ UNCHANGED <<file, medium, pos, base, read_start, n, i, scanVars, last>>

\* mididev_send_bytes(fbuf + start_index, ...); its result is not looked at.
Send ==
    /\ pc = "send"
    /\ last' = [first |-> base + start_index, final |-> base + end_index]
    /\ pc' = "seek"
    /\ UNCHANGED <<file, medium, pos, base, read_start, n, i, scanVars>>

\* Mutants of the next two definitions: resuming at the message just sent or
\* one byte late, stopping whenever the buffer came back short, and never.
ResumeAtMessage == read_start + start_index
ResumeLate == read_start + end_index + 2
EndOfFileShort == n < BufSize
EndOfFileNever == FALSE

\* Where the next lap starts, and the test that there is none: the message
\* ended where the buffer did.
Resume == read_start + end_index + 1
EndOfFile == Resume = Tell(pos)

\* The foot of a lap. fseek() has no effect on a pipe; its result is ignored.
SeekNext ==
    /\ pc = "seek"
    /\ IF EndOfFile
       THEN pc' = "success" /\ UNCHANGED pos
       ELSE pc' = "read" /\ pos' = IF seekable THEN Resume ELSE pos
    /\ UNCHANGED <<file, medium, base, read_start, n, i, scanVars, last>>

NextPlayer ==
    \/ Open \/ ReadBuffer \/ ScanSecondStart \/ ScanByte
    \/ ScanOver \/ Send \/ SeekNext

SafePlayer == InitPlayer /\ [][NextPlayer]_playerVars

\* The program is sequential and no step blocks: a step that can be taken is
\* eventually taken.
SpecPlayer == SafePlayer /\ WF_playerVars(NextPlayer)

-----------------------------------------------------------------------------
Ended == pc \in {"success", "failure", "unopened"}

\* Types and ranges of the reader's variables (main's locals at
\* mt32-pi.c:379-396).
TypeOK ==
    /\ file \in Files /\ seekable \in BOOLEAN /\ faulty \in BOOLEAN
    /\ pc \in {"open", "unopened", "read", "scan", "send", "seek", "success",
               "failure"}
    /\ base \in 0 .. Len(file) /\ pos \in 0 .. Len(file)
    /\ read_start \in {-1} \cup (0 .. Len(file))
    /\ n \in 0 .. BufSize /\ i \in 0 .. n
    /\ found_start \in BOOLEAN /\ found_end \in BOOLEAN
    /\ start_index \in 0 .. BufSize /\ end_index \in 0 .. BufSize
    /\ last \in [first : -1 .. Len(file), final : -1 .. Len(file)]

\* The bytes handed to the MIDI backend are exactly one SysEx message of the
\* file, whatever the buffer boundaries cut (mt32-pi.c:404-432).
SendsWholeMessage ==
    pc = "send" => IsMessage(file, base + start_index, base + end_index)

\* Messages go out in file order and none goes out twice, even from a pipe and
\* when reads fail (mt32-pi.c:435-437).
InFileOrder == [][pc = "send" => last'.first > last.final]_playerVars

\* On a file that can be sought the player is the abstract stream: each message
\* sent is the next one of the file, so a seek never skips one. What it makes of
\* a pipe the stream does not say (InFileOrder does).
Stream == INSTANCE SysExStream WITH
    last   <- IF seekable THEN last ELSE NoMessage,
    status <- IF ~seekable \/ ~Ended THEN "playing"
              ELSE IF pc = "success" THEN "success" ELSE "failure"
PlaysStream == Stream!Spec

\* A file of back-to-back messages that each fit the buffer.
WellFormed(f) ==
    /\ Len(f) > 0 /\ f[1] = F0
    /\ \A k \in 1 .. Len(f) : f[k] = F7 <=> (k = Len(f) \/ f[k + 1] = F0)
    /\ \A k \in 1 .. Len(f) :
          f[k] = F0 => \E e \in k + 1 .. k + BufSize - 1 : e <= Len(f) /\ f[e] = F7

\* Once it is open, such a file is never rejected, wherever the boundaries of
\* the buffer fall: not in the middle of it, and not for the empty read that
\* would follow its last message (mt32-pi.c:427-436).
AcceptsWellFormed ==
    pc = "failure" /\ seekable /\ ~faulty => ~WellFormed(file)

\* Success is reported with bytes of the file unread only when a message ends
\* in the last byte of the buffer, which the test at mt32-pi.c:435 takes for
\* the end of the file.
StopsShortOnlyAtBufferEnd ==
    pc = "success" /\ ~faulty =>
        last.final + 1 = Len(file) \/ end_index = BufSize - 1

\* README.md:34, "Can send SYX-files of any length containing any number of
\* SysEx messages": success means that every message of the file was sent.
SuccessMeansAllSent ==
    pc = "success" /\ ~faulty =>
        \A s, e \in Offsets(file) : IsMessage(file, s, e) => e <= last.final

\* Playing comes to an end: every lap leaves the message it sent behind.
Terminates == <>Ended
=============================================================================
