# A verification project for mt32-pi-control

mt32-pi-control is a command line program for DOS, the Atari ST, the Amiga,
Linux and Windows. It takes options, turns them into MIDI messages and sends
them to an mt32-pi synthesizer. This directory models it in TLA+, checks the
models with TLC and proves theorems about them with TLAPS. All paths below are
relative to the root of the repository, without the leading `src/`.

## 1. The system

| part | source | state | operations |
|---|---|---|---|
| session | `common_src/mt32-pi.c`, `main` | one static variable per option; `custom_midi_buf/len`; the shared `sysexbuf` | take an option, stages from `-r` to `-Y`, early returns |
| SYX player | `mt32-pi.c:377-440` | stream position, `fbuf[512]`, indices of the message found | open, read, scan, send, seek |
| SysEx encoders | `mt32-pi.c:447-615`, `miniwift.h` | `sysexbuf` | texts, bitmap, bitmap text, checksum |
| option parser | `common_src/getopt.c` (DOS, Amiga, Atari) | `optind`, `place`, `nonopt_start/end`, the order of `argv` | `getopt_long` |
| back end interface | `common_src/midi_dev.h` | | init, deinit, send, parse_arg |
| MPU-401 driver, DOS back end | `dos_src/MPU401.C`, `dos_src/midi_dev.c` | none but the port address: the state is in the hardware | reset, UART mode, send bytes |
| Linux back end | `linux_src/midi_dev.c` | sequencer handle, port, destination, buffer of a SysEx message | init with 4 steps, send by event type |
| Amiga back end | `amiga_src/midi_dev.c` | port, I/O request, library, node, link | two transports |
| Windows back end | `win32_src/midi_dev.c` | handle, buffer and header of a SysEx message | asynchronous long messages |
| Atari back end | `atari_src/midi_dev.c` | none | `Midiws` |
| delays | `*/delay.c` | DOS: timer vector, divisor, counters; Atari: Timer A, ticks; Linux: remaining time | `delay_ms` |

**How the parts interact.** `main` calls `getopt_long` until the options are
used up, then `mididev_init`, then a fixed list of stages that build a message
and call `mididev_send_bytes`, some of them followed by `delay_ms`, then
`mididev_deinit`. The results of a send and of a deinit are never looked at. The
program is sequential; what runs beside it is outside: the interface hardware,
timer interrupts and their handlers (DOS, Atari), signals (Linux), the driver of
the sound system (Windows), the medium of a SYX file, and the synthesizer,
which needs time to boot.

**What is hard about it**

* *SYX player*: messages and the boundaries of the 512 byte buffer fall
  anywhere; the position is calculated, sought and compared; reads come back
  short. Correct when what is sent is whole messages, each the next one of the
  file, and when success means that the file was sent.
* *MPU-401*: the program polls a device that answers late or never, that has a
  FIFO, that may send on its own, and whose reset drops what is not yet sent.
  Correct when no byte is lost, when the reset at the end cuts off no more than the
  wait before it leaves, and when every call returns.
* *Session*: options in any order, repeated or faulty; failures at five places behind init.
  Correct when exactly what was asked for is sent in the one right order, when
  the synthesizer ends up as asked, and when the back end is released.
* *Back ends*: each of several allocations may fail; the messages are converted
  or handed to an asynchronous driver. Correct when what stays allocated is known, no
  memory is used after it was given back, and a message goes out at most once, and
  unchanged.
* *Delays*: an interrupt may come between any two statements; a signal may come
  any number of times. Correct when the delay is long enough, ends, and leaves
  the machine as it found it.
* *Option parser*: arguments are moved while they are read, block by block and
  over several calls; short options of main and of the back end share one string.
  Correct when main sees what it would see if nothing were moved, and when every
  word is still there, once, in the end.
* *Encoders*: lengths at their limit, pictures cut into columns of five pixels,
  one buffer for all messages. Correct when the displays show, pixel by pixel,
  what was asked for, and when every message is one they accept, or else can be
  accepted by none.

The full list of hazards, each at its line, is in `PROJECT.json`.

## 2. The modules

```
SysExBytes --> SysExStream (abstract)     MidiOut (abstract)     Session --> SessionProofs
     |              ^                         ^                              |
     +--------> SyxPlayer                  Mpu401                            v
                    |                         |                     SessionAskedProofs
             SyxPlayerProofs             Mpu401Proofs

DelayCall --> DosDelay AtariDelay LinuxDelay AmigaDelay       MidiBytes --> MidiBackend
                 +---------+---v------+----------+                              |
                             Delays  -->  Delay (abstract)                      v
                                                AlsaBackend AmigaBackend WinBackend AtariBackend
                                                     +-----------+---v-------+---------+
                                                                Backends --> MidiDev (abstract)
                                                                    |
                                                              BackendsProofs
```

```
OptionWords --> CommandLine (abstract)        DisplaySysEx --> Display --> DisplayProofs
     |             ^
     +--------> GetOpt --> GetOptProofs       Delays --> DelaysProofs
                   ^
        OptionTables (MCGetOpt)
```

An arrow to an abstract module is a refinement: the detailed module
instantiates the abstract one and its specification is checked as a property.
`MC*` modules and configurations give the constants their values for TLC. Beside
the definition of a step a module may hold a variant of it, marked *mutant* in
its comment: a plausible bug, used to see that the properties notice it. No
specification uses a mutant.

### SysExBytes, SysExStream, SyxPlayer

`SyxPlayer` is the `-Y` stage. The contents of `fbuf` are not stored: `fbuf[k]`
is the byte at offset `base + k` of the file. Bytes are `F0`, `F7` or data. `pc`
follows one lap: `ReadBuffer` (393-404), `ScanByte` and `ScanSecondStart` (the
`for` loop), `ScanOver` (427-431), `Send` (432-434), `SeekNext` (435-437).
Any file may be a pipe (`seekable` is false: `ftell` returns -1 and `fseek` does
nothing), and on a `faulty` medium `fread` may come back short. `SysExStream` says
what the user is promised: the next message of the file, whole, until success or
failure.

### MidiOut, Mpu401

`Mpu401` has one action per port access or clock reading, so that time (`Tick`)
and input (`MidiIn`) can fall between any two. The unit of time is what the
interface takes to send a byte, 320 us. The interface (external) has a FIFO of
`FifoSize`, executes a reset in up to `ResetTime` and the switch to UART mode
in up to `SwitchTime`, does not have to acknowledge, and keeps its state when
the program ends: `Die` is `abort()` or a break at any point, after which the
program may be started again. `clock()` advances in steps of `ClockStep` from an
unknown phase: on a PC a step (55 ms) is longer than the 25 ms the driver waits
behind a message, so the wait ends with the first step. `Cards` says what sits at
the port: an interface (`"mpu"`), one that takes no output while its input is unread
(`"strict"`, `MPU401.C:79`), nothing (`"absent"`, reads 0xFF), or something that
reads 0 (`"low"`). `MidiOut` is what a caller may believe: while the interface is
open every byte is put in flight and none is dropped, and a send returns with at most
`Left` bytes still in flight, which closing it may cut off. `LeftBehind` is what the
shortest possible wait leaves in a full FIFO.

### Session

`Session` is `main`. An option is a record of its name and argument. The actions
`Take...` are the branches of the option loop with all they store, and the early
returns. Then `stage` walks through `Stages`, the list of `if` blocks in their
order; `Wanted` is the condition of a block and `Message` what it sends. The
SYX stage is a loop of sends that `SyxPlayer` settles in detail; texts and
pictures are one message each. Of an `-M` the tokens before the first that is no
number are `Stored`, as far as there is room; what the loop writes behind them before
it finds that out (`ByteOf`: a 0 for no number, an empty argument or a blank at the
end) is in the buffer too. A text or a name of no characters is as good as none.
Numbers are any `int`s; `AsByte` is what reaches the message. `synth` is the mt32-pi:
its settings, and whether it is booting, when it ignores what arrives; numbers above
127 do not get through to it. A send may be lost without `main` knowing (`Lossy`).

### MidiDev, MidiBackend, the back ends, and Backends

`MidiDev` is the promise of `midi_dev.h`: between init and deinit a message goes
out at most once, whole and unchanged if it is one the build carries (`Carries`, of
each back end), and a call that reports a failure has sent nothing. `AlsaBackend`, `AmigaBackend`, `WinBackend` and `AtariBackend`
are the four back ends on top of an operating system, with every failure of a
call they make; `MidiBackend` is what they share: the calls of `main`, the set
`held` of what is allocated or open, and the messages that went out. A build of
the program has one of them, so `Backends` composes them with the variable
`platform` and states the properties once for all. What the system does with
what it is given (the sequencer's conversion of events to bytes, `PutSysEx`
stopping at the first end, what the drivers of Windows and camd make of a double word
or a `MidiMsg`, the driver playing from the buffer, `Midiws` sending
one byte more than its argument) is external and modelled from the way it is
used; a driver may take data bytes as they are or with seven bits. The messages are
any sequences of bytes, since `-M` passes on what it is given. The fifth back end, DOS, is `Mpu401`.

`AmigaBackend` models the serial transport as `midi_dev.c` implements it.
`main` takes `-S` for itself (`mt32-pi.c:124`, where the string of the back end
is appended behind `S:`), so that in the program as built the option does not
reach the back end: `OptionTables` has the string, and `Negative` shows it.

### OptionWords, CommandLine, OptionTables, GetOpt

`GetOpt` is `getopt_long` as `main` calls it, from its first call to the last.
A word is its letters, behind a `-` or not, and perhaps a long name and a value;
`OptionWords` says what is an option and what one option makes of the words
behind it: the option returned, its argument, how many words it took and what is
left of its own (`parse_long_options`, and the second half of
`getopt_internal`). `Beginnings` stands for `strncmp`: of which long names is
this one a beginning. `GetOpt` is the first half: the pointer `optind`, the block
of operands from `nonopt_start` to `nonopt_end`, and `permute_args`, cycle by
cycle as in the code: `NextPos` is one round of its inner loop, `Cycle` the
positions it visits, `SourceOf` where the word at an index comes from in the end. `CommandLine` is the reading a user expects: word by
word, nothing moved. DOS, Amiga and Atari build `getopt.c`; Linux and Windows
use the one of their C library, which is not part of this.

### DisplaySysEx, Display

`DisplaySysEx` holds the encoders as operators on the buffer of 74 bytes,
`Display` the four stages of `main` that use them, in their order. The checksum
is the running sum of the code, reduced to seven bits at each step, while what a
display expects of a message (`Taken`) is a sum over all of its bytes, and data bytes
of seven bits. A text is a sequence of character codes from 1 to 255, a file a
sequence of bytes. The checks on a bitmap (`Usable`) are those of the code, which
looks at the lowest byte of the pixels' offset; on a
`faulty` medium a read may fail or come back short, and then the rest of `fbuf`
is what the stack held (`Leftovers`). `Shown` is external: what an MT-32 or SC-55
makes of a message, byte by byte and pixel by pixel, which is `Nothing` if it does not
take it. It is written independently
of the encoders, and so are `Asked`, what the user wants to see, and `Wanted`, of
which messages and in which order. What a bitmap asks for (`InBitmap`, `Good`) goes by
the four bytes that a BMP has for the offset. The glyphs of
`miniwift.h` are a constant; the run has eight characters.

### Delay, DelayCall, the delays, and Delays

`Delay` is the promise: `delay_ms` returns, and not before the time it must wait
has passed. `DosDelay` and `AtariDelay` have one action per statement and the
timer interrupt as an action of the hardware in between; the handler itself runs
to its end. On DOS the interrupt controller delivers none until the end of the last
one was signalled (`pic_busy`, `Eoi`), on the Atari none that is in service; the
Atari's timer may be found running, with its interrupt on, pending or not
acknowledged. `LinuxDelay` adds signals, `AmigaDelay` the phase of the system tick
and a DOS library that could not be opened. `DelayCall` is what they share, the
call and the time since; `Delays` composes them as `Backends` does. `Want` is
what each must wait: on DOS a period of the timer less, since an interrupt that
was latched before the timer is taken over counts as the first.

Assumptions on the environment that a reader should know: the DOS call that sets
an interrupt vector returns with interrupts off, as `_disable()` left them; the
loop that waits for `ticks` looks more often than once a period, so that it ends
before the next tick; delays are whole ticks of 20 ms, as the 100 and 5000 ms of
`main` and the drivers are, so that the division in `amiga_src/delay.c:20` has nothing
to round; the kernel, `Delay()` and `Sleep()` never end a sleep
early.

## 3. What TLC checks

Runs that pass:

| run | distinct states | what it shows |
|---|---|---|
| `SyxPlayer` | 263 thousand | all files of up to 7 bytes, buffer of 4: 3279 files, so every way in which up to three messages and junk meet the buffer's boundaries; each also as a pipe and with short reads |
| `Mpu401` | 159 thousand | each of the four `Cards`; a FIFO of 2 and messages of 1 and 3 bytes, so a message can exceed the FIFO; a clock step of 3 to a wait of 2, so the step is the longer one as on a PC; resets that are not acknowledged, or late; input at any time; repeated runs |
| `Session` | 1.06 million | all command lines of up to three of 35 options, each failure; numbers below 0, above 127 and above 255, and lists for `-M` that are empty, too long or end in no number |
| `Delays` | 32 thousand | delays of 4 and 8 periods, 3 periods in one of the DOS clock, up to 2 signals, a tick of 4; repeated, from every initial state of the hardware |
| `Backends` | 29 thousand | every failure, any number of sends of which two get out, messages of each kind, malformed ones, two SysEx messages in one, data bytes above 127 and bends |
| `GetOpt` | 29 thousand | the tables of the Amiga build; all lines of one or two of 21 words (clusters, long names in full, abbreviated, ambiguous and in the middle of a word, missing and unwanted arguments, `-`, `--`), and all of up to five of the words that are moved past each other: blocks of up to four, several moves in one line; with and without `POSIXLY_CORRECT` |
| `Display` | 4 thousand | texts from empty to longer than the limit, with checksums of zero and characters above 127 among them; bitmaps good and bad by one byte, with offsets below and above 256; bitmap texts of 1, 5, 8 and 9 characters in and outside the font; pictures after texts through the same buffer |

*Why the bounds are enough.* In the player a lap depends on where the next
message starts and ends relative to the buffer; with a buffer of 4 a message can
be shorter, as long as and longer than it, and end anywhere in it. In the driver
the relations between constants matter, not their size: message longer and
shorter than the FIFO, the step of the clock longer than the wait behind a message,
the wait of init longer than the switch to UART mode; that of two bytes in the FIFO
one may be left behind is what the wait of at least one unit comes to. In the session each variable is set by one
option and read by one stage; three options cover each pair of settings next to
a fault, a reboot or a failure. `MidiBufSize` is 3 instead of 64 so that a list
can fill it. In the parser, two blocks of lengths 1 to 4 are exchanged, with
greatest common divisors of 1 and 2; what an option takes depends on its own word
and the next, so two words of each kind show it. In `Delays` time is told apart
up to `WaitedCap`, which lies beyond every delay and a tick. The proofs of
section 4 remove the bounds for what they cover.

*Fairness.* A sequential program whose statements do not block goes on: weak
fairness on the steps of the program. Time passes: weak fairness on `Tick` and
`TimePasses`. An interrupt that is enabled and pending is delivered; the sound
driver plays what it accepted; signals come to an end (`SignalLimit`). Nothing
is assumed of calls (a next option, another send, another run), of failures, of
input, or of an interface's acknowledgement; `CallsReturn` says of itself that a
call may last as long as the input does, and on a port that reads 0 in one loop.

*Deadlock.* Runs of programs that end (the player, the session, the back ends,
the parser, the displays)
and `Mpu401`, which lets nothing happen at a port without an interface once the
bounds are reached, do not check for deadlock; `Delays` does.

Runs that show a disagreement between the code and what is said of it:

| run | property | disagreement |
|---|---|---|
| `SyxShort` | `SuccessMeansAllSent` | a message that ends in the last byte of the buffer is taken for the end of the file (`mt32-pi.c:435`), against "SYX-files of any length" (`README.md:34`) |
| `MpuClock` | `ResetNeverTruncates` | the 25 ms wait ends at the first step of the clock (`MPU401.C:137`), against the comment above it |
| `SessionMidi` | `MidiAsGiven` | two `-M` do not add up (`mt32-pi.c:189`) |
| `AlsaBend` | `BytesAsGiven` | the value of a pitch bend in eight bits (`linux_src/midi_dev.c:120`) |
| `Negative` | `FlagsTakeNothing` | `--negative` wants an argument (`mt32-pi.c:118`), against `mt32-pi.c:654`; so does the Amiga's `-S`, which is main's (`mt32-pi.c:124`), against `amiga_src/midi_dev.c:171` |

What a build does not carry unchanged `Carries` names, back end by back end: pitch
bends on Linux but for a few near the centre; data bytes above 127 on Linux, on Windows
and over camd; messages with an end in the middle over camd; and channel messages of a
length that is not theirs on Windows and over camd. `KeepsPromise` still says of
these that they go out at most once, and not if the call reports a failure.

Further disagreements met while modelling, which no run is about:

* `amiga_src/midi_dev.c:65` returns `false`, which is 0, when the serial device
  does not open, and `main` takes that for success; a failing init of the Amiga
  gives back nothing of what it has got by then. `HoldsWhatItUses` names both exceptions.
* The Amiga and Atari back ends refuse a message of two bytes, such as a program
  change, with "Non-SysEx message with more than 3 bytes"
  (`amiga_src/midi_dev.c:163`, `atari_src/midi_dev.c:29`).
* `MPU401.H:48` says that the reset returns; at a port that always reads as having
  a byte (`"low"`), `mpu401_flush` (`MPU401.C:47`) does not end. `CallsReturn` says that
  nothing else keeps a call there.
* The Linux back end takes a call for one message, so the example of
  `README.md:140`, two program changes in one `-M`, is refused there
  (`linux_src/midi_dev.c:111`), and the program reports success.
* Of two SysEx messages in one `-M` only the first goes out over `camd.library`,
  without an error (`amiga_src/midi_dev.c:152`); `Carries` leaves them out.
* The checksum of a message whose bytes add up to a multiple of 128 is 0x80
  (`mt32-pi.c:614`), which is no data byte, so the display drops the message.
  `DropsOnlyUnsendable` says that this and the next are the only ones it drops.
* A text with characters above 127 puts bytes into the message that are no data
  bytes (`mt32-pi.c:456, 475`), and the display drops it; `Sendable` names these.
* A BMP has its pixels' offset in four bytes, of which the lowest one is read
  (`mt32-pi.c:513-514`): of a bitmap with an offset above 255 another part of the file
  is displayed. `CanShow` excepts its picture, and nothing else.
* A bitmap at fault ends the program with `abort()` (`mt32-pi.c:498`) while the
  back end is open.
* A SoundFont number above 127 is no data byte (`mt32-pi.c:300`), while the zsh
  completion (`linux_src/completion_scripts/mt32-pi-ctl.zsh:19`) offers 0 to 255.
  `SynthAsAsked` says that it changes nothing, and that of 300 the lowest byte counts.
* The name that `-p` copies on Linux (`linux_src/midi_dev.c:168`) is not freed by
  `mididev_deinit`; `HoldsWhatItUses` calls it `Kept`.

## 4. What is proved

| theorem | module | says |
|---|---|---|
| `TypeCorrect`, `AlwaysWholeMessage`, `AlwaysInFileOrder`, `AlwaysStopsShortOnlyAtBufferEnd`, `AlwaysAcceptsWellFormed` | `SyxPlayerProofs` | the safety properties of the player, for every set of files and every size of the buffer, pipes and short reads included |
| `ImplementsStream` | `SyxPlayerProofs` | if the file is no pipe, the player implements `SysExStream` |
| `TypeCorrect`, `EmptyPortLeftAlone`, `ResetDropsAtMost` | `Mpu401Proofs` | the safety properties of the driver, for every FIFO, clock and wait, whatever sits at the port |
| `NoByteIsLost` | `Mpu401Proofs` | no byte is lost while the driver is open, if the 100 ms of `mididev_init` cover the switch to UART mode |
| `ImplementsMidiOut` | `Mpu401Proofs` | under the same condition the driver implements `MidiOut` |
| `AlwaysBlocksInOrder` | `GetOptProofs` | `getopt_long` stays within `argv` and never exchanges an empty block, for every command line and every table of options |
| `AlwaysOptionsFirst` | `GetOptProofs` | in the end `argv` holds every word once, what was read in front, both parts in their old order |
| `AlwaysReadsAsWritten` | `GetOptProofs` | `getopt_long` implements `CommandLine` |
| `AlwaysDosTypeOK`, `AlwaysSpeedFits`, `AlwaysDosClockRate`, `AlwaysSleepsNoLonger`, `AlwaysNotMuchLonger`, `AlwaysSilentOutside` | `DelaysProofs` | the safety properties of the delays, for every length of delay, period, second and tick |
| `AlwaysWaitsLongEnough` | `DelaysProofs` | the delay of each platform implements `Delay` |
| `AlwaysHoldsWhatItUses`, `AlwaysPlaysFromLiveBuffer` | `BackendsProofs` | what each back end holds, for every set of messages and any number of sends |
| `AlwaysKeepsPromise` | `BackendsProofs` | every back end implements `MidiDev`, for every set of messages of any bytes |
| `AlwaysReleased`, `AlwaysFaultySendsNothing`, `AlwaysSettingsFirst` | `SessionProofs` | for every set of options and every length of the command line |
| `AlwaysTypeOK` | `SessionAskedProofs` | the types and ranges of main's variables |
| `AlwaysSendsWhatWasAsked`, `AlwaysSynthAsAsked` | `SessionAskedProofs` | what a successful run sends, and what the synthesizer ends up with, for every set of options |
| `AlwaysDropsOnlyUnsendable` | `DisplayProofs` | the displays drop a message exactly if its text or its checksum is not of seven bits; for all texts, all files, every short read and every font |
| `AlwaysShowsWhatWasAsked` | `DisplayProofs` | texts and pictures are shown as asked for, pixel by pixel, where a message can carry them and the bitmap's medium and its offset (below 256) allow it, and the program stops early only at a bitmap that is not good or on a failing medium |

*The player.* The inductive invariant says, beside types, what the scan has seen:
no message byte of interest before `start_index` while none was found, no second
start and no end between the start and `i`, and that `base`, `read_start` and
`pos` belong together. For `ImplementsStream` it also says that nothing between
the message sent last and the place where the lap began starts a message; for
`AlwaysAcceptsWellFormed` that each lap of a well-formed file begins at the start
of a message, and that there is one: the lap before would have ended the playing.

*The driver.* `ResetDropsLittle` is not inductive: it needs to be known how
much time has passed for how many bytes. The invariant therefore relates the two
wherever the driver waits: while it settles, `fifo + elapsed <= FifoSize` or the
FIFO is empty; while it initialises, the switch to UART mode has at most
`SwitchTime - elapsed` to go. `SettlesAfter` says how much time has passed at least
when the clock shows `Settle` more, wherever in its step the wait began. The clock,
the wait and the FIFO are any: with a fine clock and a long wait `LeftBehind` is
nothing, on a PC all but one byte time, which `MpuClock` shows to be real. `NoByteIsLost` and
`ImplementsMidiOut` assume `SwitchesInTime`, that the 100 ms of `mididev_init` cover
the switch; nothing tells the driver when it is over.

*The session.* `OpenInv` ties the back end to the place in `main`; `FaultInv`
says that up to the first stage nothing was sent and that a fault ends the
program at once; `OrderInv` says that up to the fifth stage only the reboot
message and settings were sent, and that before the first stage nothing was.

What a run sends is three invariants, each on top of the one before. `TypeInv` adds
to `TypeOK` that `opt` is a function on all kinds of options. `OptInv` says, of a
program that has not failed, that each variable of `main` has what the last option
of its kind gave it (`OptSays`), and that of a single `-M` the buffer holds the
bytes and the counter their number (`MidiSays`). `SentInv` says which kinds of
message were sent: exactly those whose stage was reached and whose condition holds,
each once (but the SYX messages), and with the value of `Message`. `Reached` is the
part that makes it inductive: between `Reboot` and `RebootDelay` the message is out
while `stage` still points at it. At the end every stage was reached. `SynthInv`
says that each setting of the mt32-pi has the value of its stage once that was
reached, before that the default if a reboot was reached, and what it was otherwise,
and that it boots exactly while `main` waits: a setting sent to a booting mt32-pi
would be ignored. A number is what its lowest byte
is (`AsByte`), and one that is no data byte changes nothing; `TypeOK` and the theorems
make no assumption on the options but that a number is an `int` and that behind `-M` is a
list (`OptionsAssumption`).

*The option parser.* `BlocksInOrder` is inductive once `argv` is known to stay a
sequence of its length, which is what `PermuteKeepsLength` says of
`permute_args`. That a block is not empty when it is exchanged needs its last
conjunct: a block that was closed ends before `optind` as soon as the option
behind it is done.

The other two need to know what `permute_args` does for blocks of any lengths.
`GcdIs` shows that Euclid's algorithm finds the least positive sum of multiples
of the two lengths; so it divides both (`Divided`). `CycleIs` shows where cycle `i`
is after `j` rounds: `i + j * nopts` behind the end of the first block, modulo the
length of both. With the two multiples at hand, `Reached` names for every position
the cycle that comes by it, and the round, which is one of those the code makes.
`SourceIs` concludes that the word at an index comes from where an exchange of the
two blocks takes it from. The invariant `PartsInv` then says that there is a map
from the indices of `argv` to those of the command line that tells where each word
was, that meets every word once, and that is in order on what was read, on the
block, and on what is still ahead (`TwoParts`); that what was read are options and
words behind one; that the word at `place` is an option (`InWord`); and that there
is no block under `POSIXLY_CORRECT`. `NextReads` shows that with it every step is
one of `CommandLine`'s, or leaves what it sees alone: the move of a block changes
neither the words ahead nor the operands passed (`BlockMoves`).

*The displays.* The buffer is shared, but each encoder clears what it
sends first, so nothing of what was in it before is needed: `Contents` says byte by
byte what a message built from a header and data consists of. That its checksum is
right is a statement about two running sums, the one of the code that is reduced
to seven bits at each step and the plain one; `ClosedMessage` concludes that such a
message is taken exactly if its data are of seven bits and the sum is no multiple of
128. `ShownInv` says that what was sent so
far shows the messages of `Wanted` up to the present stage (`SoFar`). `PixelShown`
is the heart of it: the pixel `x` of a row is bit `7 - x % 8` of one of two bytes in
a bitmap and bit `4 - x % 5` of one of four in the message, inverted in both or in
neither; `BitmapRows` and `TextRows` say which byte of a file or which half of a
byte of the font it comes from. `OffsetIs` says that the byte the code reads is the
offset of a file whose offset is below 256, and `GoodIsUsable` that a good bitmap passes
the checks of the code, whatever its offset. The proofs assume what `AsksAssumption`,
`LeftoversAssumption` and `FontAssumption` say: texts of the characters 1 to 255,
files and a font of bytes, short reads of two bytes or more.

*Induction.* Running sums, the rounds of a cycle and Euclid's algorithm are recursive
functions, and the proofs about them go by the least counterexample: a set of
natural numbers that is not empty has a least element (`WFMin` of the library, for
`<` on `Nat`), which needs no operator as a parameter. The same gives the existence
of these functions (`StepByStep`, `EuclidEnds`), without which their recursive
equations could not be used.

*The delays.* Each platform has an invariant that ties the place in `delay_ms` to
the machine, and the count so far to the time since the call: on the Atari and
on DOS, `Period` for every tick counted or latched, less what the counter has
still to run; on Linux, what was slept and what is left, wherever that is kept
at the moment (the kernel, `tr`, or `ts`), add up to the delay; on the Amiga, the
ticks to come and the rest of the present one. On DOS the invariant is also a
table of which handler and which speed belong to which statement, and that
interrupts are off where the two do not fit. The proofs assume what `DelayCall`
states: delays that are multiples of a tick, and a bound on `waited` beyond them.

*The back ends.* `HoldsInv` lists what each one holds at every place of its code;
that the driver of Windows plays only where the program waits is part of it.
`CallInv` says that a message is under way exactly between a call and its return,
that it is not out before it is transmitted, and that what the back end works on
(the event, the copy, the count) was made of it. With it every step of a back end
is one of seven (`Step`), and each of these is one of `MidiDev` or leaves it alone.
`AlsaBytes`, `MidiMsgBytes`, `DWordBytes` and `AtariBytes` say that the conversions on
the way (an event, a `MidiMsg`, a double word taken apart by division, a count less one)
give back the bytes of a message that `Carries` names.

*Only model-checked*: liveness, which the prover cannot do under fairness:
`Terminates` of the player, the session and the parser, `CallsReturn` of the
driver, `Returns` and `DosClockKeepsGoing` of the delays, `SendReturns` of the back
ends. Every invariant and every action property or refinement of a run that passes
is proved; the violations of the other runs are counterexamples.

## 5. Not modelled, and the plan

Not modelled: usage and error texts; the version string; `file_io.h`, which no
source file includes, and the default delay of `delay.h`, which every build
replaces; the Windows delay, one call of `Sleep`; the completion scripts and
build files.

The `getopt_long` of Linux and Windows is their C library's. Of `getopt.c` the
entries `getopt` and `getopt_long_only`, the option strings that begin with `+`,
`-` or `:`, `W;` and optional arguments are used by nothing in the program and
are left out. The glyphs of `miniwift.h` are data.

Done, in this order: the SYX player; the MPU-401 driver; the session; the delays;
the back ends; the option parser; the displays; and a proof of every safety
property of each, the refinements included.

Next: the stages of `Session` that display something are one message each, which
`Display` settles in detail; a theorem that `Display` implements those stages would
tie the two together, as would one for `SyxPlayer` and the SYX stage.
