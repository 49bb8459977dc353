------------------------------- MODULE Session -------------------------------
(***************************************************************************)
(* One run of the program, main() of mt32-pi.c: the options are taken one  *)
(* by one, then the back end is initialised, then a fixed list of stages   *)
(* sends what the options asked for, then the back end is released.        *)
(*                                                                         *)
(* The back end may refuse to initialise and may lose a message, which     *)
(* main() never learns: it does not look at mididev_send_bytes()'s result. *)
(* At the other end of the cable sits the mt32-pi, which is external.      *)
(***************************************************************************)
EXTENDS Integers, Sequences, FiniteSets

CONSTANTS Options,      \* what may be given: records [opt, arg]
          MaxOptions,   \* bound: how many options a command line has
          MidiBufSize,  \* sizeof custom_midi_buf
          MaxSyx,       \* bound: messages in a SYX file
          Lossy         \* may the back end lose a message?

ASSUME BoundsAssumption ==
    MaxOptions \in Nat /\ MidiBufSize \in Nat \ {0} /\ MaxSyx \in Nat
ASSUME LossyAssumption == Lossy \in BOOLEAN

VARIABLES pc,         \* "parse", "init", "stages", "rebooting", "playing", "ended"
          given,      \* the options taken so far
          opt,        \* main's static variables
          midi_buf, midi_len,
          stage,      \* the stage main is at
          port,       \* "closed" or "open": between mididev_init and _deinit
          outcome,    \* "none", "success", "failure", "usage", "listed", "aborted"
          played,     \* messages of the SYX file sent
          sent,       \* messages handed to the back end
          lost,       \* did the back end lose one?
          synth       \* the mt32-pi: settings, and whether it is booting

parseVars == <<given, opt, midi_buf, midi_len>>
vars == <<pc, parseVars, stage, port, outcome, played, sent, lost, synth>>

-----------------------------------------------------------------------------
(* The mt32-pi. *)

Numbers  == {"soundfont", "mt32-rstereo"}
Settings == {"mode", "romset"} \cup Numbers

\* Its settings before the run, and after it has booted.
Before(k)  == IF k \in Numbers THEN -1 ELSE "before"
Default(k) == IF k \in Numbers THEN -2 ELSE "default"

\* It ignores what arrives while it boots, and a number that is no MIDI data
\* byte does not get through to it.
Boots == [s \in Settings \cup {"booting"} |-> IF s = "booting" THEN TRUE ELSE Default(s)]
Applied(m) ==
    IF synth.booting THEN synth
    ELSE IF m.kind = "reboot" THEN Boots
    ELSE IF m.kind \in Settings /\ (m.kind \in Numbers => m.val < 128)
         THEN [synth EXCEPT ![m.kind] = m.val]
    ELSE synth

\* mididev_send_bytes(): the message arrives, or is lost unnoticed.
SendMessage(m) ==
    /\ sent' = Append(sent, m)
    /\ \/ synth' = Applied(m) /\ UNCHANGED lost
       \/ Lossy /\ lost' = TRUE /\ UNCHANGED synth

-----------------------------------------------------------------------------
(* Taking options. *)

\* What is behind an option: -m and -g are two values of one, strtol() makes an
\* int, and -M has a list of tokens, the last of which is no number if there is
\* anything behind the last number, be it a blank.
ASSUME OptionsAssumption ==
    \A o \in Options :
        /\ o.opt = "mode" => o.arg \in {"munt", "fluid"}
        /\ o.opt \in Numbers => o.arg \in Int
        /\ o.opt = "midi" => o.arg \in Seq(Int)

Flags == {"reboot", "mt32-reset", "gm-reset", "gs-reset", "negative", "verbose"}
Texts == {"mt32-txt", "sc55-txt", "sc55-btxt"}
Files == {"sc55-bmp", "syx"}
Romsets == {"old", "new", "cm32l"}

\* What follows the last option: the back end.  "mt32-pi-ctl" alone prints the
\* usage and ends: a failure, but on the Atari a success (NO_ERROR_ON_HELP).
EndOfOptions ==
    /\ pc = "parse"
    /\ \/ pc' = "init" /\ UNCHANGED outcome
       \/ given = <<>> /\ pc' = "ended" /\ outcome' = "usage"
    /\ UNCHANGED <<parseVars, stage, port, played, sent, lost, synth>>

\* The part every option shares: it is the next one on the command line.
Take(o) ==
    /\ pc = "parse" /\ Len(given) < MaxOptions
    /\ given' = Append(given, o)
    /\ UNCHANGED <<stage, port, played, sent, lost, synth>>

TakeFlag(o) ==
    /\ Take(o) /\ o.opt \in Flags
    /\ opt' = [opt EXCEPT ![o.opt] = TRUE]
    /\ UNCHANGED <<pc, outcome, midi_buf, midi_len>>

\* -m, -g, -s, -S and the texts: the last one given counts. Mutant: the first.
TakeFirstValue(o) ==
    /\ Take(o) /\ o.opt \in {"mode"} \cup Numbers \cup Texts
    /\ opt' = IF \E j \in 1 .. Len(given) : given[j].opt = o.opt
              THEN opt ELSE [opt EXCEPT ![o.opt] = o.arg]
    /\ UNCHANGED <<pc, outcome, midi_buf, midi_len>>
TakeValue(o) ==
    /\ Take(o) /\ o.opt \in {"mode"} \cup Numbers \cup Texts
    /\ opt' = [opt EXCEPT ![o.opt] = o.arg]
    /\ UNCHANGED <<pc, outcome, midi_buf, midi_len>>

\* -b, and -P and -Y: an unknown romset or a name of more than 63 characters
\* ends the program. Mutant: an unknown romset is stored.
TakeAnyChecked(o) ==
    /\ Take(o) /\ o.opt \in {"romset"} \cup Files
    /\ opt' = [opt EXCEPT ![o.opt] = o.arg]
    /\ UNCHANGED <<pc, outcome, midi_buf, midi_len>>
TakeChecked(o) ==
    /\ Take(o) /\ o.opt \in {"romset"} \cup Files
    /\ IF IF o.opt = "romset" THEN o.arg \in Romsets ELSE o.arg # "too long"
       THEN opt' = [opt EXCEPT ![o.opt] = o.arg] /\ UNCHANGED <<pc, outcome>>
       ELSE pc' = "ended" /\ outcome' = "failure" /\ UNCHANGED opt
    /\ UNCHANGED <<midi_buf, midi_len>>

\* -M: how many of the tokens stand before the first that is no number and find a
\* place in the buffer.
NoNumber == -1
TooLarge == 10 ^ 9      \* more than an unsigned long holds
IsNumber(t) == t \notin {NoNumber, TooLarge}
Stored(tokens) ==
    Cardinality({j \in 1 .. Len(tokens) :
                    j <= MidiBufSize /\ \A i \in 1 .. j : IsNumber(tokens[i])})

\* What strtoul() makes of a token, or of nothing at all: 0 if it is no number, all
\* ones if it is too large a one.
ByteOf(tokens, j) ==
    IF j > Len(tokens) \/ tokens[j] = NoNumber THEN 0
    ELSE IF tokens[j] = TooLarge THEN 255 ELSE tokens[j] % 256

\* The loop stores what strtoul() made of a token before it looks whether it
\* was a number, and it goes through it once whatever the argument is; every -M
\* starts at the head of the buffer, and custom_midi_len goes on counting.
TakeMidi(o) ==
    /\ Take(o) /\ o.opt = "midi"
    /\ LET k == Stored(o.arg)
       IN  /\ midi_buf' = [j \in 1 .. MidiBufSize |->
                             IF j <= k \/ (j = k + 1 /\ (j <= Len(o.arg) \/ k = 0))
                             THEN ByteOf(o.arg, j) ELSE midi_buf[j]]
           /\ midi_len' = midi_len + k
    /\ UNCHANGED <<pc, outcome, opt>>

\* An option of the back end, which may find fault with its argument; that of
\* Windows to list the ports ends the program.
TakeBackend(o) ==
    /\ Take(o) /\ o.opt = "backend"
    /\ \/ o.arg = "good" /\ UNCHANGED <<pc, outcome>>
       \/ o.arg = "bad" /\ pc' = "ended" /\ outcome' = "failure"
       \/ o.arg = "list" /\ pc' = "ended" /\ outcome' = "listed"
    /\ UNCHANGED <<opt, midi_buf, midi_len>>

\* -h, an unknown option, or one without its argument.
TakeUsage(o) ==
    /\ Take(o) /\ o.opt = "usage"
    /\ pc' = "ended" /\ outcome' = "usage"
    /\ UNCHANGED <<opt, midi_buf, midi_len>>

-----------------------------------------------------------------------------
(* The stages, in the order of main(), and a mutant: the texts come early. *)

TextsEarly == <<"reboot", "mt32-txt", "sc55-txt", "mode", "romset", "soundfont",
                "mt32-rstereo", "mt32-reset", "gm-reset", "gs-reset",
                "midi", "sc55-bmp", "sc55-btxt", "syx">>
Stages == <<"reboot", "mode", "romset", "soundfont", "mt32-rstereo",
            "mt32-reset", "gm-reset", "gs-reset", "mt32-txt", "sc55-txt",
            "midi", "sc55-bmp", "sc55-btxt", "syx">>

Wanted(s) ==
    CASE s \in Flags                         -> opt[s]
      [] s \in {"mode", "romset"}            -> opt[s] # "unchanged"
      [] s \in Numbers                       -> opt[s] > -1
      [] s = "midi"                          -> midi_len > 0
      [] OTHER                               -> opt[s] # ""

\* A number ends up in one byte of the message; -M sends as many bytes as were
\* counted.
Beyond == -1            \* whatever lies behind the buffer
Value(s) ==
    CASE s \in Numbers -> opt[s] % 256
      [] s = "midi" -> [j \in 1 .. midi_len |->
                           IF j <= MidiBufSize THEN midi_buf[j] ELSE Beyond]
      [] OTHER -> opt[s]
Message(s) == [kind |-> s, val |-> Value(s)]

\* mididev_init()
InitBackend ==
    /\ pc = "init"
    /\ \/ pc' = "stages" /\ port' = "open" /\ UNCHANGED outcome
       \/ pc' = "ended" /\ outcome' = "failure" /\ UNCHANGED port
    /\ UNCHANGED <<parseVars, stage, played, sent, lost, synth>>

AtStage(s) == pc = "stages" /\ stage <= Len(Stages) /\ Stages[stage] = s

SkipStage ==
    /\ \E s \in {Stages[k] : k \in 1 .. Len(Stages)} : AtStage(s) /\ ~Wanted(s)
    /\ stage' = stage + 1
    /\ UNCHANGED <<pc, parseVars, port, outcome, played, sent, lost, synth>>

\* The stages that send one message and go on.
SimpleStages == {"mode", "romset", "soundfont", "mt32-rstereo", "mt32-reset",
                 "gm-reset", "gs-reset", "midi"} \cup Texts
SendStage ==
    /\ \E s \in SimpleStages : AtStage(s) /\ Wanted(s) /\ SendMessage(Message(s))
    /\ stage' = stage + 1
    /\ UNCHANGED <<pc, parseVars, port, outcome, played>>

\* Mutant: no five seconds behind the reboot message.
RebootAtOnce ==
    /\ AtStage("reboot") /\ Wanted("reboot") /\ SendMessage(Message("reboot"))
    /\ stage' = stage + 1
    /\ UNCHANGED <<pc, parseVars, port, outcome, played>>
Reboot ==
    /\ AtStage("reboot") /\ Wanted("reboot") /\ SendMessage(Message("reboot"))
    /\ pc' = "rebooting"
    /\ UNCHANGED <<parseVars, stage, port, outcome, played>>

\* delay_ms(5000) gives the mt32-pi the time to boot.
RebootDelay ==
    /\ pc = "rebooting"
    /\ pc' = "stages" /\ stage' = stage + 1
    /\ synth' = [synth EXCEPT !.booting = FALSE]
    /\ UNCHANGED <<parseVars, port, outcome, played, sent, lost>>

\* bmp_to_sysex_disp_sc55() aborts the program when it cannot use the file.
ShowBitmap ==
    /\ AtStage("sc55-bmp") /\ Wanted("sc55-bmp")
    /\ \/ /\ SendMessage(Message("sc55-bmp"))
          /\ stage' = stage + 1
          /\ UNCHANGED <<pc, outcome>>
       \/ /\ pc' = "ended" /\ outcome' = "aborted"
          /\ UNCHANGED <<stage, sent, lost, synth>>
    /\ UNCHANGED <<parseVars, port, played>>

\* Every failure of the player releases the back end. Mutant: it does not.
FailPlayingOpen ==
    pc' = "ended" /\ outcome' = "failure" /\ UNCHANGED port
FailPlaying ==
    pc' = "ended" /\ outcome' = "failure" /\ port' = "closed"

OpenFile ==
    /\ AtStage("syx") /\ Wanted("syx")
    /\ FailPlaying \/ (pc' = "playing" /\ UNCHANGED <<port, outcome>>)
    /\ UNCHANGED <<parseVars, stage, played, sent, lost, synth>>

PlayMessage ==
    /\ pc = "playing" /\ played < MaxSyx
    /\ played' = played + 1
    /\ SendMessage([kind |-> "syx", val |-> opt["syx"]])
    /\ UNCHANGED <<pc, parseVars, stage, port, outcome>>

\* What SyxPlayer settles in detail: success after a message, failure any time.
\* Mutant: success does not get past the stage.
EndPlayingAgain ==
    /\ pc = "playing"
    /\ \/ FailPlaying /\ UNCHANGED stage
       \/ /\ played > 0 /\ pc' = "stages"
          /\ UNCHANGED <<stage, port, outcome>>
    /\ UNCHANGED <<parseVars, played, sent, lost, synth>>
EndPlaying ==
    /\ pc = "playing"
    /\ \/ FailPlaying /\ UNCHANGED stage
       \/ /\ played > 0 /\ pc' = "stages" /\ stage' = stage + 1
          /\ UNCHANGED <<port, outcome>>
    /\ UNCHANGED <<parseVars, played, sent, lost, synth>>

\* mididev_deinit() and EXIT_SUCCESS.
Finish ==
    /\ pc = "stages" /\ stage > Len(Stages)
    /\ pc' = "ended" /\ outcome' = "success" /\ port' = "closed"
    /\ UNCHANGED <<parseVars, stage, played, sent, lost, synth>>

Init ==
    /\ pc = "parse" /\ given = <<>>
    /\ opt = [o \in Flags \cup Texts \cup Files \cup Settings |->
                IF o \in Flags THEN FALSE
                ELSE IF o \in {"mode", "romset"} THEN "unchanged"
                ELSE IF o \in Numbers THEN -1 ELSE ""]
    /\ midi_buf = [j \in 1 .. MidiBufSize |-> 0] /\ midi_len = 0
    /\ stage = 1 /\ port = "closed" /\ outcome = "none"
    /\ played = 0 /\ sent = <<>> /\ lost = FALSE
    /\ synth = [s \in Settings \cup {"booting"} |->
                  IF s = "booting" THEN FALSE ELSE Before(s)]

TakeOption ==
    \E o \in Options :
        \/ TakeFlag(o) \/ TakeValue(o) \/ TakeChecked(o) \/ TakeMidi(o)
        \/ TakeBackend(o) \/ TakeUsage(o)

Work == \/ EndOfOptions \/ InitBackend \/ SkipStage \/ SendStage
        \/ Reboot \/ RebootDelay \/ ShowBitmap
        \/ OpenFile \/ PlayMessage \/ EndPlaying \/ Finish

Next == TakeOption \/ Work

SafeSpec == Init /\ [][Next]_vars

\* A sequential program; the command line and the SYX file are finite.
Spec == SafeSpec /\ WF_vars(Work)

-----------------------------------------------------------------------------
(* What the command line asked for, read off the options themselves. *)

GivenAt(k) == {j \in 1 .. Len(given) : given[j].opt = k}
LastGiven(k) == given[CHOOSE j \in GivenAt(k) : \A l \in GivenAt(k) : l <= j].arg
IsAsked(k) ==
    /\ GivenAt(k) # {}
    /\ k \in Numbers => LastGiven(k) > -1
    /\ k \in Texts \cup Files => LastGiven(k) # ""

Ended == pc = "ended"
SentKinds == {sent[j].kind : j \in 1 .. Len(sent)}

\* Types and ranges of main's variables (mt32-pi.c:65-96).
TypeOK ==
    /\ pc \in {"parse", "init", "stages", "rebooting", "playing", "ended"}
    /\ given \in Seq(Options) /\ Len(given) <= MaxOptions
    /\ \A f \in Flags : opt[f] \in BOOLEAN
    /\ opt["mode"] \in {"unchanged", "munt", "fluid"}
    /\ opt["romset"] \in {"unchanged"} \cup Romsets
    /\ opt["soundfont"] \in Int /\ opt["mt32-rstereo"] \in Int
    /\ midi_buf \in [1 .. MidiBufSize -> 0 .. 255] /\ midi_len \in Nat
    /\ stage \in 1 .. Len(Stages) + 1
    /\ port \in {"closed", "open"}
    /\ outcome \in {"none", "success", "failure", "usage", "listed", "aborted"}
    /\ played \in 0 .. MaxSyx /\ lost \in BOOLEAN

\* The numbers of an -M, each made a byte.
Bytes(tokens) == [j \in 1 .. Stored(tokens) |-> tokens[j] % 256]

\* What a message has room for of the value given last: of a number its low byte.
AsByte(k) == IF k \in Numbers THEN LastGiven(k) % 256 ELSE LastGiven(k)

\* A run that succeeds has handed over one message for every kind of thing asked
\* for and nothing else, each with the value given last, of a number its low byte;
\* the bytes of a single -M go out up to the first that is no number
\* (mt32-pi.c:187-203, 251-440).
SendsWhatWasAsked ==
    outcome = "success" =>
        /\ \A k \in SentKinds \ {"midi"} : IsAsked(k)
        /\ \A k \in {Stages[j] : j \in 1 .. Len(Stages)} \ {"midi"} :
              IsAsked(k) => k \in SentKinds
        /\ \A j \in 1 .. Len(sent) : sent[j].kind \in Texts \cup Settings =>
              sent[j].val = AsByte(sent[j].kind)
        /\ \A j, l \in 1 .. Len(sent) :
              sent[j].kind = sent[l].kind /\ j # l => sent[j].kind = "syx"
        /\ Cardinality(GivenAt("midi")) = 1 =>
              LET b == Bytes(LastGiven("midi"))
              IN  \/ b = <<>> /\ "midi" \notin SentKinds
                  \/ b # <<>> /\ \E j \in 1 .. Len(sent) :
                                   sent[j] = [kind |-> "midi", val |-> b]

\* README.md:143, "-m -t ... will first send the MT-32 mode command and then the
\* screen text", in whatever order the options were given: the reboot comes
\* first, the settings next, and everything else after them.
SettingsFirst ==
    \A j, l \in 1 .. Len(sent) : j < l =>
        /\ sent[l].kind # "reboot"
        /\ sent[l].kind \in Settings => sent[j].kind \in Settings \cup {"reboot"}

\* If no message was lost on the way, a successful run leaves the mt32-pi with
\* the settings asked for last, and with its defaults where a reboot was asked
\* for and nothing else.  A number whose low byte is no MIDI data byte might as
\* well not have been asked for, and of a number above 255 the low byte is all
\* that arrives (mt32-pi.c:251-311).
Expected(k) ==
    IF IsAsked(k) /\ (k \in Numbers => AsByte(k) < 128) THEN AsByte(k)
    ELSE IF GivenAt("reboot") # {} THEN Default(k) ELSE Before(k)
SynthAsAsked ==
    outcome = "success" /\ ~lost =>
        ~synth.booting /\ \A k \in Settings : synth[k] = Expected(k)

\* However the program returns, the back end is released once it was initialised,
\* also when a SYX file turns out to be unusable; only abort() leaves it open
\* (mt32-pi.c:246-249, 385-390, 410-431, 442, 498-533).
ReleasedOnReturn == Ended => (port = "open" <=> outcome = "aborted")

\* A command line that is at fault anywhere, or asks for the list of ports, sends
\* nothing, also not what its good options asked for (mt32-pi.c:143-243).
Faulty(o) ==
    \/ o.opt = "usage"
    \/ o.opt = "backend" /\ o.arg # "good"
    \/ o.opt = "romset" /\ o.arg \notin Romsets
    \/ o.opt \in Files /\ o.arg = "too long"
FaultySendsNothing ==
    (\E j \in 1 .. Len(given) : Faulty(given[j])) =>
        sent = <<>> /\ port = "closed" /\ outcome \in {"failure", "usage", "listed"}

\* README.md:140, '-M/--midi "C0 01 C0 DE": Send a list of custom MIDI bytes':
\* with several -M, the bytes of the last one, as for every other option, or of
\* all of them are sent.
AllBytes[j \in 0 .. Len(given)] ==
    IF j = 0 THEN <<>>
    ELSE AllBytes[j - 1] \o (IF given[j].opt = "midi" THEN Bytes(given[j].arg) ELSE <<>>)
MidiAsGiven ==
    \A j \in 1 .. Len(sent) : sent[j].kind = "midi" =>
        sent[j].val \in {Bytes(LastGiven("midi")), AllBytes[Len(given)]}

\* Every run ends, whatever fails on the way.
Terminates == <>Ended
=============================================================================
