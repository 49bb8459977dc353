---------------------------- MODULE SessionProofs ----------------------------
(***************************************************************************)
(* What holds of every run of main(), whatever options are given, how many *)
(* of them, and whatever fails.                                            *)
(***************************************************************************)
EXTENDS Session, TLAPS

\* The back end is open exactly while main() works, and after abort().
Working == {"stages", "rebooting", "playing"}
OpenInv ==
    /\ pc \in {"parse", "init", "ended"} \cup Working
    /\ port \in {"closed", "open"}
    /\ port = "open" <=> (pc \in Working \/ (pc = "ended" /\ outcome = "aborted"))

LEMMA OpenInitially == Init => OpenInv
  BY DEF Init, OpenInv, Working

LEMMA OpenKept == OpenInv /\ [Next]_vars => OpenInv'
<1> SUFFICES ASSUME OpenInv, [Next]_vars PROVE OpenInv'
  OBVIOUS
<1> USE DEF OpenInv, Working
<1>1. CASE TakeOption
  <2> PICK o \in Options :
        \/ TakeFlag(o) \/ TakeValue(o) \/ TakeChecked(o) \/ TakeMidi(o)
        \/ TakeBackend(o) \/ TakeUsage(o)
    BY <1>1 DEF TakeOption
  <2>1. pc = "parse" /\ port' = port
    BY DEF TakeFlag, TakeValue, TakeChecked, TakeMidi, TakeBackend, TakeUsage, Take
  <2>2. pc' = pc \/ (pc' = "ended" /\ outcome' \in {"failure", "usage", "listed"})
    BY DEF TakeFlag, TakeValue, TakeChecked, TakeMidi, TakeBackend, TakeUsage
  <2> QED BY <2>1, <2>2
<1>2. CASE EndOfOptions
  BY <1>2 DEF EndOfOptions
<1>3. CASE InitBackend
  BY <1>3 DEF InitBackend
<1>4. CASE SkipStage
  BY <1>4 DEF SkipStage, AtStage
<1>5. CASE SendStage
  BY <1>5 DEF SendStage, AtStage
<1>6. CASE Reboot
  BY <1>6 DEF Reboot, AtStage
<1>7. CASE RebootDelay
  BY <1>7 DEF RebootDelay
<1>8. CASE ShowBitmap
  BY <1>8 DEF ShowBitmap, AtStage
<1>9. CASE OpenFile
  BY <1>9 DEF OpenFile, FailPlaying, AtStage
<1>10. CASE PlayMessage
  BY <1>10 DEF PlayMessage
<1>11. CASE EndPlaying
  BY <1>11 DEF EndPlaying, FailPlaying
<1>12. CASE Finish
  BY <1>12 DEF Finish
<1>13. CASE UNCHANGED vars
  BY <1>13 DEF vars
<1> QED
  BY <1>1, <1>2, <1>3, <1>4, <1>5, <1>6, <1>7, <1>8, <1>9, <1>10, <1>11, <1>12,
     <1>13 DEF Next, Work

\* However main() returns, it has released the back end if it had initialised it;
\* only abort() in bmp_to_sysex_disp_sc55 leaves it open.
THEOREM AlwaysReleased == SafeSpec => []ReleasedOnReturn
<1>1. OpenInv => ReleasedOnReturn
  BY DEF OpenInv, Working, ReleasedOnReturn, Ended
<1> QED
  BY <1>1, OpenInitially, OpenKept, PTL DEF SafeSpec

-----------------------------------------------------------------------------
\* A fault in the options ends the program, and up to the first stage nothing
\* was sent.
FaultInv ==
    /\ given \in Seq(Options)
    /\ pc \in {"parse", "init"} => sent = <<>> /\ port = "closed"
    /\ (\E j \in 1 .. Len(given) : Faulty(given[j])) =>
          /\ pc = "ended" /\ sent = <<>> /\ port = "closed"
          /\ outcome \in {"failure", "usage", "listed"}

LEMMA FaultInitially == Init => FaultInv
<1> SUFFICES ASSUME Init PROVE FaultInv
  OBVIOUS
<1>1. given = <<>> /\ pc = "parse" /\ sent = <<>> /\ port = "closed"
  BY DEF Init
<1>2. given \in Seq(Options) /\ 1 .. Len(given) = {}
  BY <1>1
<1> QED BY <1>1, <1>2 DEF FaultInv

\* What taking one option does: it goes on only if the option was not at fault.
LEMMA TakenOption ==
  ASSUME TakeOption
  PROVE  /\ pc = "parse" /\ sent' = sent /\ port' = port
         /\ \E o \in Options :
              /\ given' = Append(given, o)
              /\ \/ pc' = "parse" /\ ~Faulty(o)
                 \/ pc' = "ended" /\ outcome' \in {"failure", "usage", "listed"}
<1> PICK o \in Options :
        \/ TakeFlag(o) \/ TakeValue(o) \/ TakeChecked(o) \/ TakeMidi(o)
        \/ TakeBackend(o) \/ TakeUsage(o)
  BY DEF TakeOption
<1>1. Take(o)
  BY DEF TakeFlag, TakeValue, TakeChecked, TakeMidi, TakeBackend, TakeUsage
<1>2. CASE TakeFlag(o)
  BY <1>1, <1>2 DEF TakeFlag, Take, Faulty, Flags, Files
<1>3. CASE TakeValue(o)
  BY <1>1, <1>3 DEF TakeValue, Take, Faulty, Numbers, Texts, Files
<1>4. CASE TakeChecked(o)
  BY <1>1, <1>4 DEF TakeChecked, Take, Faulty, Files
<1>5. CASE TakeMidi(o)
  BY <1>1, <1>5 DEF TakeMidi, Take, Faulty, Files
<1>6. CASE TakeBackend(o)
  BY <1>1, <1>6 DEF TakeBackend, Take, Faulty, Files
<1>7. CASE TakeUsage(o)
  BY <1>1, <1>7 DEF TakeUsage, Take
<1> QED
  BY <1>2, <1>3, <1>4, <1>5, <1>6, <1>7

LEMMA FaultKept == FaultInv /\ [Next]_vars => FaultInv'
<1> SUFFICES ASSUME FaultInv, [Next]_vars PROVE FaultInv'
  OBVIOUS
<1> USE DEF FaultInv
<1>1. CASE TakeOption
  <2>1. pc = "parse" /\ sent' = sent /\ port' = port
    BY <1>1, TakenOption
  <2> PICK o \in Options :
        /\ given' = Append(given, o)
        /\ \/ pc' = "parse" /\ ~Faulty(o)
           \/ pc' = "ended" /\ outcome' \in {"failure", "usage", "listed"}
    BY <1>1, TakenOption
  <2>2. given' \in Seq(Options)
    OBVIOUS
  <2>3. \A j \in 1 .. Len(given') : given'[j] = o \/ (j \in 1 .. Len(given) /\ given'[j] = given[j])
    OBVIOUS
  <2>4. \A j \in 1 .. Len(given) : ~Faulty(given[j])
    BY <2>1
  <2>5. (\E j \in 1 .. Len(given') : Faulty(given'[j])) => Faulty(o)
    BY <2>3, <2>4
  <2>6. (\E j \in 1 .. Len(given) : Faulty(given[j]))' => Faulty(o)
    BY <2>5 DEF Faulty
  <2> QED BY <2>1, <2>2, <2>6
<1>2. CASE Work
  <2>1. given' = given /\ pc # "ended"
    BY <1>2 DEF Work, parseVars, EndOfOptions, InitBackend, SkipStage, SendStage, Reboot,
       RebootDelay, ShowBitmap, OpenFile, PlayMessage, EndPlaying, Finish, AtStage
  <2>2. \A j \in 1 .. Len(given) : ~Faulty(given[j])
    BY <2>1
  <2>3. ~(\E j \in 1 .. Len(given) : Faulty(given[j]))'
    BY <2>1, <2>2 DEF Faulty
  <2>4. pc' \in {"parse", "init"} => sent' = <<>> /\ port' = "closed"
    BY <1>2 DEF Work, EndOfOptions, InitBackend, SkipStage, SendStage, Reboot,
       RebootDelay, ShowBitmap, OpenFile, PlayMessage, EndPlaying, FailPlaying, Finish, AtStage
  <2> QED BY <2>1, <2>3, <2>4
<1>3. CASE UNCHANGED vars
  BY <1>3 DEF vars, parseVars, Faulty
<1> QED
  BY <1>1, <1>2, <1>3 DEF Next

\* If any option is at fault, nothing at all is sent and the back end is never
\* initialised, however many good options came before it.
THEOREM AlwaysFaultySendsNothing == SafeSpec => []FaultySendsNothing
<1>1. FaultInv => FaultySendsNothing
  BY DEF FaultInv, FaultySendsNothing
<1> QED
  BY <1>1, FaultInitially, FaultKept, PTL DEF SafeSpec

-----------------------------------------------------------------------------
\* The settings stages come first, the reboot stage before them, and each stage
\* sends at most one message, so up to the last settings stage everything sent is
\* the reboot message or a setting.
IsSequence(s) == \E S : s \in Seq(S)
LastSetting == 5
PlayerStage == 14
OrderInv ==
    /\ IsSequence(sent)
    /\ stage \in Nat \ {0}
    /\ pc \in {"parse", "init"} => sent = <<>> /\ stage = 1
    /\ pc = "stages" /\ stage = 1 => sent = <<>>
    /\ pc = "rebooting" => stage = 1
    /\ pc = "playing" => stage = PlayerStage
    /\ stage <= LastSetting =>
          \A j \in 1 .. Len(sent) : sent[j].kind \in Settings \cup {"reboot"}
    /\ SettingsFirst

LEMMA Appended ==
  ASSUME NEW s, NEW m, IsSequence(s)
  PROVE  /\ IsSequence(Append(s, m))
         /\ Len(s) \in Nat /\ Len(Append(s, m)) = Len(s) + 1
         /\ \A j \in 1 .. Len(s) : Append(s, m)[j] = s[j]
         /\ Append(s, m)[Len(s) + 1] = m
<1> PICK S : s \in Seq(S)
  BY DEF IsSequence
<1> DEFINE T == S \cup {m}
<1>1. s \in Seq(T) /\ m \in T
  OBVIOUS
<1>2. Append(s, m) \in Seq(T)
  BY <1>1
<1>3. IsSequence(Append(s, m))
  BY <1>2 DEF IsSequence
<1> HIDE DEF T
<1> QED BY <1>1, <1>3

\* Where the stages that matter stand in main().
LEMMA StageOf ==
  ASSUME NEW s, AtStage(s), stage \in Nat \ {0}
  PROVE  /\ stage <= PlayerStage /\ stage + 1 \in Nat \ {0}
         /\ s = "reboot" <=> stage = 1
         /\ s \in Settings <=> stage \in 2 .. LastSetting
         /\ s = "syx" <=> stage = PlayerStage
<1>1. stage \in 1 .. 14 /\ s = Stages[stage]
  BY DEF AtStage, Stages
<1>2. \/ stage = 1 \/ stage = 2 \/ stage = 3 \/ stage = 4 \/ stage = 5 \/ stage = 6
      \/ stage = 7 \/ stage = 8 \/ stage = 9 \/ stage = 10 \/ stage = 11
      \/ stage = 12 \/ stage = 13 \/ stage = 14
  BY <1>1
<1> QED
  BY <1>1, <1>2 DEF Stages, Settings, Numbers, LastSetting, PlayerStage

\* A message that fits what was sent before it keeps the order.
LEMMA OneMore ==
  ASSUME IsSequence(sent), SettingsFirst,
         NEW m, sent' = Append(sent, m),
         m.kind = "reboot" => sent = <<>>,
         m.kind \in Settings =>
            \A j \in 1 .. Len(sent) : sent[j].kind \in Settings \cup {"reboot"}
  PROVE  SettingsFirst'
<1> SUFFICES ASSUME NEW j \in 1 .. Len(sent'), NEW l \in 1 .. Len(sent'), j < l
             PROVE  /\ sent'[l].kind # "reboot"
                    /\ sent'[l].kind \in Settings =>
                          sent'[j].kind \in Settings \cup {"reboot"}
  BY DEF SettingsFirst
<1>1. Len(sent) \in Nat /\ Len(sent') = Len(sent) + 1
  BY Appended
<1>2. j \in 1 .. Len(sent) /\ sent'[j] = sent[j]
  BY <1>1, Appended
<1>3. CASE l \in 1 .. Len(sent)
  BY <1>2, <1>3, Appended DEF SettingsFirst
<1>4. CASE l = Len(sent) + 1
  <2>1. sent'[l] = m
    BY <1>4, Appended
  <2>2. sent # <<>>
    BY <1>2
  <2> QED BY <1>2, <2>1, <2>2
<1> QED BY <1>1, <1>3, <1>4

LEMMA OrderInitially == Init => OrderInv
<1> SUFFICES ASSUME Init PROVE OrderInv
  OBVIOUS
<1>1. sent = <<>> /\ stage = 1 /\ pc = "parse"
  BY DEF Init
<1>2. IsSequence(sent) /\ 1 .. Len(sent) = {}
  <2>1. <<>> \in Seq({})
    OBVIOUS
  <2> QED BY <1>1, <2>1 DEF IsSequence
<1> QED BY <1>1, <1>2 DEF OrderInv, SettingsFirst

\* A step that sends nothing keeps what was said about what was sent.
LEMMA NothingSent == sent' = sent /\ SettingsFirst => SettingsFirst'
  BY DEF SettingsFirst

LEMMA OrderKept == OrderInv /\ [Next]_vars => OrderInv'
<1> SUFFICES ASSUME OrderInv, [Next]_vars PROVE OrderInv'
  OBVIOUS
<1> USE DEF OrderInv
<1>1. CASE TakeOption
  <2>1. pc = "parse" /\ sent' = sent /\ pc' \in {"parse", "ended"}
    BY <1>1, TakenOption
  <2>2. stage' = stage
    BY <1>1 DEF TakeOption, TakeFlag, TakeValue, TakeChecked, TakeMidi, TakeBackend,
       TakeUsage, Take
  <2> QED BY <2>1, <2>2, NothingSent DEF LastSetting
<1>2. CASE EndOfOptions
  BY <1>2, NothingSent DEF EndOfOptions
<1>3. CASE InitBackend
  BY <1>3, NothingSent DEF InitBackend
<1>4. CASE SkipStage
  <2> PICK s : AtStage(s) /\ ~Wanted(s)
    BY <1>4 DEF SkipStage
  <2>1. sent' = sent /\ stage' = stage + 1 /\ pc' = pc /\ pc = "stages"
    BY <1>4 DEF SkipStage, AtStage
  <2> QED BY <2>1, StageOf, NothingSent DEF LastSetting
<1>5. CASE SendStage
  <2> PICK s \in SimpleStages : AtStage(s) /\ SendMessage(Message(s))
    BY <1>5 DEF SendStage
  <2>1. /\ sent' = Append(sent, Message(s)) /\ Message(s).kind = s
        /\ stage' = stage + 1 /\ pc' = "stages"
    BY <1>5 DEF SendStage, SendMessage, Message, AtStage
  <2>2. s # "reboot" /\ s # "syx"
    BY DEF SimpleStages, Texts
  <2>3. SettingsFirst'
    BY <2>1, <2>2, OneMore, StageOf DEF LastSetting
  <2>4. stage' <= LastSetting =>
           \A j \in 1 .. Len(sent') : sent'[j].kind \in Settings \cup {"reboot"}
    BY <2>1, <2>2, Appended, StageOf DEF LastSetting
  <2>5. IsSequence(sent)'
    BY <2>1, Appended DEF IsSequence
  <2>6. stage' \in Nat \ {0} /\ stage' # 1
    BY <2>1
  <2> QED BY <2>1, <2>3, <2>4, <2>5, <2>6
<1>6. CASE Reboot
  <2>1. /\ sent' = Append(sent, Message("reboot")) /\ Message("reboot").kind = "reboot"
        /\ stage' = stage /\ pc = "stages" /\ pc' = "rebooting" /\ AtStage("reboot")
    BY <1>6 DEF Reboot, SendMessage, Message, AtStage
  <2>2. stage = 1 /\ sent = <<>> /\ Len(sent) = 0
    BY <2>1, StageOf
  <2>3. SettingsFirst'
    BY <2>1, <2>2, OneMore DEF Settings, Numbers
  <2>4. \A j \in 1 .. Len(sent') : sent'[j].kind \in Settings \cup {"reboot"}
    BY <2>1, <2>2, Appended
  <2>5. IsSequence(sent)'
    BY <2>1, Appended DEF IsSequence
  <2> QED BY <2>1, <2>2, <2>3, <2>4, <2>5
<1>7. CASE RebootDelay
  BY <1>7, NothingSent DEF RebootDelay, LastSetting
<1>8. CASE ShowBitmap
  <2>1. AtStage("sc55-bmp") /\ pc = "stages"
    BY <1>8 DEF ShowBitmap, AtStage
  <2>2. stage > LastSetting /\ stage < PlayerStage
    BY <2>1, StageOf DEF Settings, Numbers, LastSetting, PlayerStage
  <2>3. CASE SendMessage(Message("sc55-bmp")) /\ stage' = stage + 1 /\ pc' = pc
    <3>1. sent' = Append(sent, Message("sc55-bmp")) /\ Message("sc55-bmp").kind = "sc55-bmp"
      BY <2>3 DEF SendMessage, Message
    <3>2. SettingsFirst'
      BY <3>1, OneMore DEF Settings, Numbers
    <3>3. IsSequence(sent)'
      BY <3>1, Appended DEF IsSequence
    <3> QED BY <2>1, <2>2, <2>3, <3>2, <3>3 DEF LastSetting
  <2>4. CASE pc' = "ended" /\ UNCHANGED <<stage, sent>>
    BY <2>4, NothingSent
  <2> QED BY <1>8, <2>3, <2>4 DEF ShowBitmap
<1>9. CASE OpenFile
  <2>1. /\ AtStage("syx") /\ sent' = sent /\ stage' = stage
        /\ pc' \in {"ended", "playing"}
    BY <1>9 DEF OpenFile, FailPlaying
  <2> QED BY <2>1, StageOf, NothingSent
<1>10. CASE PlayMessage
  <2> DEFINE m == [kind |-> "syx", val |-> opt["syx"]]
  <2>1. /\ sent' = Append(sent, m) /\ m.kind = "syx"
        /\ stage' = stage /\ pc = "playing" /\ pc' = pc
    BY <1>10 DEF PlayMessage, SendMessage
  <2> HIDE DEF m
  <2>2. SettingsFirst'
    BY <2>1, OneMore DEF Settings, Numbers
  <2>3. IsSequence(sent)'
    BY <2>1, Appended DEF IsSequence
  <2> QED BY <2>1, <2>2, <2>3 DEF LastSetting, PlayerStage
<1>11. CASE EndPlaying
  BY <1>11, NothingSent DEF EndPlaying, FailPlaying, LastSetting, PlayerStage
<1>12. CASE Finish
  BY <1>12, NothingSent DEF Finish, LastSetting
<1>13. CASE UNCHANGED vars
  BY <1>13, NothingSent DEF vars
<1> QED
  BY <1>1, <1>2, <1>3, <1>4, <1>5, <1>6, <1>7, <1>8, <1>9, <1>10, <1>11, <1>12,
     <1>13 DEF Next, Work

\* In every order of the options, the reboot message goes out first and every
\* setting before anything that is not one.
THEOREM AlwaysSettingsFirst == SafeSpec => []SettingsFirst
<1>1. OrderInv => SettingsFirst
  BY DEF OrderInv
<1> QED
  BY <1>1, OrderInitially, OrderKept, PTL DEF SafeSpec

\* What the later proofs take from it: the order and the stage main() is at.
LEMMA OrderAlways == SafeSpec => []OrderInv
BY OrderInitially, OrderKept, PTL DEF SafeSpec
=============================================================================
