------------------------- MODULE SessionAskedProofs -------------------------
(***************************************************************************)
(* What holds of every successful run of main(): what it sent is what the  *)
(* options asked for, and the mt32-pi has the settings asked for.          *)
(***************************************************************************)
EXTENDS SessionProofs, FiniteSetTheorems, WellFoundedInduction

-----------------------------------------------------------------------------
(* The last one of the options of a kind. *)

\* A set of natural numbers has a least one.
LEMMA Least ==
    ASSUME NEW T \in SUBSET Nat, T # {} PROVE \E x \in T : \A y \in T : x <= y
<1>1. PICK x \in T : \A y \in T : ~(<<y, x>> \in OpToRel(<, Nat))
  BY WFMin, NatLessThanWellFounded
<1>2. \A y \in T : ~(y < x)
  BY <1>1 DEF OpToRel
<1>3. QED BY <1>2

\* And one that is bounded a greatest.
LEMMA Greatest ==
    ASSUME NEW n \in Nat, NEW T \in SUBSET (1 .. n), T # {}
    PROVE  \E x \in T : \A y \in T : y <= x
<1> DEFINE Bounds == {m \in Nat : \A y \in T : y <= m}
<1>1. n \in Bounds
  OBVIOUS
<1>2. PICK m \in Bounds : \A l \in Bounds : m <= l
  BY <1>1, Least
<1>3. m \in Nat /\ \A y \in T : y <= m
  OBVIOUS
<1>4. CASE m \in T
  BY <1>3, <1>4
<1>5. CASE m \notin T
  <2>1. \A y \in T : y \in Nat /\ y <= m /\ y # m
    BY <1>3, <1>5
  <2>2. m - 1 \in Nat
    <3>1. PICK y \in T : y \in 1 .. n
      OBVIOUS
    <3>2. y <= m /\ y \in Int /\ 1 <= y /\ m \in Int
      BY <1>3, <3>1
    <3>3. QED BY <3>2
  <2>3. m - 1 \in Bounds
    BY <1>3, <2>1, <2>2
  <2>4. QED BY <1>2, <1>3, <2>3
<1>6. QED BY <1>4, <1>5

At(g, k) == {j \in 1 .. Len(g) : g[j].opt = k}
LastOf(g, k) == g[CHOOSE j \in At(g, k) : \A l \in At(g, k) : l <= j].arg

\* The operators of Session say the same of the options taken so far.
LEMMA AtGiven ==
    \A k : GivenAt(k) = At(given, k) /\ LastGiven(k) = LastOf(given, k)
  BY DEF GivenAt, LastGiven, At, LastOf
LEMMA AtGivenNext ==
    \A k : GivenAt(k)' = At(given', k) /\ LastGiven(k)' = LastOf(given', k)
  BY DEF GivenAt, LastGiven, At, LastOf

LEMMA LastIsGiven ==
    ASSUME NEW S, NEW g \in Seq(S), NEW k, At(g, k) # {}
    PROVE  \E j \in At(g, k) : (\A l \in At(g, k) : l <= j) /\ LastOf(g, k) = g[j].arg
<1>1. At(g, k) \in SUBSET (1 .. Len(g)) /\ Len(g) \in Nat
  BY DEF At
<1>2. \E j \in At(g, k) : \A l \in At(g, k) : l <= j
  BY <1>1, Greatest
<1>3. QED
  BY <1>2 DEF LastOf

\* One option more is the last of its kind, and leaves the other kinds alone.
LEMMA OneMoreOption ==
    ASSUME NEW S, NEW g \in Seq(S), NEW o \in S, NEW k
    PROVE  /\ At(Append(g, o), k) =
                 IF o.opt = k THEN At(g, k) \cup {Len(g) + 1} ELSE At(g, k)
           /\ o.opt = k => LastOf(Append(g, o), k) = o.arg
           /\ o.opt # k /\ At(g, k) # {} => LastOf(Append(g, o), k) = LastOf(g, k)
<1> DEFINE h == Append(g, o)
<1>1. /\ h \in Seq(S) /\ Len(h) = Len(g) + 1 /\ Len(g) \in Nat /\ h[Len(g) + 1] = o
      /\ \A j \in 1 .. Len(g) : h[j] = g[j]
  OBVIOUS
<1> HIDE DEF h
<1>2. At(h, k) = IF o.opt = k THEN At(g, k) \cup {Len(g) + 1} ELSE At(g, k)
  BY <1>1 DEF At
<1>3. ASSUME o.opt = k PROVE LastOf(h, k) = o.arg
  <2>1. PICK j \in At(h, k) : (\A l \in At(h, k) : l <= j) /\ LastOf(h, k) = h[j].arg
    BY <1>1, <1>2, <1>3, LastIsGiven
  <2>2. j \in 1 .. Len(g) + 1 /\ Len(g) + 1 <= j
    BY <1>1, <1>2, <1>3, <2>1 DEF At
  <2>3. j = Len(g) + 1
    BY <1>1, <2>2
  <2>4. QED BY <1>1, <2>1, <2>3
<1>4. ASSUME o.opt # k, At(g, k) # {} PROVE LastOf(h, k) = LastOf(g, k)
  <2>1. At(h, k) = At(g, k)
    BY <1>2, <1>4
  <2>2. PICK j \in At(g, k) : (\A l \in At(g, k) : l <= j) /\ LastOf(g, k) = g[j].arg
    BY <1>4, LastIsGiven
  <2>3. PICK i \in At(g, k) : (\A l \in At(g, k) : l <= i) /\ LastOf(h, k) = h[i].arg
    BY <1>1, <1>4, <2>1, LastIsGiven
  <2>4. i \in 1 .. Len(g) /\ j \in 1 .. Len(g) /\ i <= j /\ j <= i
    BY <2>2, <2>3 DEF At
  <2>5. i = j
    BY <1>1, <2>4
  <2>6. QED BY <1>1, <2>2, <2>3, <2>4, <2>5
<1>5. QED
  BY <1>2, <1>3, <1>4 DEF h

-----------------------------------------------------------------------------
(* Types. *)

OptKinds == Flags \cup Texts \cup Files \cup Settings
TypeInv == TypeOK /\ opt = [k \in OptKinds |-> opt[k]]

\* The parts of TypeOK: what the options leave behind, and the rest.
OptTypes ==
    /\ \A f \in Flags : opt[f] \in BOOLEAN
    /\ opt["mode"] \in {"unchanged", "munt", "fluid"}
    /\ opt["romset"] \in {"unchanged"} \cup Romsets
    /\ opt["soundfont"] \in Int /\ opt["mt32-rstereo"] \in Int
    /\ opt = [k \in OptKinds |-> opt[k]]
MidiTypes == midi_buf \in [1 .. MidiBufSize -> 0 .. 255] /\ midi_len \in Nat
GivenTypes == given \in Seq(Options) /\ Len(given) <= MaxOptions
PlaceTypes ==
    /\ pc \in {"parse", "init", "stages", "rebooting", "playing", "ended"}
    /\ stage \in 1 .. Len(Stages) + 1
    /\ port \in {"closed", "open"}
    /\ outcome \in {"none", "success", "failure", "usage", "listed", "aborted"}
    /\ played \in 0 .. MaxSyx /\ lost \in BOOLEAN

LEMMA TypeParts == TypeInv <=> OptTypes /\ MidiTypes /\ GivenTypes /\ PlaceTypes
  BY DEF TypeInv, TypeOK, OptTypes, MidiTypes, GivenTypes, PlaceTypes

LEMMA TypePartsNext == TypeInv' <=> OptTypes' /\ MidiTypes' /\ GivenTypes' /\ PlaceTypes'
  BY DEF TypeInv, TypeOK, OptTypes, MidiTypes, GivenTypes, PlaceTypes

LEMMA TypeInitially == Init => TypeInv
<1> SUFFICES ASSUME Init PROVE TypeInv
  OBVIOUS
<1>1. OptTypes
  <2>1. opt = [k \in OptKinds |->
                  IF k \in Flags THEN FALSE
                  ELSE IF k \in {"mode", "romset"} THEN "unchanged"
                  ELSE IF k \in Numbers THEN -1 ELSE ""]
    BY DEF Init, OptKinds
  <2>2. opt = [k \in OptKinds |-> opt[k]]
    BY <2>1
  <2>3. /\ \A f \in Flags : opt[f] = FALSE
        /\ opt["mode"] = "unchanged" /\ opt["romset"] = "unchanged"
        /\ opt["soundfont"] = -1 /\ opt["mt32-rstereo"] = -1
    BY <2>1 DEF OptKinds, Flags, Texts, Files, Settings, Numbers
  <2>4. \A f \in Flags : opt[f] \in BOOLEAN
    BY <2>3, Zenon
  <2>5. /\ opt["mode"] \in {"unchanged", "munt", "fluid"}
        /\ opt["romset"] \in {"unchanged"} \cup Romsets
        /\ opt["soundfont"] \in Int /\ opt["mt32-rstereo"] \in Int
    BY <2>3
  <2>6. QED
    BY ONLY <2>2, <2>4, <2>5 DEF OptTypes
<1>2. MidiTypes
  <2>1. midi_buf = [j \in 1 .. MidiBufSize |-> 0] /\ midi_len = 0
    BY DEF Init
  <2>2. QED BY <2>1 DEF MidiTypes
<1>3. GivenTypes
  <2>1. given = <<>>
    BY DEF Init
  <2>2. QED BY <2>1, BoundsAssumption DEF GivenTypes
<1>4. PlaceTypes
  <2>1. /\ pc = "parse" /\ stage = 1 /\ port = "closed" /\ outcome = "none"
        /\ played = 0 /\ lost = FALSE
    BY DEF Init
  <2>2. 1 \in 1 .. Len(Stages) + 1 /\ 0 \in 0 .. MaxSyx
    BY BoundsAssumption DEF Stages
  <2>3. QED BY <2>1, <2>2 DEF PlaceTypes
<1>5. QED
  BY <1>1, <1>2, <1>3, <1>4, TypeParts

\* As many tokens are stored as there are, and as there is room for.
LEMMA StoredFacts ==
    ASSUME NEW tokens \in Seq(Int)
    PROVE  /\ Stored(tokens) \in Nat /\ Stored(tokens) <= Len(tokens)
           /\ Stored(tokens) <= MidiBufSize
           /\ \A j \in Nat \ {0} : j <= Stored(tokens) =>
                 j <= Len(tokens) /\ IsNumber(tokens[j])
<1> DEFINE S == {j \in 1 .. Len(tokens) :
                    j <= MidiBufSize /\ \A i \in 1 .. j : IsNumber(tokens[i])}
<1>1. S \subseteq 1 .. Len(tokens) /\ S \subseteq 1 .. MidiBufSize
  BY BoundsAssumption
<1>2. \A n \in Nat : IsFiniteSet(1 .. n) /\ Cardinality(1 .. n) = n
  <2>1. SUFFICES ASSUME NEW n \in Nat
                 PROVE  IsFiniteSet(1 .. n) /\ Cardinality(1 .. n) = n
    OBVIOUS
  <2>2. 1 \in Int /\ n \in Int
    OBVIOUS
  <2>3. /\ IsFiniteSet(1 .. n)
        /\ Cardinality(1 .. n) = IF 1 > n THEN 0 ELSE n - 1 + 1
    BY <2>2, FS_Interval, Zenon
  <2>4. (IF 1 > n THEN 0 ELSE n - 1 + 1) = n
    OBVIOUS
  <2>5. QED
    BY <2>3, <2>4
<1>3. Len(tokens) \in Nat /\ MidiBufSize \in Nat
  BY BoundsAssumption
<1>4. \A j \in S : j <= Len(tokens) /\ IsNumber(tokens[j])
  BY <1>3
<1>5. \A i \in S : \A j \in Nat \ {0} : j <= i => j \in S
  BY <1>3
<1> HIDE DEF S
<1>6. \A n \in Nat : S \subseteq 1 .. n => IsFiniteSet(S) /\ Cardinality(S) <= n
  <2>1. SUFFICES ASSUME NEW n \in Nat, S \subseteq 1 .. n
                 PROVE  IsFiniteSet(S) /\ Cardinality(S) <= n
    OBVIOUS
  <2>2. IsFiniteSet(1 .. n) /\ Cardinality(1 .. n) = n
    BY <1>2
  <2>3. QED
    BY <2>1, <2>2, FS_Subset
<1>7. IsFiniteSet(S) /\ Cardinality(S) <= Len(tokens) /\ Cardinality(S) <= MidiBufSize
  BY <1>1, <1>3, <1>6
<1>8. Cardinality(S) \in Nat
  BY <1>7, FS_CardinalityType
<1>9. \A j \in Nat \ {0} : j <= Cardinality(S) => j \in S
  <2>1. SUFFICES ASSUME NEW j \in Nat \ {0}, j <= Cardinality(S), j \notin S
                 PROVE  FALSE
    OBVIOUS
  <2>2. S \subseteq 1 .. j - 1
    BY <1>1, <1>5, <2>1
  <2>3. Cardinality(S) <= j - 1
    BY <1>6, <2>2
  <2>4. QED BY <1>8, <2>1, <2>3
<1>10. QED
  BY <1>7, <1>8, <1>9, <1>4 DEF Stored, S

\* What setting one of main's variables does.
LEMMA OptSet ==
    ASSUME opt = [k \in OptKinds |-> opt[k]], NEW c \in OptKinds, NEW v,
           opt' = [opt EXCEPT ![c] = v]
    PROVE  /\ opt' = [k \in OptKinds |-> opt'[k]]
           /\ opt'[c] = v
           /\ \A k \in OptKinds : k # c => opt'[k] = opt[k]
  OBVIOUS

\* What taking an option does to main's variables.
SetsFlag(o) ==
    /\ o.opt \in Flags /\ opt' = [opt EXCEPT ![o.opt] = TRUE]
    /\ UNCHANGED <<pc, outcome, midi_buf, midi_len>>
SetsValue(o) ==
    /\ o.opt \in OptKinds \ Flags /\ opt' = [opt EXCEPT ![o.opt] = o.arg]
    /\ o.opt = "romset" => o.arg \in Romsets
    /\ UNCHANGED <<pc, outcome, midi_buf, midi_len>>
SetsNothing(o) ==
    /\ \/ o.opt = "backend" /\ UNCHANGED <<pc, outcome>>
       \/ pc' = "ended" /\ outcome' \in {"failure", "usage", "listed"}
    /\ UNCHANGED <<opt, midi_buf, midi_len>>
TakenAs(o) == SetsFlag(o) \/ SetsValue(o) \/ TakeMidi(o) \/ SetsNothing(o)

LEMMA TakenKinds ==
    ASSUME TakeOption PROVE \E o \in Options : Take(o) /\ TakenAs(o)
<1> PICK o \in Options :
        \/ TakeFlag(o) \/ TakeValue(o) \/ TakeChecked(o) \/ TakeMidi(o)
        \/ TakeBackend(o) \/ TakeUsage(o)
  BY DEF TakeOption
<1>1. Take(o)
  BY DEF TakeFlag, TakeValue, TakeChecked, TakeMidi, TakeBackend, TakeUsage
<1>2. CASE TakeFlag(o)
  BY <1>1, <1>2 DEF TakeFlag, TakenAs, SetsFlag
<1>3. CASE TakeValue(o)
  <2>1. /\ o.opt \in OptKinds \ Flags /\ o.opt # "romset"
    BY <1>3 DEF TakeValue, OptKinds, Flags, Texts, Files, Settings, Numbers
  <2>2. QED BY <1>1, <1>3, <2>1 DEF TakeValue, TakenAs, SetsValue
<1>4. CASE TakeChecked(o)
  <2>1. o.opt \in OptKinds \ Flags
    BY <1>4 DEF TakeChecked, OptKinds, Flags, Texts, Files, Settings, Numbers
  <2>2. QED BY <1>1, <1>4, <2>1 DEF TakeChecked, TakenAs, SetsValue, SetsNothing
<1>5. CASE TakeMidi(o)
  BY <1>1, <1>5 DEF TakenAs
<1>6. CASE TakeBackend(o)
  BY <1>1, <1>6 DEF TakeBackend, TakenAs, SetsNothing
<1>7. CASE TakeUsage(o)
  BY <1>1, <1>7 DEF TakeUsage, TakenAs, SetsNothing
<1>8. QED
  BY <1>2, <1>3, <1>4, <1>5, <1>6, <1>7

LEMMA TakenTypes ==
    ASSUME TypeInv, TakeOption PROVE TypeInv'
<1>1. OptTypes /\ MidiTypes /\ GivenTypes /\ PlaceTypes
  BY TypeParts
<1> PICK o \in Options : Take(o) /\ TakenAs(o)
  BY TakenKinds
<1>2. Take(o)
  OBVIOUS
<1>3. GivenTypes'
  <2>1. given' = Append(given, o) /\ Len(given) < MaxOptions /\ given \in Seq(Options)
    BY <1>1, <1>2 DEF Take, GivenTypes
  <2>2. given' \in Seq(Options) /\ Len(given') = Len(given) + 1 /\ Len(given) \in Nat
    BY <2>1
  <2>3. QED
    BY <2>1, <2>2, BoundsAssumption DEF GivenTypes
<1>4. PlaceTypes'
  <2>1. UNCHANGED <<stage, port, played, lost>>
    BY <1>2 DEF Take
  <2>2. \/ UNCHANGED <<pc, outcome>>
        \/ pc' = "ended" /\ outcome' \in {"failure", "usage", "listed"}
    BY DEF TakenAs, SetsFlag, SetsValue, TakeMidi, SetsNothing
  <2>3. QED
    BY <1>1, <2>1, <2>2 DEF PlaceTypes
<1>5. CASE SetsFlag(o)
  <2>1. o.opt \in Flags /\ o.opt \in OptKinds /\ opt' = [opt EXCEPT ![o.opt] = TRUE]
    BY <1>5 DEF SetsFlag, OptKinds
  <2>2. opt = [k \in OptKinds |-> opt[k]]
    BY <1>1 DEF OptTypes
  <2>3. /\ opt' = [k \in OptKinds |-> opt'[k]]
        /\ opt'[o.opt] = TRUE
        /\ \A k \in OptKinds : k # o.opt => opt'[k] = opt[k]
    BY <2>1, <2>2, OptSet
  <2>4. \A f \in Flags : opt'[f] \in BOOLEAN
    BY <1>1, <2>3, Zenon DEF OptTypes, OptKinds
  <2>5. /\ opt'["mode"] = opt["mode"] /\ opt'["romset"] = opt["romset"]
        /\ opt'["soundfont"] = opt["soundfont"]
        /\ opt'["mt32-rstereo"] = opt["mt32-rstereo"]
    BY <2>1, <2>3 DEF OptKinds, Flags, Texts, Files, Settings, Numbers
  <2>6. OptTypes'
    BY <1>1, <2>3, <2>4, <2>5 DEF OptTypes
  <2>7. MidiTypes'
    BY <1>1, <1>5 DEF SetsFlag, MidiTypes
  <2>8. QED
    BY <1>3, <1>4, <2>6, <2>7, TypePartsNext
<1>6. CASE SetsValue(o)
  <2>1. o.opt \in OptKinds \ Flags /\ opt' = [opt EXCEPT ![o.opt] = o.arg]
    BY <1>6 DEF SetsValue
  <2>2. opt = [k \in OptKinds |-> opt[k]]
    BY <1>1 DEF OptTypes
  <2>3. /\ opt' = [k \in OptKinds |-> opt'[k]]
        /\ opt'[o.opt] = o.arg
        /\ \A k \in OptKinds : k # o.opt => opt'[k] = opt[k]
    BY <2>1, <2>2, OptSet
  <2>4. \A f \in Flags : opt'[f] \in BOOLEAN
    BY <1>1, <2>1, <2>3, Zenon DEF OptTypes, OptKinds
  <2>5. "mode" \in OptKinds /\ "romset" \in OptKinds
        /\ "soundfont" \in OptKinds /\ "mt32-rstereo" \in OptKinds
        /\ "soundfont" \in Numbers /\ "mt32-rstereo" \in Numbers
    BY DEF OptKinds, Settings, Numbers
  <2>6. opt'["mode"] \in {"unchanged", "munt", "fluid"}
    BY <1>1, <2>3, <2>5, OptionsAssumption DEF OptTypes
  <2>7. opt'["romset"] \in {"unchanged"} \cup Romsets
    <3>1. o.opt = "romset" => o.arg \in Romsets
      BY <1>6 DEF SetsValue
    <3>2. QED BY <1>1, <2>3, <2>5, <3>1 DEF OptTypes
  <2>8. opt'["soundfont"] \in Int /\ opt'["mt32-rstereo"] \in Int
    BY <1>1, <2>3, <2>5, OptionsAssumption DEF OptTypes
  <2>9. OptTypes'
    BY <2>3, <2>4, <2>6, <2>7, <2>8 DEF OptTypes
  <2>10. MidiTypes'
    BY <1>1, <1>6 DEF SetsValue, MidiTypes
  <2>11. QED
    BY <1>3, <1>4, <2>9, <2>10, TypePartsNext
<1>7. CASE TakeMidi(o)
  <2>1. o.arg \in Seq(Int)
    BY <1>7, OptionsAssumption DEF TakeMidi
  <2>2. Stored(o.arg) \in Nat /\ Stored(o.arg) <= Len(o.arg)
    BY <2>1, StoredFacts
  <2>3. midi_len' = midi_len + Stored(o.arg)
    BY <1>7 DEF TakeMidi
  <2>4. midi_len' \in Nat
    BY <1>1, <2>2, <2>3 DEF MidiTypes
  <2>5. PICK k \in Nat :
          /\ k <= Len(o.arg)
          /\ midi_buf' = [j \in 1 .. MidiBufSize |->
                             IF j <= k \/ (j = k + 1 /\ (j <= Len(o.arg) \/ k = 0))
                             THEN ByteOf(o.arg, j) ELSE midi_buf[j]]
    BY <1>7, <2>2 DEF TakeMidi
  <2>6. \A j \in 1 .. MidiBufSize : ByteOf(o.arg, j) \in 0 .. 255
    <3>1. SUFFICES ASSUME NEW j \in 1 .. MidiBufSize
                   PROVE  ByteOf(o.arg, j) \in 0 .. 255
      OBVIOUS
    <3>2. j <= Len(o.arg) => o.arg[j] \in Int
      BY <2>1, <3>1, BoundsAssumption
    <3>3. ASSUME j <= Len(o.arg) PROVE o.arg[j] % 256 \in 0 .. 255
      <4>1. o.arg[j] \in Int
        BY <3>2, <3>3
      <4>2. QED BY <4>1
    <3>4. ByteOf(o.arg, j) \in {0, 255}
          \/ (j <= Len(o.arg) /\ ByteOf(o.arg, j) = o.arg[j] % 256)
      <4>1. Len(o.arg) \in Nat /\ j \in Int
        BY <2>1, BoundsAssumption
      <4>2. j > Len(o.arg) \/ j <= Len(o.arg)
        BY <4>1
      <4>3. QED BY <4>2 DEF ByteOf
    <3>5. QED BY <3>3, <3>4
  <2>7. \A j \in 1 .. MidiBufSize : midi_buf[j] \in 0 .. 255
    BY <1>1 DEF MidiTypes
  <2>8. midi_buf' \in [1 .. MidiBufSize -> 0 .. 255]
    <3>1. \A j \in 1 .. MidiBufSize : midi_buf'[j] \in 0 .. 255
      <4>1. SUFFICES ASSUME NEW j \in 1 .. MidiBufSize PROVE midi_buf'[j] \in 0 .. 255
        OBVIOUS
      <4>2. midi_buf'[j] \in {ByteOf(o.arg, j), midi_buf[j]}
        BY <2>5
      <4>3. QED BY <4>2, <2>6, <2>7
    <3>2. midi_buf' = [j \in 1 .. MidiBufSize |-> midi_buf'[j]]
      BY <2>5
    <3>3. QED BY <3>1, <3>2
  <2>9. MidiTypes'
    BY <2>4, <2>8 DEF MidiTypes
  <2>10. OptTypes'
    BY <1>1, <1>7 DEF TakeMidi, OptTypes
  <2>11. QED
    BY <1>3, <1>4, <2>9, <2>10, TypePartsNext
<1>8. CASE SetsNothing(o)
  <2>1. OptTypes' /\ MidiTypes'
    BY <1>1, <1>8 DEF SetsNothing, OptTypes, MidiTypes
  <2>2. QED
    BY <1>3, <1>4, <2>1, TypePartsNext
<1>9. QED
  BY <1>5, <1>6, <1>7, <1>8 DEF TakenAs

\* No stage touches what the options said.
LEMMA WorkKeepsOptions == Work => UNCHANGED parseVars
  BY DEF Work, parseVars, EndOfOptions, InitBackend, SkipStage, SendStage, Reboot,
     RebootDelay, ShowBitmap, OpenFile, PlayMessage, EndPlaying, Finish

LEMMA StageKept ==
    ASSUME OrderInv, stage \in 1 .. Len(Stages) + 1, Work
    PROVE  stage' \in 1 .. Len(Stages) + 1
<1>1. Len(Stages) = 14
  BY DEF Stages
<1>2. \/ stage' = stage
      \/ stage' = stage + 1 /\ stage <= 14
  BY <1>1 DEF Work, EndOfOptions, InitBackend, SkipStage, SendStage, Reboot, RebootDelay,
     ShowBitmap, OpenFile, PlayMessage, EndPlaying, Finish, AtStage, OrderInv, PlayerStage
<1>3. QED
  BY <1>1, <1>2

LEMMA TypeKept == OrderInv /\ TypeInv /\ [Next]_vars => TypeInv'
<1> SUFFICES ASSUME OrderInv, TypeInv, [Next]_vars PROVE TypeInv'
  OBVIOUS
<1>1. OptTypes /\ MidiTypes /\ GivenTypes /\ PlaceTypes
  BY TypeParts
<1>2. CASE TakeOption
  BY <1>2, TakenTypes
<1>3. CASE Work
  <2>1. UNCHANGED <<given, opt, midi_buf, midi_len>>
    BY <1>3, WorkKeepsOptions DEF parseVars
  <2>2. OptTypes' /\ MidiTypes' /\ GivenTypes'
    BY <1>1, <2>1 DEF OptTypes, MidiTypes, GivenTypes
  <2>3. stage' \in 1 .. Len(Stages) + 1
    BY <1>1, <1>3, StageKept DEF PlaceTypes
  <2>4. /\ pc' \in {"parse", "init", "stages", "rebooting", "playing", "ended"}
        /\ port' \in {"closed", "open"}
        /\ outcome' \in {"none", "success", "failure", "usage", "listed", "aborted"}
    BY <1>1, <1>3 DEF PlaceTypes, Work, EndOfOptions, InitBackend, SkipStage, SendStage,
       Reboot, RebootDelay, ShowBitmap, OpenFile, PlayMessage, EndPlaying, FailPlaying,
       Finish, AtStage
  <2>5. played' \in 0 .. MaxSyx
    <3>1. played' = played \/ (played < MaxSyx /\ played' = played + 1)
      BY <1>3 DEF Work, EndOfOptions, InitBackend, SkipStage, SendStage, Reboot,
         RebootDelay, ShowBitmap, OpenFile, PlayMessage, EndPlaying, Finish
    <3>2. played \in 0 .. MaxSyx /\ MaxSyx \in Nat
      BY <1>1, BoundsAssumption DEF PlaceTypes
    <3>3. played + 1 \in Nat /\ (played < MaxSyx => played + 1 <= MaxSyx)
      BY <3>2
    <3>4. QED BY <3>1, <3>2, <3>3
  <2>6. lost' = lost \/ lost' = TRUE
    BY <1>3, Zenon DEF Work, EndOfOptions, InitBackend, SkipStage, SendStage, Reboot,
       RebootDelay, ShowBitmap, OpenFile, PlayMessage, EndPlaying, Finish, SendMessage
  <2>7. lost' \in BOOLEAN
    BY <1>1, <2>6, Zenon DEF PlaceTypes
  <2>8. PlaceTypes'
    BY <2>3, <2>4, <2>5, <2>7 DEF PlaceTypes
  <2>9. QED
    BY <2>2, <2>8, TypePartsNext
<1>4. CASE UNCHANGED vars
  <2>1. UNCHANGED <<pc, given, opt, midi_buf, midi_len, stage, port, outcome, played, lost>>
    BY <1>4 DEF vars, parseVars
  <2>2. OptTypes' /\ MidiTypes' /\ GivenTypes'
    BY <1>1, <2>1 DEF OptTypes, MidiTypes, GivenTypes
  <2>3. PlaceTypes'
    BY <1>1, <2>1 DEF PlaceTypes
  <2>4. QED BY <2>2, <2>3, TypePartsNext
<1>5. QED
  BY <1>2, <1>3, <1>4 DEF Next

LEMMA TypeAlways == SafeSpec => []TypeInv
BY OrderAlways, TypeInitially, TypeKept, PTL DEF SafeSpec

\* Types and ranges of main's variables, however many options are given and
\* however long the lists behind -M are.
THEOREM AlwaysTypeOK == SafeSpec => []TypeOK
<1>1. TypeInv => TypeOK
  BY DEF TypeInv
<1>2. QED
  BY <1>1, TypeAlways, PTL

-----------------------------------------------------------------------------
(* While main() has found no fault, its variables say what was given last. *)

Unset(k) == IF k \in {"mode", "romset"} THEN "unchanged" ELSE IF k \in Numbers THEN -1 ELSE ""

OptSays ==
    /\ \A k \in Flags : opt[k] = (GivenAt(k) # {})
    /\ \A k \in OptKinds \ Flags :
          opt[k] = IF GivenAt(k) = {} THEN Unset(k) ELSE LastGiven(k)
    /\ GivenAt("romset") # {} => LastGiven("romset") \in Romsets
MidiSays ==
    /\ GivenAt("midi") = {} => midi_len = 0
    /\ Cardinality(GivenAt("midi")) = 1 =>
          /\ LastGiven("midi") \in Seq(Int)
          /\ midi_len = Stored(LastGiven("midi"))
          /\ \A j \in 1 .. midi_len : midi_buf[j] = LastGiven("midi")[j] % 256
OptInv == pc # "ended" \/ outcome = "success" => OptSays /\ MidiSays

LEMMA OptInitially == Init => OptInv
<1> SUFFICES ASSUME Init PROVE OptInv
  OBVIOUS
<1>1. given = <<>> /\ midi_len = 0
  BY DEF Init
<1>2. \A k : GivenAt(k) = {}
  BY <1>1 DEF GivenAt
<1>3. Cardinality(GivenAt("midi")) # 1
  BY <1>2, FS_EmptySet
<1>4. opt = [k \in OptKinds |->
                IF k \in Flags THEN FALSE
                ELSE IF k \in {"mode", "romset"} THEN "unchanged"
                ELSE IF k \in Numbers THEN -1 ELSE ""]
  BY DEF Init, OptKinds
<1>5. \A k \in Flags : opt[k] = FALSE
  BY <1>4 DEF OptKinds
<1>6. \A k \in OptKinds \ Flags : opt[k] = Unset(k)
  BY <1>4 DEF Unset
<1>7. \A k \in Flags : opt[k] = (GivenAt(k) # {})
  BY <1>2, <1>5
<1>8. QED
  BY <1>1, <1>2, <1>3, <1>6, <1>7 DEF OptInv, OptSays, MidiSays

\* The option taken is the last of its kind, and leaves the other kinds alone.
LEMMA GivenNext ==
    ASSUME given \in Seq(Options), NEW o \in Options, given' = Append(given, o)
    PROVE  /\ GivenAt(o.opt)' = GivenAt(o.opt) \cup {Len(given) + 1}
           /\ LastGiven(o.opt)' = o.arg
           /\ \A k : k # o.opt =>
                 /\ GivenAt(k)' = GivenAt(k)
                 /\ GivenAt(k) # {} => LastGiven(k)' = LastGiven(k)
<1>1. \A k : /\ At(given', k) =
                  IF o.opt = k THEN At(given, k) \cup {Len(given) + 1} ELSE At(given, k)
             /\ o.opt = k => LastOf(given', k) = o.arg
             /\ o.opt # k /\ At(given, k) # {} => LastOf(given', k) = LastOf(given, k)
  BY OneMoreOption
<1>2. \A k : GivenAt(k) = At(given, k) /\ LastGiven(k) = LastOf(given, k)
  BY AtGiven
<1>3. \A k : GivenAt(k)' = At(given', k) /\ LastGiven(k)' = LastOf(given', k)
  BY AtGivenNext
<1>4. QED
  BY <1>1, <1>2, <1>3

LEMMA TakenSays ==
    ASSUME TypeInv, OptInv, TakeOption PROVE OptInv'
<1> SUFFICES ASSUME pc' # "ended" \/ outcome' = "success" PROVE OptSays' /\ MidiSays'
  BY DEF OptInv
<1> PICK o \in Options : Take(o) /\ TakenAs(o)
  BY TakenKinds
<1>1. pc = "parse" /\ given' = Append(given, o) /\ given \in Seq(Options)
  BY TypeParts DEF Take, GivenTypes
<1>2. OptSays /\ MidiSays /\ OptTypes /\ MidiTypes
  BY <1>1, TypeParts DEF OptInv
<1>3. /\ GivenAt(o.opt)' = GivenAt(o.opt) \cup {Len(given) + 1}
      /\ GivenAt(o.opt)' # {}
      /\ LastGiven(o.opt)' = o.arg
      /\ \A k : k # o.opt =>
            /\ GivenAt(k)' = GivenAt(k)
            /\ GivenAt(k) # {} => LastGiven(k)' = LastGiven(k)
  BY <1>1, GivenNext
<1>4. "midi" \notin OptKinds /\ "backend" \notin OptKinds /\ "romset" \notin Flags
  BY DEF OptKinds, Flags, Texts, Files, Settings, Numbers
<1>5. ASSUME o.opt # "midi", UNCHANGED <<midi_buf, midi_len>> PROVE MidiSays'
  <2>1. /\ GivenAt("midi")' = GivenAt("midi")
        /\ GivenAt("midi") # {} => LastGiven("midi")' = LastGiven("midi")
    BY <1>3, <1>5
  <2>2. Cardinality(GivenAt("midi")) = 1 => GivenAt("midi") # {}
    BY FS_EmptySet
  <2>3. CASE Cardinality(GivenAt("midi")) = 1
    BY <1>2, <1>5, <2>1, <2>2, <2>3 DEF MidiSays
  <2>4. CASE Cardinality(GivenAt("midi")) # 1
    BY <1>2, <1>5, <2>1, <2>4 DEF MidiSays
  <2>5. QED BY <2>3, <2>4
<1>6. ASSUME o.opt \notin OptKinds, UNCHANGED opt PROVE OptSays'
  <2>1. "romset" \in OptKinds /\ Flags \subseteq OptKinds
    BY DEF OptKinds, Settings
  <2>2. \A k \in OptKinds : GivenAt(k)' = GivenAt(k)
                         /\ (GivenAt(k) # {} => LastGiven(k)' = LastGiven(k))
    BY <1>3, <1>6
  <2>3. \A k \in Flags : opt'[k] = (GivenAt(k)' # {})
    BY <1>2, <1>6, <2>1, <2>2, Zenon DEF OptSays
  <2>4. \A k \in OptKinds \ Flags :
           opt'[k] = IF GivenAt(k)' = {} THEN Unset(k) ELSE LastGiven(k)'
    BY <1>2, <1>6, <2>2 DEF OptSays
  <2>5. GivenAt("romset")' # {} => LastGiven("romset")' \in Romsets
    BY <1>2, <2>1, <2>2 DEF OptSays
  <2>6. QED BY <2>3, <2>4, <2>5 DEF OptSays, Unset
<1>7. CASE SetsFlag(o)
  <2>1. o.opt \in Flags /\ o.opt \in OptKinds /\ o.opt # "midi" /\ o.opt # "romset"
    BY <1>4, <1>7 DEF SetsFlag, OptKinds
  <2>2. /\ opt'[o.opt] = TRUE
        /\ \A k \in OptKinds : k # o.opt => opt'[k] = opt[k]
    BY <1>2, <1>7, <2>1, OptSet DEF SetsFlag, OptTypes
  <2>3. \A k \in Flags : opt'[k] = (GivenAt(k)' # {})
    BY <1>2, <1>3, <2>1, <2>2, Zenon DEF OptSays, OptKinds
  <2>4. \A k \in OptKinds \ Flags :
           opt'[k] = IF GivenAt(k)' = {} THEN Unset(k) ELSE LastGiven(k)'
    BY <1>2, <1>3, <2>1, <2>2 DEF OptSays
  <2>5. GivenAt("romset")' # {} => LastGiven("romset")' \in Romsets
    BY <1>2, <1>3, <2>1 DEF OptSays
  <2>6. OptSays'
    BY <2>3, <2>4, <2>5 DEF OptSays, Unset
  <2>7. QED BY <1>5, <1>7, <2>1, <2>6 DEF SetsFlag
<1>8. CASE SetsValue(o)
  <2>1. o.opt \in OptKinds \ Flags /\ o.opt # "midi"
    BY <1>4, <1>8 DEF SetsValue
  <2>2. /\ opt'[o.opt] = o.arg
        /\ \A k \in OptKinds : k # o.opt => opt'[k] = opt[k]
    BY <1>2, <1>8, <2>1, OptSet DEF SetsValue, OptTypes
  <2>3. \A k \in Flags : opt'[k] = (GivenAt(k)' # {})
    BY <1>2, <1>3, <2>1, <2>2, Zenon DEF OptSays, OptKinds
  <2>4. \A k \in OptKinds \ Flags :
           opt'[k] = IF GivenAt(k)' = {} THEN Unset(k) ELSE LastGiven(k)'
    BY <1>2, <1>3, <2>1, <2>2 DEF OptSays
  <2>5. GivenAt("romset")' # {} => LastGiven("romset")' \in Romsets
    <3>1. CASE o.opt = "romset"
      BY <1>3, <1>8, <3>1 DEF SetsValue
    <3>2. CASE o.opt # "romset"
      BY <1>2, <1>3, <3>2 DEF OptSays
    <3>3. QED BY <3>1, <3>2
  <2>6. OptSays'
    BY <2>3, <2>4, <2>5 DEF OptSays, Unset
  <2>7. QED BY <1>5, <1>8, <2>1, <2>6 DEF SetsValue
<1>9. CASE TakeMidi(o)
  <2>1. o.opt = "midi" /\ o.arg \in Seq(Int) /\ UNCHANGED opt
    BY <1>9, OptionsAssumption DEF TakeMidi
  <2>2. OptSays'
    BY <1>4, <1>6, <2>1
  <2>3. GivenAt("midi")' = GivenAt("midi") \cup {Len(given) + 1}
        /\ LastGiven("midi")' = o.arg
    BY <1>3, <2>1
  <2>4. ASSUME Cardinality(GivenAt("midi")') = 1
        PROVE  /\ midi_len' = Stored(o.arg)
               /\ \A j \in 1 .. midi_len' : midi_buf'[j] = o.arg[j] % 256
    <3>1. Len(given) + 1 \notin GivenAt("midi") /\ IsFiniteSet(GivenAt("midi"))
      <4>1. GivenAt("midi") \subseteq 1 .. Len(given) /\ Len(given) \in Nat
        BY <1>1 DEF GivenAt
      <4>2. IsFiniteSet(1 .. Len(given))
        BY <4>1, FS_Interval
      <4>3. IsFiniteSet(GivenAt("midi"))
        BY <4>1, <4>2, FS_Subset
      <4>4. QED BY <4>1, <4>3
    <3>2. Cardinality(GivenAt("midi")') = Cardinality(GivenAt("midi")) + 1
      BY <2>3, <3>1, FS_AddElement
    <3>3. Cardinality(GivenAt("midi")) = 0
      BY <2>4, <3>1, <3>2, FS_CardinalityType
    <3>4. GivenAt("midi") = {}
      BY <3>1, <3>3, FS_EmptySet
    <3>5. midi_len = 0 /\ Stored(o.arg) \in Nat /\ Stored(o.arg) <= MidiBufSize
      BY <1>2, <2>1, <3>4, StoredFacts DEF MidiSays
    <3>6. midi_len' = Stored(o.arg)
      BY <1>9, <3>5 DEF TakeMidi
    <3>7. \A j \in 1 .. MidiBufSize : j <= Stored(o.arg) => midi_buf'[j] = o.arg[j] % 256
      <4>1. SUFFICES ASSUME NEW j \in 1 .. MidiBufSize, j <= Stored(o.arg)
                     PROVE  midi_buf'[j] = o.arg[j] % 256
        OBVIOUS
      <4>2. midi_buf'[j] = ByteOf(o.arg, j)
        BY <1>9, <4>1 DEF TakeMidi
      <4>3. j <= Len(o.arg) /\ IsNumber(o.arg[j])
        BY <2>1, <4>1, StoredFacts
      <4>4. j \in Int /\ Len(o.arg) \in Nat
        BY <2>1, BoundsAssumption
      <4>5. ~(j > Len(o.arg)) /\ o.arg[j] # NoNumber /\ o.arg[j] # TooLarge
        BY <4>3, <4>4 DEF IsNumber
      <4>6. QED BY <4>2, <4>5 DEF ByteOf
    <3>8. QED
      BY <3>5, <3>6, <3>7, BoundsAssumption
  <2>5. GivenAt("midi")' # {}
    BY <2>3
  <2>6. Stored(LastGiven("midi"))' = Stored(o.arg) /\ LastGiven("midi")' \in Seq(Int)
    BY <2>1, <2>3 DEF Stored
  <2>7. CASE Cardinality(GivenAt("midi")') = 1
    <3>1. midi_len' = Stored(LastGiven("midi"))'
      BY <2>4, <2>6, <2>7
    <3>2. \A j \in 1 .. midi_len' : midi_buf'[j] = LastGiven("midi")'[j] % 256
      BY <2>3, <2>4, <2>7
    <3>3. QED BY <2>2, <2>5, <2>6, <3>1, <3>2 DEF MidiSays
  <2>8. CASE Cardinality(GivenAt("midi")') # 1
    BY <2>2, <2>5, <2>8 DEF MidiSays
  <2>9. QED BY <2>7, <2>8
<1>10. CASE SetsNothing(o)
  <2>1. /\ o.opt = "backend" \/ (pc' = "ended" /\ outcome' \in {"failure", "usage", "listed"})
        /\ UNCHANGED <<opt, midi_buf, midi_len>>
    BY <1>10 DEF SetsNothing
  <2>2. o.opt = "backend"
    BY <2>1
  <2>3. QED BY <1>4, <1>5, <1>6, <2>1, <2>2
<1>11. QED
  BY <1>7, <1>8, <1>9, <1>10 DEF TakenAs

LEMMA SaysKept ==
    ASSUME UNCHANGED <<given, opt, midi_buf, midi_len>>
    PROVE  (OptSays => OptSays') /\ (MidiSays => MidiSays')
<1>1. \A k : GivenAt(k)' = GivenAt(k) /\ LastGiven(k)' = LastGiven(k)
  BY AtGiven, AtGivenNext
<1>2. ASSUME OptSays PROVE OptSays'
  <2>1. \A k \in Flags : opt'[k] = (GivenAt(k)' # {})
    BY <1>1, <1>2, Zenon DEF OptSays
  <2>2. \A k \in OptKinds \ Flags :
           opt'[k] = IF GivenAt(k)' = {} THEN Unset(k) ELSE LastGiven(k)'
    BY <1>1, <1>2 DEF OptSays
  <2>3. GivenAt("romset")' # {} => LastGiven("romset")' \in Romsets
    BY <1>1, <1>2 DEF OptSays
  <2>4. QED BY <2>1, <2>2, <2>3 DEF OptSays, Unset
<1>3. ASSUME MidiSays PROVE MidiSays'
  BY <1>1, <1>3 DEF MidiSays, Stored
<1>4. QED
  BY <1>2, <1>3

LEMMA OptKept == TypeInv /\ OptInv /\ [Next]_vars => OptInv'
<1> SUFFICES ASSUME TypeInv, OptInv, [Next]_vars PROVE OptInv'
  OBVIOUS
<1>1. CASE TakeOption
  BY <1>1, TakenSays
<1>2. CASE Work
  <2>1. UNCHANGED <<given, opt, midi_buf, midi_len>>
    BY <1>2, WorkKeepsOptions DEF parseVars
  <2>2. pc # "ended"
    BY <1>2 DEF Work, EndOfOptions, InitBackend, SkipStage, SendStage, Reboot, RebootDelay,
       ShowBitmap, OpenFile, PlayMessage, EndPlaying, Finish, AtStage
  <2>3. QED
    BY <2>1, <2>2, SaysKept DEF OptInv
<1>3. CASE UNCHANGED vars
  BY <1>3, SaysKept DEF vars, parseVars, OptInv
<1>4. QED
  BY <1>1, <1>2, <1>3 DEF Next

-----------------------------------------------------------------------------
(* While main() has found no fault, it has sent what the stages behind it are *)
(* for and nothing else.                                                      *)

Reached(k) == (\E j \in 1 .. stage - 1 : Stages[j] = k) \/ (pc = "rebooting" /\ k = "reboot")
Once == \A j, l \in 1 .. Len(sent) : sent[j].kind = sent[l].kind /\ j # l => sent[j].kind = "syx"
SentSays ==
    /\ \A k \in SentKinds : (Reached(k) \/ (pc = "playing" /\ k = "syx")) /\ Wanted(k)
    /\ \A k : \A j \in 1 .. Len(sent) :
          sent[j].kind = k /\ k # "syx" => sent[j] = Message(k)
    /\ \A k : Reached(k) /\ Wanted(k) => k \in SentKinds
    /\ Once
    /\ pc = "playing" => Wanted("syx")
    /\ played > 0 => "syx" \in SentKinds
    /\ pc = "ended" => stage = PlayerStage + 1
SentInv == pc # "ended" \/ outcome = "success" => SentSays

\* Each stage has a place of its own.
Place(s) ==
    CASE s = "reboot" -> 1 [] s = "mode" -> 2 [] s = "romset" -> 3
      [] s = "soundfont" -> 4 [] s = "mt32-rstereo" -> 5 [] s = "mt32-reset" -> 6
      [] s = "gm-reset" -> 7 [] s = "gs-reset" -> 8 [] s = "mt32-txt" -> 9
      [] s = "sc55-txt" -> 10 [] s = "midi" -> 11 [] s = "sc55-bmp" -> 12
      [] s = "sc55-btxt" -> 13 [] s = "syx" -> 14
LEMMA PlaceOf == \A j \in 1 .. 14 : Place(Stages[j]) = j
<1> SUFFICES ASSUME NEW j \in 1 .. 14 PROVE Place(Stages[j]) = j
  OBVIOUS
<1>1. \/ j = 1 \/ j = 2 \/ j = 3 \/ j = 4 \/ j = 5 \/ j = 6 \/ j = 7
      \/ j = 8 \/ j = 9 \/ j = 10 \/ j = 11 \/ j = 12 \/ j = 13 \/ j = 14
  OBVIOUS
<1>2. QED
  BY <1>1 DEF Place, Stages

\* Leaving a stage brings that one stage behind main().
LEMMA StagePassed ==
    ASSUME NEW s, stage \in 1 .. 14, Stages[stage] = s
    PROVE  /\ ~ \E j \in 1 .. stage - 1 : Stages[j] = s
           /\ \A k : (\E j \in 1 .. stage : Stages[j] = k) <=>
                        (\E j \in 1 .. stage - 1 : Stages[j] = k) \/ k = s
<1>1. \A j \in 1 .. stage - 1 : j \in 1 .. 14 /\ j # stage
  OBVIOUS
<1>2. ~ \E j \in 1 .. stage - 1 : Stages[j] = s
  BY <1>1, PlaceOf
<1>3. 1 .. stage = (1 .. stage - 1) \cup {stage}
  OBVIOUS
<1>4. QED
  BY <1>2, <1>3

LEMMA PassedNext ==
    ASSUME NEW s, AtStage(s), stage \in Nat \ {0}, stage' = stage + 1, pc' = pc
    PROVE  /\ ~Reached(s)
           /\ \A k : Reached(k)' <=> Reached(k) \/ k = s
<1>1. stage \in 1 .. 14 /\ Stages[stage] = s /\ pc = "stages"
  BY DEF AtStage, Stages
<1>2. stage' - 1 = stage
  BY <1>1
<1>3. QED
  BY <1>1, <1>2, StagePassed DEF Reached

\* One message more.
LEMMA OneMessage ==
    ASSUME NEW m, IsSequence(sent), sent' = Append(sent, m)
    PROVE  /\ SentKinds' = SentKinds \cup {m.kind}
           /\ \A j \in 1 .. Len(sent') :
                 sent'[j] = m \/ (j \in 1 .. Len(sent) /\ sent'[j] = sent[j])
           /\ Once /\ (m.kind # "syx" => m.kind \notin SentKinds) => Once'
<1>1. /\ Len(sent) \in Nat /\ Len(sent') = Len(sent) + 1
      /\ \A j \in 1 .. Len(sent) : sent'[j] = sent[j]
      /\ sent'[Len(sent) + 1] = m
  BY Appended
<1>2. 1 .. Len(sent') = (1 .. Len(sent)) \cup {Len(sent) + 1}
  BY <1>1
<1>3. SentKinds' = SentKinds \cup {m.kind}
  BY <1>1, <1>2 DEF SentKinds
<1>4. \A j \in 1 .. Len(sent') :
         sent'[j] = m \/ (j \in 1 .. Len(sent) /\ sent'[j] = sent[j])
  BY <1>1, <1>2
<1>5. ASSUME Once, m.kind # "syx" => m.kind \notin SentKinds PROVE Once'
  <2>1. SUFFICES ASSUME NEW j \in 1 .. Len(sent'), NEW l \in 1 .. Len(sent'),
                        sent'[j].kind = sent'[l].kind, j # l, sent'[j].kind # "syx"
                 PROVE  FALSE
    BY DEF Once
  <2>2. \A i \in 1 .. Len(sent) : sent[i].kind \in SentKinds
    BY DEF SentKinds
  <2>3. CASE j \in 1 .. Len(sent) /\ l \in 1 .. Len(sent)
    BY <1>1, <1>5, <2>1, <2>3 DEF Once
  <2>4. CASE j = Len(sent) + 1 /\ l \in 1 .. Len(sent)
    BY <1>1, <1>5, <2>1, <2>2, <2>4
  <2>5. CASE j \in 1 .. Len(sent) /\ l = Len(sent) + 1
    BY <1>1, <1>5, <2>1, <2>2, <2>5
  <2>6. QED BY <1>2, <2>1, <2>3, <2>4, <2>5
<1>6. QED
  BY <1>3, <1>4, <1>5

LEMMA StillWanted ==
    ASSUME Work \/ UNCHANGED vars
    PROVE  /\ \A k : Wanted(k)' = Wanted(k)
           /\ \A k : Message(k)' = Message(k)
           /\ \A k : Value(k)' = Value(k)
<1>1. UNCHANGED <<opt, midi_buf, midi_len>>
  BY WorkKeepsOptions DEF parseVars, vars
<1>2. QED
  BY <1>1 DEF Wanted, Message, Value

\* A stage sends its message and is behind main().
LEMMA StageSends ==
    ASSUME IsSequence(sent), SentSays, Work,
           NEW s, s # "syx", Wanted(s), ~Reached(s), sent' = Append(sent, Message(s)),
           \A k : Reached(k)' <=> Reached(k) \/ k = s,
           pc = "stages", pc' \in {"stages", "rebooting"}, played' = played
    PROVE  SentSays'
<1>1. Message(s).kind = s
  BY DEF Message
<1>2. s \notin SentKinds
  BY DEF SentSays
<1>3. /\ SentKinds' = SentKinds \cup {s}
      /\ \A j \in 1 .. Len(sent') :
            sent'[j] = Message(s) \/ (j \in 1 .. Len(sent) /\ sent'[j] = sent[j])
      /\ Once'
  BY <1>1, <1>2, OneMessage DEF SentSays
<1>4. \A k : Wanted(k)' = Wanted(k) /\ Message(k)' = Message(k)
  BY StillWanted
<1>5. \A k \in SentKinds' : Reached(k)' /\ Wanted(k)'
  BY <1>3, <1>4 DEF SentSays
<1>6. \A k : \A j \in 1 .. Len(sent') :
         sent'[j].kind = k /\ k # "syx" => sent'[j] = Message(k)'
  BY <1>1, <1>3, <1>4 DEF SentSays
<1>7. \A k : Reached(k)' /\ Wanted(k)' => k \in SentKinds'
  BY <1>3, <1>4 DEF SentSays
<1>8. QED
  BY <1>3, <1>5, <1>6, <1>7 DEF SentSays

\* A step that sends nothing.
LEMMA SendsNothing ==
    ASSUME SentSays, Work \/ UNCHANGED vars, sent' = sent,
           \A k : Reached(k)' => Reached(k) \/ ~Wanted(k) \/ (k = "syx" /\ "syx" \in SentKinds),
           \A k : Reached(k) \/ (pc = "playing" /\ k = "syx") =>
                     Reached(k)' \/ (pc' = "playing" /\ k = "syx"),
           pc' = "playing" => Wanted("syx"),
           played' = played,
           pc' = "ended" => stage' = PlayerStage + 1
    PROVE  SentSays'
<1>1. \A k : Wanted(k)' = Wanted(k) /\ Message(k)' = Message(k)
  BY StillWanted
<1>2. SentKinds' = SentKinds
  BY DEF SentKinds
<1>3. Once'
  BY DEF Once, SentSays
<1>4. \A k \in SentKinds' :
         (Reached(k)' \/ (pc' = "playing" /\ k = "syx")) /\ Wanted(k)'
  BY <1>1, <1>2 DEF SentSays
<1>5. \A k : \A j \in 1 .. Len(sent') :
         sent'[j].kind = k /\ k # "syx" => sent'[j] = Message(k)'
  BY <1>1 DEF SentSays
<1>6. \A k : Reached(k)' /\ Wanted(k)' => k \in SentKinds'
  BY <1>1, <1>2 DEF SentSays
<1>7. (pc' = "playing" => Wanted("syx")') /\ (played' > 0 => "syx" \in SentKinds')
  BY <1>1, <1>2 DEF SentSays
<1>8. QED
  BY <1>3, <1>4, <1>5, <1>6, <1>7 DEF SentSays

LEMMA SentInitially == Init => SentInv
<1> SUFFICES ASSUME Init PROVE SentInv
  OBVIOUS
<1>1. sent = <<>> /\ stage = 1 /\ pc = "parse" /\ played = 0
  BY DEF Init
<1>2. SentKinds = {} /\ Len(sent) = 0 /\ \A k : ~Reached(k)
  BY <1>1 DEF SentKinds, Reached
<1>3. QED
  BY <1>1, <1>2 DEF SentInv, SentSays, Once

LEMMA SentKept == OrderInv /\ TypeInv /\ SentInv /\ [Next]_vars => SentInv'
<1> SUFFICES ASSUME OrderInv, TypeInv, SentInv, [Next]_vars,
                    pc' # "ended" \/ outcome' = "success"
             PROVE  SentSays'
  BY DEF SentInv
<1>1. IsSequence(sent) /\ stage \in 1 .. 15 /\ stage \in Nat \ {0}
  BY TypeParts DEF OrderInv, PlaceTypes, Stages
<1>2. CASE TakeOption
  <2>1. pc = "parse" /\ sent' = sent /\ pc' = "parse"
    BY <1>2, TakenOption
  <2>2. stage' = stage /\ played' = played
    BY <1>2, TakenKinds DEF Take
  <2>3. sent' = <<>> /\ stage' = 1
    BY <2>1, <2>2 DEF OrderInv
  <2>4. SentKinds = {}
    BY <2>1, <2>3 DEF SentKinds
  <2>5. played' > 0 => FALSE
    BY <2>1, <2>2, <2>4 DEF SentInv, SentSays
  <2>6. SentKinds' = {} /\ Len(sent') = 0 /\ \A k : ~Reached(k)'
    BY <2>1, <2>3 DEF SentKinds, Reached
  <2>7. QED
    BY <2>1, <2>3, <2>5, <2>6 DEF SentSays, Once
<1>3. CASE UNCHANGED vars
  <2>1. SentSays
    BY <1>3 DEF vars, SentInv
  <2>2. UNCHANGED <<pc, stage, sent, played>>
    BY <1>3 DEF vars
  <2>3. \A k : Reached(k)' <=> Reached(k)
    BY <2>2 DEF Reached
  <2>4. (pc = "playing" => Wanted("syx")) /\ (pc = "ended" => stage = PlayerStage + 1)
    BY <2>1 DEF SentSays
  <2>5. QED
    BY <1>3, <2>1, <2>2, <2>3, <2>4, SendsNothing
<1>4. CASE Work
  <2> USE <1>4
  <2>1. pc # "ended" /\ SentSays
    BY DEF Work, EndOfOptions, InitBackend, SkipStage, SendStage, Reboot, RebootDelay,
       ShowBitmap, OpenFile, PlayMessage, EndPlaying, Finish, AtStage, SentInv
  <2>2. CASE EndOfOptions \/ InitBackend
    <3>1. /\ stage' = stage /\ sent' = sent /\ played' = played
          /\ pc \in {"parse", "init"} /\ pc' \in {"init", "stages"}
      BY <2>2 DEF EndOfOptions, InitBackend
    <3>2. \A k : Reached(k)' <=> Reached(k)
      BY <3>1 DEF Reached
    <3>3. QED
      BY <2>1, <3>1, <3>2, SendsNothing
  <2>3. CASE SkipStage
    <3> PICK s : AtStage(s) /\ ~Wanted(s)
      BY <2>3 DEF SkipStage
    <3>1. /\ stage' = stage + 1 /\ sent' = sent /\ played' = played
          /\ pc = "stages" /\ pc' = pc
      BY <2>3 DEF SkipStage, AtStage
    <3>2. \A k : Reached(k)' <=> Reached(k) \/ k = s
      BY <1>1, <3>1, PassedNext
    <3>3. QED
      BY <2>1, <3>1, <3>2, SendsNothing
  <2>4. CASE SendStage
    <3> PICK s \in SimpleStages : AtStage(s) /\ Wanted(s) /\ SendMessage(Message(s))
      BY <2>4 DEF SendStage
    <3>1. /\ stage' = stage + 1 /\ sent' = Append(sent, Message(s)) /\ played' = played
          /\ pc = "stages" /\ pc' = pc /\ s # "syx"
      BY <2>4 DEF SendStage, AtStage, SendMessage, SimpleStages, Texts
    <3>2. ~Reached(s) /\ \A k : Reached(k)' <=> Reached(k) \/ k = s
      BY <1>1, <3>1, PassedNext
    <3>3. QED
      BY <1>1, <2>1, <3>1, <3>2, StageSends
  <2>5. CASE Reboot
    <3>1. /\ AtStage("reboot") /\ Wanted("reboot")
          /\ stage' = stage /\ sent' = Append(sent, Message("reboot")) /\ played' = played
          /\ pc = "stages" /\ pc' = "rebooting"
      BY <2>5 DEF Reboot, AtStage, SendMessage
    <3>2. stage = 1
      BY <1>1, <3>1, StageOf
    <3>3. ~Reached("reboot") /\ \A k : Reached(k)' <=> Reached(k) \/ k = "reboot"
      BY <3>1, <3>2 DEF Reached
    <3>4. QED
      BY <1>1, <2>1, <3>1, <3>3, StageSends
  <2>6. CASE RebootDelay
    <3>1. /\ stage' = stage + 1 /\ sent' = sent /\ played' = played
          /\ pc = "rebooting" /\ pc' = "stages" /\ stage = 1
      BY <2>6 DEF RebootDelay, OrderInv
    <3>2. 1 .. stage - 1 = {} /\ 1 .. stage' - 1 = {1} /\ Stages[1] = "reboot"
      BY <3>1 DEF Stages
    <3>3. \A k : Reached(k)' <=> Reached(k)
      BY <3>1, <3>2 DEF Reached
    <3>4. QED
      BY <2>1, <3>1, <3>3, SendsNothing
  <2>7. CASE ShowBitmap
    <3>1. /\ AtStage("sc55-bmp") /\ Wanted("sc55-bmp") /\ SendMessage(Message("sc55-bmp"))
          /\ stage' = stage + 1 /\ played' = played /\ pc' = pc /\ pc = "stages"
      BY <2>7 DEF ShowBitmap, AtStage
    <3>2. sent' = Append(sent, Message("sc55-bmp"))
      BY <3>1 DEF SendMessage
    <3>3. ~Reached("sc55-bmp") /\ \A k : Reached(k)' <=> Reached(k) \/ k = "sc55-bmp"
      BY <1>1, <3>1, PassedNext
    <3>4. QED
      BY <1>1, <2>1, <3>1, <3>2, <3>3, StageSends
  <2>8. CASE OpenFile
    <3>1. /\ Wanted("syx") /\ stage' = stage /\ sent' = sent /\ played' = played
          /\ pc = "stages" /\ pc' = "playing"
      BY <2>8 DEF OpenFile, FailPlaying, AtStage
    <3>2. \A k : Reached(k)' <=> Reached(k)
      BY <3>1 DEF Reached
    <3>3. QED
      BY <2>1, <3>1, <3>2, SendsNothing
  <2>9. CASE PlayMessage
    <3> DEFINE m == [kind |-> "syx", val |-> opt["syx"]]
    <3>1. /\ sent' = Append(sent, m) /\ m.kind = "syx" /\ stage' = stage
          /\ pc = "playing" /\ pc' = pc
      BY <2>9 DEF PlayMessage, SendMessage
    <3> HIDE DEF m
    <3>2. /\ SentKinds' = SentKinds \cup {"syx"} /\ Once'
          /\ \A j \in 1 .. Len(sent') :
                sent'[j] = m \/ (j \in 1 .. Len(sent) /\ sent'[j] = sent[j])
      BY <1>1, <2>1, <3>1, OneMessage DEF SentSays
    <3>3. /\ \A k : Reached(k)' <=> Reached(k)
          /\ \A k : Wanted(k)' = Wanted(k) /\ Message(k)' = Message(k)
      BY <3>1, StillWanted DEF Reached
    <3>4. \A k \in SentKinds' :
             (Reached(k)' \/ (pc' = "playing" /\ k = "syx")) /\ Wanted(k)'
      BY <2>1, <3>1, <3>2, <3>3 DEF SentSays
    <3>5. \A k : \A j \in 1 .. Len(sent') :
             sent'[j].kind = k /\ k # "syx" => sent'[j] = Message(k)'
      BY <2>1, <3>1, <3>2, <3>3 DEF SentSays
    <3>6. \A k : Reached(k)' /\ Wanted(k)' => k \in SentKinds'
      BY <2>1, <3>2, <3>3 DEF SentSays
    <3>7. Wanted("syx")' /\ "syx" \in SentKinds'
      BY <2>1, <3>1, <3>2, <3>3 DEF SentSays
    <3>8. QED
      BY <3>1, <3>2, <3>4, <3>5, <3>6, <3>7 DEF SentSays
  <2>10. CASE EndPlaying
    <3>1. /\ stage' = stage + 1 /\ sent' = sent /\ played' = played /\ played > 0
          /\ pc = "playing" /\ pc' = "stages" /\ stage = 14
      BY <2>10 DEF EndPlaying, FailPlaying, OrderInv, PlayerStage
    <3>2. Stages[stage] = "syx" /\ stage' - 1 = stage /\ stage \in 1 .. 14
      BY <3>1 DEF Stages
    <3>3. \A k : Reached(k)' <=> Reached(k) \/ k = "syx"
      BY <3>1, <3>2, StagePassed DEF Reached
    <3>4. "syx" \in SentKinds
      BY <2>1, <3>1 DEF SentSays
    <3>5. QED
      BY <2>1, <3>1, <3>3, <3>4, SendsNothing
  <2>11. CASE Finish
    <3>1. /\ stage' = stage /\ sent' = sent /\ played' = played
          /\ pc = "stages" /\ pc' = "ended" /\ stage > 14
      BY <2>11 DEF Finish, Stages
    <3>2. \A k : Reached(k)' <=> Reached(k)
      BY <3>1 DEF Reached
    <3>3. stage' = PlayerStage + 1
      BY <1>1, <3>1 DEF PlayerStage
    <3>4. QED
      BY <2>1, <3>1, <3>2, <3>3, SendsNothing
  <2>12. QED
    BY <2>2, <2>3, <2>4, <2>5, <2>6, <2>7, <2>8, <2>9, <2>10, <2>11 DEF Work
<1>5. QED
  BY <1>2, <1>3, <1>4 DEF Next

LEMMA SentAlways == SafeSpec => []SentInv
BY OrderAlways, TypeAlways, SentInitially, SentKept, PTL DEF SafeSpec

LEMMA OptAlways == SafeSpec => []OptInv
BY TypeAlways, OptInitially, OptKept, PTL DEF SafeSpec

-----------------------------------------------------------------------------
(* What the options asked for. *)

\* A stage is for what the options asked for, and its message has the value
\* given last.
LEMMA AskedFacts ==
    ASSUME TypeInv, OptSays
    PROVE  /\ \A k \in OptKinds : Wanted(k) <=> IsAsked(k)
           /\ \A k \in Texts \cup Settings : Wanted(k) => Value(k) = AsByte(k)
<1> USE DEF OptSays
<1>1. OptTypes /\ GivenTypes
  BY TypeParts
<1>2. /\ Flags \cap (Texts \cup Files \cup Settings) = {}
      /\ Texts \cap (Files \cup Settings) = {} /\ Files \cap Settings = {}
      /\ Settings = {"mode", "romset"} \cup Numbers /\ "mode" \notin Numbers
      /\ "romset" \notin Numbers /\ "midi" \notin OptKinds
  BY DEF OptKinds, Flags, Texts, Files, Settings, Numbers
<1>3. ASSUME NEW k \in Flags PROVE Wanted(k) <=> IsAsked(k)
  <2>1. k \notin {"mode", "romset"} /\ k \notin Numbers /\ k # "midi"
        /\ k \notin Texts \cup Files
    BY <1>2, <1>3 DEF OptKinds
  <2>2. Wanted(k) = opt[k]
    BY <1>3, <2>1, Zenon DEF Wanted
  <2>3. IsAsked(k) <=> GivenAt(k) # {}
    BY <2>1, Zenon DEF IsAsked
  <2>4. opt[k] = (GivenAt(k) # {})
    BY <1>3, Zenon
  <2>5. QED BY <2>2, <2>3, <2>4, Zenon
<1>4. ASSUME NEW k \in {"mode", "romset"}
      PROVE  (Wanted(k) <=> IsAsked(k)) /\ (Wanted(k) => Value(k) = LastGiven(k))
  <2>1. opt[k] = IF GivenAt(k) = {} THEN "unchanged" ELSE LastGiven(k)
    BY <1>2, <1>4 DEF Unset, OptKinds
  <2>2. GivenAt(k) # {} => LastGiven(k) # "unchanged"
    <3>1. CASE k = "romset"
      BY <3>1 DEF Romsets
    <3>2. CASE k = "mode"
      <4>1. SUFFICES ASSUME GivenAt("mode") # {} PROVE LastGiven("mode") # "unchanged"
        BY <3>2
      <4>2. PICK j \in At(given, "mode") : LastOf(given, "mode") = given[j].arg
        BY <1>1, <4>1, AtGiven, LastIsGiven DEF GivenTypes
      <4>3. given[j] \in Options /\ given[j].opt = "mode"
        BY <1>1, <4>2 DEF At, GivenTypes
      <4>4. QED
        BY <4>2, <4>3, AtGiven, OptionsAssumption
    <3>3. QED BY <1>4, <3>1, <3>2
  <2>3. Wanted(k) <=> opt[k] # "unchanged"
    BY <1>2, <1>4 DEF Wanted
  <2>4. Value(k) = opt[k]
    BY <1>2, <1>4 DEF Value
  <2>5. IsAsked(k) <=> GivenAt(k) # {}
    BY <1>2, <1>4 DEF IsAsked
  <2>6. QED BY <2>1, <2>2, <2>3, <2>4, <2>5
<1>5. ASSUME NEW k \in Numbers
      PROVE  /\ Wanted(k) <=> IsAsked(k)
             /\ Wanted(k) => Value(k) = AsByte(k)
  <2>1. opt[k] = IF GivenAt(k) = {} THEN -1 ELSE LastGiven(k)
    BY <1>2, <1>5 DEF Unset, OptKinds
  <2>2. Wanted(k) <=> opt[k] > -1
    BY <1>2, <1>5 DEF Wanted, OptKinds
  <2>3. Value(k) = opt[k] % 256
    <3>1. k \in Numbers /\ k # "midi"
      BY <1>5 DEF Numbers
    <3>2. QED BY <3>1, Zenon DEF Value
  <2>4. IsAsked(k) <=> GivenAt(k) # {} /\ LastGiven(k) > -1
    BY <1>2, <1>5 DEF IsAsked
  <2>5. Wanted(k) <=> IsAsked(k)
    BY <2>1, <2>2, <2>4
  <2>6. ASSUME Wanted(k) PROVE Value(k) = AsByte(k)
    <3>1. GivenAt(k) # {} /\ opt[k] = LastGiven(k)
      BY <2>1, <2>2, <2>6
    <3>2. AsByte(k) = LastGiven(k) % 256
      BY <1>5, Zenon DEF AsByte
    <3>3. QED BY <2>3, <3>1, <3>2
  <2>7. QED BY <2>5, <2>6
<1>6. ASSUME NEW k \in Texts \cup Files
      PROVE  (Wanted(k) <=> IsAsked(k)) /\ (Wanted(k) => Value(k) = LastGiven(k))
  <2>1. k \notin Flags /\ k \notin {"mode", "romset"} /\ k \notin Numbers /\ k # "midi"
        /\ k \in OptKinds \ Flags
    BY <1>2, <1>6 DEF OptKinds
  <2>2. opt[k] = IF GivenAt(k) = {} THEN "" ELSE LastGiven(k)
    BY <2>1 DEF Unset
  <2>3. (Wanted(k) <=> opt[k] # "") /\ Value(k) = opt[k]
    BY <2>1 DEF Wanted, Value
  <2>4. IsAsked(k) <=> GivenAt(k) # {} /\ LastGiven(k) # ""
    BY <1>6, <2>1 DEF IsAsked
  <2>5. QED BY <2>2, <2>3, <2>4
<1>7. \A k \in {"mode", "romset"} \cup Texts : AsByte(k) = LastGiven(k)
  BY <1>2 DEF AsByte
<1>8. QED
  BY <1>2, <1>3, <1>4, <1>5, <1>6, <1>7 DEF OptKinds

\* A successful run has passed every stage.
DoneInv == outcome = "success" => pc = "ended"
LEMMA DoneAlways == SafeSpec => []DoneInv
<1>1. Init => DoneInv
  BY DEF Init, DoneInv
<1>2. DoneInv /\ [Next]_vars => DoneInv'
  <2> SUFFICES ASSUME DoneInv, [Next]_vars PROVE DoneInv'
    OBVIOUS
  <2>1. CASE TakeOption
    <3>1. pc = "parse" /\ outcome # "success"
      BY <2>1, TakenOption DEF DoneInv
    <3>2. outcome' = outcome \/ outcome' \in {"failure", "usage", "listed"}
      BY <2>1, TakenKinds DEF TakenAs, SetsFlag, SetsValue, TakeMidi, SetsNothing
    <3>3. QED BY <3>1, <3>2 DEF DoneInv
  <2>2. CASE Work
    BY <2>2 DEF DoneInv, Work, EndOfOptions, InitBackend, SkipStage, SendStage, Reboot,
       RebootDelay, ShowBitmap, OpenFile, PlayMessage, EndPlaying, FailPlaying, Finish,
       AtStage
  <2>3. CASE UNCHANGED vars
    BY <2>3 DEF DoneInv, vars
  <2>4. QED BY <2>1, <2>2, <2>3 DEF Next
<1>3. QED
  BY <1>1, <1>2, PTL DEF SafeSpec

StageKinds == {Stages[j] : j \in 1 .. Len(Stages)}
LEMMA EveryStage ==
    /\ StageKinds \subseteq OptKinds \cup {"midi"}
    /\ Texts \cup Settings \subseteq OptKinds
    /\ "midi" \in StageKinds /\ "reboot" \in StageKinds /\ Settings \subseteq StageKinds
<1>1. Len(Stages) = 14
  BY DEF Stages
<1>2. StageKinds \subseteq OptKinds \cup {"midi"}
  <2>1. SUFFICES ASSUME NEW j \in 1 .. 14 PROVE Stages[j] \in OptKinds \cup {"midi"}
    BY <1>1 DEF StageKinds
  <2>2. \/ j = 1 \/ j = 2 \/ j = 3 \/ j = 4 \/ j = 5 \/ j = 6 \/ j = 7
        \/ j = 8 \/ j = 9 \/ j = 10 \/ j = 11 \/ j = 12 \/ j = 13 \/ j = 14
    OBVIOUS
  <2>3. QED
    BY <2>2 DEF Stages, OptKinds, Flags, Texts, Files, Settings, Numbers
<1>3. \A j \in 1 .. 14 : Stages[j] \in StageKinds
  BY <1>1 DEF StageKinds
<1>4. /\ Stages[1] = "reboot" /\ Stages[2] = "mode" /\ Stages[3] = "romset"
      /\ Stages[4] = "soundfont" /\ Stages[5] = "mt32-rstereo" /\ Stages[11] = "midi"
  BY DEF Stages
<1>5. /\ "midi" \in StageKinds /\ "reboot" \in StageKinds
      /\ Settings \subseteq StageKinds
  BY <1>3, <1>4 DEF Settings, Numbers
<1>6. QED
  BY <1>2, <1>5 DEF OptKinds

\* Once every stage was passed, what was sent is what was wanted.
LEMMA AllPassed ==
    ASSUME TypeInv, SentInv, DoneInv, outcome = "success"
    PROVE  /\ pc = "ended" /\ SentSays
           /\ \A k : Reached(k) <=> k \in StageKinds
           /\ \A k \in SentKinds : k \in StageKinds /\ Wanted(k)
           /\ \A k \in StageKinds : Wanted(k) => k \in SentKinds
<1>1. pc = "ended" /\ SentSays /\ stage = 15
  BY DEF DoneInv, SentInv, SentSays, PlayerStage
<1>2. stage - 1 = Len(Stages)
  BY <1>1 DEF Stages
<1>3. \A k : Reached(k) <=> k \in StageKinds
  BY <1>1, <1>2 DEF Reached, StageKinds
<1>4. QED
  BY <1>1, <1>3 DEF SentSays

LEMMA SentAsAsked ==
    ASSUME TypeInv, OptInv, SentInv, DoneInv
    PROVE  SendsWhatWasAsked
<1> SUFFICES ASSUME outcome = "success" PROVE SendsWhatWasAsked
  BY DEF SendsWhatWasAsked
<1>1. /\ pc = "ended" /\ SentSays
      /\ \A k \in SentKinds : k \in StageKinds /\ Wanted(k)
      /\ \A k \in StageKinds : Wanted(k) => k \in SentKinds
  BY AllPassed
<1>2. OptSays /\ MidiSays
  BY DEF OptInv
<1>3. /\ \A k \in OptKinds : Wanted(k) <=> IsAsked(k)
      /\ \A k \in Texts \cup Settings : Wanted(k) => Value(k) = AsByte(k)
  BY <1>2, AskedFacts
<1>4. \A k \in SentKinds \ {"midi"} : IsAsked(k)
  BY <1>1, <1>3, EveryStage
<1>5. \A k \in StageKinds \ {"midi"} : IsAsked(k) => k \in SentKinds
  BY <1>1, <1>3, EveryStage
<1>6. \A j \in 1 .. Len(sent) : sent[j].kind \in Texts \cup Settings =>
          sent[j].val = AsByte(sent[j].kind)
  <2>1. SUFFICES ASSUME NEW j \in 1 .. Len(sent), NEW k \in Texts \cup Settings,
                        sent[j].kind = k
                 PROVE  sent[j].val = AsByte(k)
    OBVIOUS
  <2>2. k \in SentKinds /\ k # "syx"
    BY <2>1 DEF SentKinds, Texts, Settings, Numbers
  <2>3. sent[j] = Message(k)
    BY <1>1, <2>1, <2>2 DEF SentSays
  <2>4. sent[j].val = Value(k)
    BY <2>3 DEF Message
  <2>5. QED BY <1>1, <1>3, <2>2, <2>4
<1>7. \A j, l \in 1 .. Len(sent) :
          sent[j].kind = sent[l].kind /\ j # l => sent[j].kind = "syx"
  BY <1>1 DEF SentSays, Once
<1>8. ASSUME Cardinality(GivenAt("midi")) = 1
      PROVE  LET b == Bytes(LastGiven("midi"))
             IN  \/ b = <<>> /\ "midi" \notin SentKinds
                 \/ b # <<>> /\ \E j \in 1 .. Len(sent) :
                                  sent[j] = [kind |-> "midi", val |-> b]
  <2> DEFINE t == LastGiven("midi")
  <2>1. /\ t \in Seq(Int) /\ midi_len = Stored(t)
        /\ \A j \in 1 .. midi_len : midi_buf[j] = t[j] % 256
    BY <1>2, <1>8 DEF MidiSays
  <2> HIDE DEF t
  <2>2. Stored(t) \in Nat /\ Stored(t) <= MidiBufSize
    BY <2>1, StoredFacts
  <2>3. Wanted("midi") <=> Stored(t) > 0
    BY <2>1 DEF Wanted, Flags, Numbers
  <2>4. Bytes(t) = [j \in 1 .. midi_len |-> t[j] % 256]
    BY <2>1 DEF Bytes
  <2>5. CASE Stored(t) = 0
    <3>1. Bytes(t) = <<>>
      BY <2>1, <2>4, <2>5
    <3>2. "midi" \notin SentKinds
      BY <1>1, <2>3, <2>5
    <3>3. QED BY <3>1, <3>2 DEF t
  <2>6. CASE Stored(t) > 0
    <3>1. Bytes(t) # <<>>
      <4>1. DOMAIN Bytes(t) = 1 .. midi_len /\ 1 \in 1 .. midi_len
        BY <2>1, <2>2, <2>4, <2>6
      <4>2. DOMAIN <<>> = {}
        OBVIOUS
      <4>3. QED BY <4>1, <4>2
    <3>2. "midi" \in SentKinds
      BY <1>1, <2>3, <2>6, EveryStage
    <3>3. PICK j \in 1 .. Len(sent) : sent[j].kind = "midi"
      BY <3>2 DEF SentKinds
    <3>4. sent[j] = [kind |-> "midi", val |-> Value("midi")]
      BY <1>1, <3>3 DEF SentSays, Message
    <3>5. Value("midi") = [i \in 1 .. midi_len |->
                              IF i <= MidiBufSize THEN midi_buf[i] ELSE Beyond]
      BY DEF Value, Numbers
    <3>6. \A i \in 1 .. midi_len : i <= MidiBufSize
      BY <2>1, <2>2, BoundsAssumption
    <3>7. Value("midi") = Bytes(t)
      BY <2>1, <2>4, <3>5, <3>6
    <3>8. QED BY <3>1, <3>4, <3>7 DEF t
  <2>7. QED BY <2>2, <2>5, <2>6
<1>9. QED
  BY <1>4, <1>5, <1>6, <1>7, <1>8 DEF SendsWhatWasAsked, StageKinds

\* A run that succeeds has sent exactly what the options asked for, with the values
\* given last, of a number the low byte, whatever the options, their number and
\* their order, and the bytes of a single -M up to the first that is no number.
THEOREM AlwaysSendsWhatWasAsked == SafeSpec => []SendsWhatWasAsked
<1>1. TypeInv /\ OptInv /\ SentInv /\ DoneInv => SendsWhatWasAsked
  BY SentAsAsked
<1>2. QED
  BY <1>1, TypeAlways, OptAlways, SentAlways, DoneAlways, PTL

-----------------------------------------------------------------------------
(* The mt32-pi at the other end of the cable. *)

\* If it has received everything, each of its settings is the one a stage behind
\* main() has sent, else its default after a reboot, else what it was before.
Through(k) == k \in Numbers => Value(k) < 128
Set(k) ==
    IF Reached(k) /\ Wanted(k) /\ Through(k) THEN Value(k)
    ELSE IF Reached("reboot") /\ Wanted("reboot") THEN Default(k) ELSE Before(k)
SynthSays ==
    /\ synth = [k \in Settings \cup {"booting"} |-> synth[k]]
    /\ synth["booting"] = (pc = "rebooting")
    /\ \A k \in Settings : synth[k] = Set(k)
SynthInv == ~lost => SynthSays

LEMMA SynthInitially == Init => SynthInv
<1> SUFFICES ASSUME Init PROVE SynthInv
  OBVIOUS
<1>1. synth = [s \in Settings \cup {"booting"} |->
                  IF s = "booting" THEN FALSE ELSE Before(s)]
  BY DEF Init
<1>2. stage = 1 /\ pc = "parse"
  BY DEF Init
<1>3. \A k : ~Reached(k)
  BY <1>2 DEF Reached
<1>4. "booting" \notin Settings
  BY DEF Settings, Numbers
<1>5. synth["booting"] = FALSE /\ \A k \in Settings : synth[k] = Before(k)
  BY <1>1, <1>4
<1>6. synth["booting"] = (pc = "rebooting")
  BY <1>2, <1>5, Zenon
<1>7. \A k \in Settings : synth[k] = Set(k)
  BY <1>3, <1>5 DEF Set
<1>8. synth = [k \in Settings \cup {"booting"} |-> synth[k]]
  BY <1>1
<1>9. QED
  BY <1>6, <1>7, <1>8 DEF SynthInv, SynthSays

\* A step that sends nothing the mt32-pi takes notice of.
LEMMA SynthUntouched ==
    ASSUME SynthSays, synth' = synth,
           pc # "rebooting", pc' # "rebooting",
           \A k \in Settings \cup {"reboot"} :
              (Reached(k) /\ Wanted(k))' <=> (Reached(k) /\ Wanted(k)),
           \A k \in Settings : Reached(k) => Value(k)' = Value(k)
    PROVE  SynthSays'
<1>1. synth'["booting"] = (pc' = "rebooting")
  <2>1. synth["booting"] = (pc = "rebooting") /\ synth'["booting"] = synth["booting"]
    BY DEF SynthSays
  <2>2. QED BY <2>1, Zenon
<1>2. \A k \in Settings : synth'[k] = Set(k)'
  <2>1. SUFFICES ASSUME NEW k \in Settings PROVE synth'[k] = Set(k)'
    OBVIOUS
  <2>2. synth[k] = Set(k)
    BY DEF SynthSays
  <2>3. Set(k)' = Set(k)
    BY DEF Set, Default, Before, Through
  <2>4. QED BY <2>2, <2>3
<1>3. synth' = [k \in Settings \cup {"booting"} |-> synth'[k]]
  BY DEF SynthSays
<1>4. QED
  BY <1>1, <1>2, <1>3 DEF SynthSays

\* A stage's message arrives.
LEMMA SynthSet ==
    ASSUME SynthSays, Work,
           NEW s, s # "reboot", Wanted(s), synth' = Applied(Message(s)),
           \A k : Reached(k)' <=> Reached(k) \/ k = s,
           pc = "stages", pc' = "stages"
    PROVE  SynthSays'
<1>1. Message(s).kind = s /\ Message(s).val = Value(s)
  BY DEF Message
<1>2. synth["booting"] = FALSE
  <2>1. synth["booting"] = (pc = "rebooting")
    BY DEF SynthSays
  <2>2. QED BY <2>1, Zenon
<1>3. \A k : Wanted(k)' = Wanted(k) /\ Value(k)' = Value(k)
  BY StillWanted
<1>4. CASE s \notin Settings
  <2>1. synth' = synth
    BY <1>1, <1>2, <1>4 DEF Applied
  <2>2. QED
    BY <1>3, <1>4, <2>1, SynthUntouched
<1>5. CASE s \in Settings /\ Through(s)
  <2>2. synth' = [synth EXCEPT ![s] = Value(s)]
    BY <1>1, <1>2, <1>5 DEF Applied, Through
  <2>3. synth = [k \in Settings \cup {"booting"} |-> synth[k]] /\ s # "booting"
    BY <1>5 DEF SynthSays, Settings, Numbers
  <2>4. /\ synth' = [k \in Settings \cup {"booting"} |-> synth'[k]]
        /\ synth'[s] = Value(s) /\ synth'["booting"] = synth["booting"]
        /\ \A k \in Settings : k # s => synth'[k] = synth[k]
    BY <1>5, <2>2, <2>3
  <2>5. synth'["booting"] = (pc' = "rebooting")
    BY <1>2, <2>4, Zenon
  <2>6. \A k \in Settings : synth'[k] = Set(k)'
    <3>1. SUFFICES ASSUME NEW k \in Settings PROVE synth'[k] = Set(k)'
      OBVIOUS
    <3>2. CASE k = s
      <4>1. Set(k)' = Value(k)'
        BY <1>3, <1>5, <3>2 DEF Set, Through
      <4>2. QED BY <1>3, <2>4, <3>2, <4>1
    <3>3. CASE k # s
      <4>1. synth[k] = Set(k)
        BY DEF SynthSays
      <4>2. Set(k)' = Set(k)
        BY <1>3, <3>3 DEF Set, Default, Before, Through
      <4>3. QED BY <2>4, <3>3, <4>1, <4>2
    <3>4. QED BY <3>2, <3>3
  <2>7. QED BY <2>4, <2>5, <2>6 DEF SynthSays
\* It is no data byte: the stage might as well not have been there.
<1>6. CASE s \in Settings /\ ~Through(s)
  <2>1. synth' = synth
    BY <1>1, <1>2, <1>6 DEF Applied, Through
  <2>2. \A k \in Settings : synth'[k] = Set(k)'
    <3>1. SUFFICES ASSUME NEW k \in Settings PROVE synth'[k] = Set(k)'
      OBVIOUS
    <3>2. synth[k] = Set(k)
      BY DEF SynthSays
    <3>3. Through(k)' = Through(k)
      BY <1>3 DEF Through
    <3>4. Reached("reboot")' <=> Reached("reboot")
      OBVIOUS
    <3>5. (Reached(k) /\ Through(k))' <=> (Reached(k) /\ Through(k))
      BY <1>6, <3>3
    <3>6. Set(k)' = Set(k)
      BY <1>3, <3>3, <3>4, <3>5 DEF Set, Default, Before
    <3>7. QED BY <2>1, <3>2, <3>6
  <2>3. synth'["booting"] = (pc' = "rebooting")
    <3>1. synth'["booting"] = FALSE
      BY <1>2, <2>1, Zenon
    <3>2. QED BY <3>1, Zenon
  <2>4. synth' = [k \in Settings \cup {"booting"} |-> synth'[k]]
    BY <2>1 DEF SynthSays
  <2>5. QED BY <2>2, <2>3, <2>4 DEF SynthSays
<1>7. QED BY <1>4, <1>5, <1>6

LEMMA SynthKept == OrderInv /\ TypeInv /\ SynthInv /\ [Next]_vars => SynthInv'
<1> SUFFICES ASSUME OrderInv, TypeInv, SynthInv, [Next]_vars, ~lost'
             PROVE  SynthSays'
  BY DEF SynthInv
<1>1. stage \in Nat \ {0} /\ stage \in 1 .. 15
  BY TypeParts DEF OrderInv, PlaceTypes, Stages
<1>2. CASE TakeOption
  <2>1. pc = "parse" /\ pc' \in {"parse", "ended"}
    BY <1>2, TakenOption
  <2>2. UNCHANGED <<stage, synth, lost>>
    BY <1>2, TakenKinds DEF Take
  <2>3. SynthSays
    BY <2>2 DEF SynthInv
  <2>4. stage = 1
    BY <2>1 DEF OrderInv
  <2>5. (\A k : ~Reached(k)) /\ (\A k : ~Reached(k)')
    BY <2>1, <2>2, <2>4 DEF Reached
  <2>6. QED
    BY <2>1, <2>2, <2>3, <2>5, SynthUntouched
<1>3. CASE UNCHANGED vars
  <2>1. UNCHANGED <<pc, stage, synth, lost, opt, midi_buf, midi_len>>
    BY <1>3 DEF vars, parseVars
  <2>2. SynthSays
    BY <2>1 DEF SynthInv
  <2>3. \A k : Set(k)' = Set(k)
    <3>1. \A k : Reached(k)' = Reached(k) /\ Wanted(k)' = Wanted(k) /\ Value(k)' = Value(k)
      BY <1>3, <2>1, StillWanted DEF Reached
    <3>2. QED BY <3>1 DEF Set, Default, Before, Through
  <2>4. \A k \in Settings : synth'[k] = Set(k)'
    BY <2>1, <2>2, <2>3 DEF SynthSays
  <2>5. synth'["booting"] = (pc' = "rebooting")
    <3>1. synth["booting"] = (pc = "rebooting")
      BY <2>2 DEF SynthSays
    <3>2. QED BY <2>1, <3>1, Zenon
  <2>6. synth' = [k \in Settings \cup {"booting"} |-> synth'[k]]
    BY <2>1, <2>2 DEF SynthSays
  <2>7. QED BY <2>4, <2>5, <2>6 DEF SynthSays
<1>4. CASE Work
  <2> USE <1>4
  <2>2. lost' = lost \/ lost' = TRUE
    BY Zenon DEF Work, EndOfOptions, InitBackend, SkipStage, SendStage, Reboot,
       RebootDelay, ShowBitmap, OpenFile, PlayMessage, EndPlaying, Finish, SendMessage
  <2>3. SynthSays
    BY <2>2 DEF SynthInv
  <2>4. \A k : Wanted(k)' = Wanted(k) /\ Value(k)' = Value(k)
    BY StillWanted
  <2>5. ASSUME NEW m, SendMessage(m) PROVE synth' = Applied(m)
    BY <2>5 DEF SendMessage
  <2>6. CASE EndOfOptions \/ InitBackend \/ OpenFile \/ Finish
    <3>1. /\ stage' = stage /\ synth' = synth
          /\ pc # "rebooting" /\ pc' # "rebooting"
      BY <2>6 DEF EndOfOptions, InitBackend, OpenFile, Finish, FailPlaying, AtStage
    <3>2. \A k : Reached(k)' <=> Reached(k)
      BY <3>1 DEF Reached
    <3>3. QED
      BY <2>3, <2>4, <3>1, <3>2, SynthUntouched
  <2>7. CASE SkipStage
    <3> PICK s : AtStage(s) /\ ~Wanted(s)
      BY <2>7 DEF SkipStage
    <3>1. /\ stage' = stage + 1 /\ synth' = synth /\ pc = "stages" /\ pc' = pc
      BY <2>7 DEF SkipStage, AtStage
    <3>2. \A k : Reached(k)' <=> Reached(k) \/ k = s
      BY <1>1, <3>1, PassedNext
    <3>3. QED
      BY <2>3, <2>4, <3>1, <3>2, SynthUntouched
  <2>8. CASE SendStage
    <3> PICK s \in SimpleStages : AtStage(s) /\ Wanted(s) /\ SendMessage(Message(s))
      BY <2>8 DEF SendStage
    <3>1. /\ stage' = stage + 1 /\ synth' = Applied(Message(s))
          /\ pc = "stages" /\ pc' = pc /\ s # "reboot"
      BY <2>5, <2>8 DEF SendStage, AtStage, SimpleStages, Texts
    <3>2. \A k : Reached(k)' <=> Reached(k) \/ k = s
      BY <1>1, <3>1, PassedNext
    <3>3. QED
      BY <2>3, <3>1, <3>2, SynthSet
  <2>9. CASE Reboot
    <3>1. /\ AtStage("reboot") /\ Wanted("reboot")
          /\ stage' = stage /\ synth' = Applied(Message("reboot"))
          /\ pc = "stages" /\ pc' = "rebooting"
      BY <2>5, <2>9 DEF Reboot, AtStage
    <3>2. stage = 1 /\ Message("reboot").kind = "reboot"
      BY <1>1, <3>1, StageOf DEF Message
    <3>3. synth["booting"] = FALSE
      <4>1. synth["booting"] = (pc = "rebooting")
        BY <2>3 DEF SynthSays
      <4>2. QED BY <3>1, <4>1, Zenon
    <3>4. synth' = Boots
      BY <3>1, <3>2, <3>3 DEF Applied
    <3>5. "booting" \notin Settings /\ "reboot" \notin Settings
      BY DEF Settings, Numbers
    <3>6. /\ synth' = [k \in Settings \cup {"booting"} |-> synth'[k]]
          /\ synth'["booting"] = TRUE
          /\ \A k \in Settings : synth'[k] = Default(k)
      BY <3>4, <3>5 DEF Boots
    <3>7. synth'["booting"] = (pc' = "rebooting")
      BY <3>1, <3>6, Zenon
    <3>8. \A k : Reached(k)' <=> k = "reboot"
      BY <3>1, <3>2 DEF Reached
    <3>9. \A k \in Settings : Set(k)' = Default(k)
      BY <2>4, <3>1, <3>5, <3>8 DEF Set, Default
    <3>10. QED BY <3>6, <3>7, <3>9 DEF SynthSays
  <2>10. CASE RebootDelay
    <3>1. /\ stage' = stage + 1 /\ synth' = [synth EXCEPT !["booting"] = FALSE]
          /\ pc = "rebooting" /\ pc' = "stages" /\ stage = 1
      BY <2>10 DEF RebootDelay, OrderInv
    <3>2. 1 .. stage - 1 = {} /\ 1 .. stage' - 1 = {1} /\ Stages[1] = "reboot"
      BY <3>1 DEF Stages
    <3>3. \A k : Reached(k)' <=> Reached(k)
      BY <3>1, <3>2 DEF Reached
    <3>4. synth = [k \in Settings \cup {"booting"} |-> synth[k]] /\ "booting" \notin Settings
      BY <2>3 DEF SynthSays, Settings, Numbers
    <3>5. /\ synth' = [k \in Settings \cup {"booting"} |-> synth'[k]]
          /\ synth'["booting"] = FALSE
          /\ \A k \in Settings : synth'[k] = synth[k]
      BY <3>1, <3>4
    <3>6. synth'["booting"] = (pc' = "rebooting")
      BY <3>1, <3>5, Zenon
    <3>7. \A k : Set(k)' = Set(k)
      BY <2>4, <3>3 DEF Set, Default, Before, Through
    <3>8. QED BY <2>3, <3>5, <3>6, <3>7 DEF SynthSays
  <2>11. CASE ShowBitmap
    <3>1. AtStage("sc55-bmp") /\ Wanted("sc55-bmp") /\ pc = "stages"
      BY <2>11 DEF ShowBitmap, AtStage
    <3>2. CASE SendMessage(Message("sc55-bmp")) /\ stage' = stage + 1 /\ pc' = pc
      <4>1. synth' = Applied(Message("sc55-bmp"))
        BY <2>5, <3>2
      <4>2. \A k : Reached(k)' <=> Reached(k) \/ k = "sc55-bmp"
        BY <1>1, <3>1, <3>2, PassedNext
      <4>3. QED
        BY <2>3, <3>1, <3>2, <4>1, <4>2, SynthSet
    <3>3. CASE pc' = "ended" /\ stage' = stage /\ synth' = synth
      <4>1. \A k : Reached(k)' <=> Reached(k)
        BY <3>1, <3>3 DEF Reached
      <4>2. QED
        BY <2>3, <2>4, <3>1, <3>3, <4>1, SynthUntouched
    <3>4. QED BY <2>11, <3>2, <3>3 DEF ShowBitmap
  <2>12. CASE PlayMessage
    <3> DEFINE m == [kind |-> "syx", val |-> opt["syx"]]
    <3>1. /\ SendMessage(m) /\ m.kind = "syx" /\ stage' = stage
          /\ pc = "playing" /\ pc' = pc
      BY <2>12 DEF PlayMessage
    <3> HIDE DEF m
    <3>2. synth' = Applied(m)
      BY <2>5, <3>1
    <3>3. synth' = synth
      BY <3>1, <3>2 DEF Applied, Settings, Numbers
    <3>4. \A k : Reached(k)' <=> Reached(k)
      BY <3>1 DEF Reached
    <3>5. QED
      BY <2>3, <2>4, <3>1, <3>3, <3>4, SynthUntouched
  <2>13. CASE EndPlaying
    <3>1. /\ synth' = synth /\ pc = "playing" /\ pc' \in {"stages", "ended"}
          /\ stage' = stage \/ stage' = stage + 1
          /\ stage = 14
      BY <2>13 DEF EndPlaying, FailPlaying, OrderInv, PlayerStage
    <3>2. Stages[stage] = "syx" /\ stage \in 1 .. 14
      BY <3>1 DEF Stages
    <3>3. stage' - 1 = stage - 1 \/ stage' - 1 = stage
      BY <3>1
    <3>4. \A k : k # "syx" => (Reached(k)' <=> Reached(k))
      BY <3>1, <3>2, <3>3, StagePassed DEF Reached
    <3>5. "syx" \notin Settings \cup {"reboot"}
      BY DEF Settings, Numbers
    <3>6. QED
      BY <2>3, <2>4, <3>1, <3>4, <3>5, SynthUntouched
  <2>14. QED
    BY <2>6, <2>7, <2>8, <2>9, <2>10, <2>11, <2>12, <2>13 DEF Work
<1>5. QED
  BY <1>2, <1>3, <1>4 DEF Next

\* If no message got lost, a successful run leaves the mt32-pi running and with
\* every setting as it was last asked for: the reboot that was asked for does not
\* undo a setting, and what was not asked for, or asked for with a number whose
\* low byte is no data byte, is a default after a reboot and untouched without one.
THEOREM AlwaysSynthAsAsked == SafeSpec => []SynthAsAsked
<1>1. TypeInv /\ OptInv /\ SentInv /\ DoneInv /\ SynthInv => SynthAsAsked
  <2> SUFFICES ASSUME TypeInv, OptInv, SentInv, DoneInv, SynthInv,
                      outcome = "success", ~lost
               PROVE  ~synth.booting /\ \A k \in Settings : synth[k] = Expected(k)
    BY DEF SynthAsAsked
  <2>1. pc = "ended" /\ \A k : Reached(k) <=> k \in StageKinds
    BY AllPassed
  <2>2. SynthSays /\ OptSays
    BY <2>1 DEF SynthInv, OptInv
  <2>3. ~synth.booting
    <3>1. synth["booting"] = (pc = "rebooting")
      BY <2>2 DEF SynthSays
    <3>2. synth["booting"] = FALSE
      BY <2>1, <3>1, Zenon
    <3>3. QED BY <3>2
  <2>4. /\ \A k \in OptKinds : Wanted(k) <=> IsAsked(k)
        /\ \A k \in Settings : Wanted(k) => Value(k) = AsByte(k)
    BY <2>2, AskedFacts
  <2>5. "reboot" \in OptKinds /\ (Wanted("reboot") <=> GivenAt("reboot") # {})
    BY <2>4 DEF IsAsked, OptKinds, Flags, Texts, Files, Numbers
  <2>6. \A k \in Settings : Set(k) = Expected(k)
    BY <2>1, <2>4, <2>5, EveryStage DEF Set, Expected, Through
  <2>7. QED BY <2>2, <2>3, <2>6 DEF SynthSays
<1>2. SafeSpec => []SynthInv
  BY OrderAlways, TypeAlways, SynthInitially, SynthKept, PTL DEF SafeSpec
<1>3. QED
  BY <1>1, <1>2, TypeAlways, OptAlways, SentAlways, DoneAlways, PTL
=============================================================================
