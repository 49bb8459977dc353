----------------------------- MODULE OptionWords -----------------------------
(***************************************************************************)
(* Words of a command line, the tables of options main() hands to          *)
(* getopt_long(), and what one option makes of the words behind it.        *)
(*                                                                         *)
(* A string is its letters, behind a '-' or not, and then perhaps one more *)
(* '-' and a long name, with '=' and a value or without: "-vr", "--mt32",  *)
(* "-v-mt32", "--syx=f", "--" (an empty name), "-" (nothing at all).       *)
(***************************************************************************)
EXTENDS Integers, Sequences

CONSTANTS ShortOptions, \* optstr: a sequence of [letter, has_arg]
          LongOptions,  \* long_options: a sequence of [name, has_arg, flag, val]
          Beginnings    \* long names as typed: the names that each begins

NoName  == "no name"
NoValue == "no value"
NULL    == "NULL"

String(dash, letters, name, value) ==
    [dash |-> dash, letters |-> letters, name |-> name, value |-> value]

Plain(text) == String(FALSE, <<text>>, NoName, NoValue)
EMSG        == String(FALSE, <<>>, NoName, NoValue)
DoubleDash  == String(TRUE, <<>>, "", NoValue)

\* What is behind the first '-' of a word.
Behind(word) == [word EXCEPT !.dash = FALSE]

IsOption(word) == word.dash /\ Behind(word) # EMSG

-----------------------------------------------------------------------------
\* What comes of looking at an option: what getopt_long() returns (the letter, or
\* the flag it sets in main when it returns 0), optarg if there is one, how many
\* words behind this one that took, and what is left of this one.
Read(opt, arg, takes, place) ==
    [opt |-> opt, arg |-> arg, takes |-> takes, place |-> place]
BADCH(place) == Read("?", <<>>, 0, place)
BADARG       == BADCH(EMSG)

\* An argument in the next word, whatever that looks like.
FromNextWord(opt, after) ==
    IF after = <<>> THEN BADARG ELSE Read(opt, <<Head(after)>>, 1, EMSG)

Indices == 1 .. Len(LongOptions)
Matches(name) == {k \in Indices : LongOptions[k].name \in Beginnings[name]}
First(S) == CHOOSE k \in S : \A j \in S : k <= j

IdenticalInterpretation(j, k) ==
    /\ LongOptions[j].has_arg = LongOptions[k].has_arg
    /\ LongOptions[j].flag = LongOptions[k].flag
    /\ LongOptions[j].val = LongOptions[k].val

\* The entry a name stands for: its own, or that of the names it begins when they
\* all mean the same. 0: none, or ambiguous.
Match(name) ==
    LET exact == {k \in Matches(name) : LongOptions[k].name = name}
        all   == Matches(name)
    IN  IF exact # {} THEN First(exact)
        ELSE IF all # {} /\ \A k \in all : IdenticalInterpretation(k, First(all))
        THEN First(all) ELSE 0

ReadLong(p, after) ==
    IF Match(p.name) = 0 THEN BADCH(EMSG)
    ELSE LET o   == LongOptions[Match(p.name)]
             opt == IF o.flag = NULL THEN o.val ELSE o.flag
         IN  IF p.value # NoValue
             THEN IF o.has_arg = "no" THEN BADARG
                                      ELSE Read(opt, <<Plain(p.value)>>, 0, EMSG)
             ELSE IF o.has_arg = "required" THEN FromNextWord(opt, after)
                                            ELSE Read(opt, <<>>, 0, EMSG)

\* strchr(): the first entry for a letter counts.
Entries(c) == {k \in 1 .. Len(ShortOptions) : ShortOptions[k].letter = c}

ReadShort(p, after) ==
    LET c    == Head(p.letters)
        rest == [p EXCEPT !.letters = Tail(p.letters)]
    IN  IF Entries(c) = {} THEN BADCH(rest)
        ELSE IF ShortOptions[First(Entries(c))].has_arg = "no"
        THEN Read(c, <<>>, 0, rest)
        ELSE IF rest # EMSG THEN Read(c, <<rest>>, 0, EMSG)
        ELSE FromNextWord(c, after)

\* A '-' where a letter is expected starts a long name, in the middle of a word
\* too.
ReadOption(p, after) ==
    IF p.letters = <<>> THEN ReadLong(p, after) ELSE ReadShort(p, after)

\* -h, and whatever is at fault: main() prints the usage and ends.
EndsProgram(opt) == opt \in {"?", "h"}
=============================================================================
