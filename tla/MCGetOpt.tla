------------------------------ MODULE MCGetOpt ------------------------------
(* The tables of the program, built for the Amiga; every line of a few words *)
(* of each kind, and longer ones of options and operands that mix.           *)
EXTENDS GetOpt, OptionTables

CONSTANTS MaxWords, MaxMixed

AmigaOptstr == Optstr("amiga")

AllNames == {MainLongOptions[k].name : k \in DOMAIN MainLongOptions}
Begins ==
    [n \in {"", "mt32", "negative", "mt32-r", "mt32-t", "reboot", "verbose", "x"} |->
        CASE n = "mt32" -> {"mt32", "mt32-rstereo", "mt32-reset", "mt32-txt"}
          [] n = "mt32-r" -> {"mt32-rstereo", "mt32-reset"}
          [] n = "mt32-t" -> {"mt32-txt"}
          [] n = "" -> AllNames
          [] OTHER -> {n} \cap AllNames]

Short(letters)    == String(TRUE, letters, NoName, NoValue)
Long(name, value) == String(TRUE, <<>>, name, value)

Operands == {Plain("f"), Plain("g")}
Mixed    == Operands \cup {Short(<<"v">>), Short(<<"t">>), DoubleDash}
Words    == Mixed \cup
    {Short(<<>>), Short(<<"v", "t">>), Short(<<"t", "v">>), Short(<<"m", "q">>),
     Short(<<"h">>), Short(<<"S">>), Short(<<"l">>),
     String(TRUE, <<"v">>, "reboot", NoValue), String(TRUE, <<"t">>, "x", "f"),
     String(TRUE, <<"v">>, "", NoValue),
     Long("mt32", NoValue), Long("mt32-r", NoValue), Long("mt32-t", NoValue),
     Long("mt32-t", "f"), Long("verbose", "f"), Long("x", NoValue)}

Lines(words, max) == UNION {[1 .. k -> words] : k \in 1 .. max}
AllLines == Lines(Words, MaxWords) \cup Lines(Mixed, MaxMixed)

-----------------------------------------------------------------------------
\* Some options the usage text names without an argument (mt32-pi.c:622-654, and
\* amiga_src/midi_dev.c:171).
DocumentedFlags ==
    {Long("negative", NoValue), Long("mt32", NoValue), Short(<<"r">>), Short(<<"N">>),
     Short(<<"S">>)}
FlagLines == Lines(DocumentedFlags, MaxMixed)

\* "-N/--negative: Reverse color." (mt32-pi.c:654), and "-S: Use direct serial port
\* access instead of camd.library." (amiga_src/midi_dev.c:171): each of them stands
\* alone and leaves the word behind it alone.
FlagsTakeNothing ==
    (\A k \in DOMAIN line : line[k] \in DocumentedFlags) =>
        \A i \in DOMAIN got : got[i].opt # "?" /\ got[i].arg = <<>>
=============================================================================
