------------------------------ MODULE MCSession ------------------------------
(* Command lines over one or two values of every option. *)
EXTENDS Session

O(k, a) == [opt |-> k, arg |-> a]

Common ==
    {O("reboot", "-"), O("gm-reset", "-"), O("mode", "munt"), O("mode", "fluid"),
     O("romset", "old"), O("soundfont", 1), O("soundfont", -1), O("mt32-rstereo", 0),
     O("mt32-txt", "hello"), O("mt32-txt", ""), O("sc55-bmp", "file"),
     O("syx", "file")}
Rare ==
    {O("mt32-reset", "-"), O("gs-reset", "-"), O("negative", "-"), O("verbose", "-"),
     O("romset", "new"), O("romset", "other"), O("soundfont", 127),
     O("soundfont", 200), O("soundfont", 300),
     O("mt32-rstereo", 1), O("sc55-txt", "hello"), O("sc55-btxt", "hello"),
     O("sc55-bmp", "too long"), O("syx", "too long"), O("sc55-bmp", ""), O("syx", ""),
     O("usage", "-"), O("backend", "good"), O("backend", "bad"), O("backend", "list"),
     O("midi", <<192, 257, 2, 3>>), O("midi", <<144, NoNumber, 1>>),
     O("midi", <<>>)}
AllOptions == Common \cup Rare

MidiOptions ==
    {O("midi", t) : t \in {<<192, 1>>, <<257>>, <<144, NoNumber>>, <<144, TooLarge, 2>>,
                           <<1, 2, 3, 4>>, <<NoNumber>>, <<>>}}
    \cup {O("mode", "munt")}
=============================================================================
