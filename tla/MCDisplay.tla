------------------------------ MODULE MCDisplay ------------------------------
(* Texts from one character to more than there is room for, bitmaps good and *)
(* bad at their limits, and bitmap texts of some characters of the font.     *)
EXTENDS Display, TLC

Font ==
    (0  :> <<0, 4, 4, 4, 0, 4, 0, 0>>           @@    \* space and !
     16 :> <<0, 206, 42, 170, 174, 74, 0, 0>>   @@    \* @ and A
     17 :> <<0, 206, 168, 200, 168, 206, 0, 0>> @@    \* B and C
     47 :> <<14, 10, 10, 202, 106, 10, 14, 0>>)       \* ~ and the last one
FontFrom0 ==
    [c \in 0 .. 47 |-> [j \in 0 .. 7 |-> IF c \in DOMAIN Font THEN Font[c][j + 1] ELSE 0]]

Run(first, n) == [k \in 1 .. n |-> first + k]
Mt32Texts == {<<>>, <<65>>, <<96>>, <<65, 200>>, Run(64, 20), Run(64, 23)}
Sc55Texts == {<<>>, <<65>>, <<112>>, <<247, 65>>, Run(64, 32), Run(64, 34)}
BitmapTexts ==
    {<<>>, <<65>>, <<33, 64, 65, 66, 67>>, <<66, 32, 31, 127, 10, 126, 33, 67>>,
     <<67, 66, 65, 64, 33, 66, 65, 64, 126>>}

\* Bitmaps with pixels of every kind at the offset, and some bytes too many or few.
Pixel(seed, k) == (seed * k * k + 7 * k + 41 * (k \div 256)) % 256
Bitmap(type, offset, len, seed) ==
    [k \in 1 .. len |-> CASE k <= 2 -> type[k] [] k = 11 -> offset % 256
                          [] k = 12 -> offset \div 256 [] k \in {13, 14} -> 0
                          [] OTHER -> Pixel(seed, k)]
BM == <<66, 77>>
Bitmaps ==
    {NoFile, Unreadable, <<>>, Bitmap(BM, 62, 126, 3), Bitmap(BM, 62, 126, 5),
     Bitmap(BM, 62, 128, 11), Bitmap(BM, 146, 210, 1), Bitmap(BM, 62, 125, 3),
     Bitmap(<<66, 65>>, 62, 126, 3), Bitmap(BM, 62, 10, 3), Bitmap(BM, 255, 126, 3),
     Bitmap(BM, 318, 382, 3), Bitmap(BM, 318, 130, 3)}

AllAsks ==
    [mt32 : Mt32Texts, sc55 : Sc55Texts, bitmap : {NoFile}, btxt : {<<>>, <<65, 66>>},
     negative : {FALSE}]
    \cup [mt32 : {<<>>}, sc55 : {<<>>, Run(64, 32)}, bitmap : Bitmaps,
          btxt : BitmapTexts, negative : BOOLEAN]
=============================================================================
