----------------------------- MODULE MCBackends -----------------------------
(* Messages of every kind, too short, whole and too long. *)
EXTENDS Backends

Nothing == <<>>

Good == {<<240, 125, 0, 247>>, <<240, 247>>, <<144, 60, 100>>, <<128, 60, 0>>,
         <<163, 1, 2>>, <<176, 7, 127>>, <<193, 5>>, <<208, 9>>}
Bad  == {<<144, 60>>, <<192>>, <<192, 1, 192, 94>>, <<240, 125, 0>>, <<240, 125>>,
         <<60, 1, 2>>, <<247>>, <<248>>, <<208, 9, 9>>}

\* More than one message, data bytes of eight bits, and bends.
Odd  == {<<240, 1, 247, 240, 2, 247>>, <<144, 200, 100>>, <<192, 200>>, <<60, 1>>,
         <<224, 0, 64>>, <<224, 1, 65>>, <<224, 0, 0>>}

GoodBadAndOdd == Good \cup Bad \cup Odd

Bends      == {<<224, l, m>> : l \in {0, 1, 127}, m \in {0, 63, 64, 127}}
=============================================================================
