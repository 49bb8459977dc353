---------------------------- MODULE GetOptProofs ----------------------------
(***************************************************************************)
(* Proofs about GetOpt, for every command line and every table of options. *)
(* BlocksInOrder is inductive once argv is known to stay a sequence.       *)
(*                                                                         *)
(* For OptionsFirst, Euclid's algorithm finds the least sum of multiples   *)
(* of the lengths of the blocks, so the cycles of permute_args() meet all  *)
(* indices and it exchanges the blocks (SourceIs).  The invariant is then  *)
(* that some map says where every word was, and that both parts of argv    *)
(* are in their old order (PartsInv).  With it every step is one of        *)
(* CommandLine's (NextReads).                                              *)
(***************************************************************************)
EXTENDS GetOpt, SequenceTheorems, WellFoundedInduction, TLAPS

SafeInv == IsSequence(argv) /\ BlocksInOrder

-----------------------------------------------------------------------------
\* A function over the indices of a sequence is one, and as long.
LEMMA SameIndices ==
    ASSUME NEW s, IsSequence(s), NEW t, t = [k \in DOMAIN s |-> t[k]]
    PROVE  IsSequence(t) /\ Len(t) = Len(s)
<1> DEFINE n == Len(s)
           S == {t[k] : k \in DOMAIN t}
<1>1. n \in Nat /\ DOMAIN s = 1 .. n
  BY LenProperties DEF IsSequence
<1>2. DOMAIN t = 1 .. n
  BY <1>1
<1>3. t \in [1 .. n -> S]
  BY <1>1, <1>2
<1>4. t \in Seq(S)
  BY <1>1, <1>3
<1>5. QED
  BY <1>1, <1>2, <1>4, LenProperties DEF IsSequence

\* permute_args() keeps the number of words.
LEMMA PermuteKeepsLength ==
    ASSUME NEW s, IsSequence(s), NEW a, NEW b, NEW c
    PROVE  IsSequence(PermuteArgs(a, b, c, s)) /\ Len(PermuteArgs(a, b, c, s)) = Len(s)
<1> DEFINE t == PermuteArgs(a, b, c, s)
<1>1. t = [k \in DOMAIN s |-> t[k]]
  BY DEF PermuteArgs
<1> HIDE DEF t
<1>2. QED
  BY <1>1, SameIndices DEF t

\* An option takes one word at most, only if there is one, and then nothing is left
\* of its own.
LEMMA TakesAWord ==
    ASSUME NEW p, NEW after
    PROVE  LET r == ReadOption(p, after)
           IN  \/ r.takes = 0
               \/ r.takes = 1 /\ after # <<>> /\ r.place = EMSG
<1>1. \A opt : LET r == FromNextWord(opt, after)
               IN  \/ r.takes = 0
                   \/ r.takes = 1 /\ after # <<>> /\ r.place = EMSG
  BY DEF FromNextWord, BADARG, BADCH, Read
<1>2. \A l, opt, arg : BADCH(l).takes = 0 /\ BADARG.takes = 0
                           /\ Read(opt, arg, 0, l).takes = 0
  BY DEF BADARG, BADCH, Read
<1>3. CASE p.letters = <<>>
  BY <1>1, <1>2, <1>3, Zenon DEF ReadOption, ReadLong
<1>4. CASE p.letters # <<>>
  BY <1>1, <1>2, <1>4, Zenon DEF ReadOption, ReadShort
<1>5. QED
  BY <1>3, <1>4

-----------------------------------------------------------------------------
LEMMA InitSafe == Init => SafeInv
<1> SUFFICES ASSUME Init PROVE SafeInv
  OBVIOUS
<1>1. IsSequence(argv)
  BY CommandLinesAssumption DEF Init
<1>2. Len(argv) \in Nat
  BY <1>1, LenProperties DEF IsSequence
<1>3. QED
  BY <1>1, <1>2 DEF Init, SafeInv, BlocksInOrder, NoIndex

\* A step that returns an option leaves its word behind, and what it took.
LEMMA ReturnSafe ==
    ASSUME SafeInv, optind <= Len(argv), NEW p, Return(p)
    PROVE  SafeInv'
<1> DEFINE n == Len(argv)
           after == SubSeq(argv, optind + 1, n)
           r == ReadOption(p, after)
<1>1. n \in Nat /\ optind \in 1 .. n
  BY LenProperties DEF SafeInv, IsSequence, BlocksInOrder
<1>2. r.takes = 0 \/ (r.takes = 1 /\ optind + 1 <= n /\ r.place = EMSG)
  <2>1. after # <<>> => optind + 1 <= n
    BY <1>1, SubSeqEmpty
  <2>2. QED
    BY <2>1, TakesAWord, Zenon
<1>3. /\ place' = r.place
      /\ optind' = IF r.place = EMSG THEN optind + 1 + r.takes ELSE optind
      /\ nonopt_end' = EndOfBlock(optind)
      /\ nonopt_start' = nonopt_start /\ argv' = argv
  BY Zenon DEF Return
<1>4. PICK m \in optind .. n + 1 :
          /\ optind' = m
          /\ place' = EMSG => m > optind
          /\ place' # EMSG => m = optind
  <2>1. CASE r.place = EMSG
    BY <1>1, <1>2, <1>3, <2>1
  <2>2. CASE r.place # EMSG
    BY <1>1, <1>3, <2>2
  <2>3. QED
    BY <2>1, <2>2
<1>5. IsSequence(argv)' /\ Len(argv') = n
  BY <1>3 DEF SafeInv, IsSequence
<1>6. QED
  BY <1>1, <1>3, <1>4, <1>5 DEF SafeInv, BlocksInOrder, EndOfBlock, NoIndex

LEMMA NextSafe == SafeInv /\ [Next]_vars => SafeInv'
<1> SUFFICES ASSUME SafeInv, [Next]_vars PROVE SafeInv'
  OBVIOUS
<1> DEFINE n == Len(argv)
<1>0. n \in Nat /\ IsSequence(argv)
  BY LenProperties DEF SafeInv, IsSequence
<1>1. ASSUME NEW opt_end \in 1 .. n + 1, NEW end, EndBehind(opt_end, end), place = EMSG,
             end = NoIndex \/ (end \in nonopt_start + 1 .. opt_end - 1 /\ nonopt_start # NoIndex)
      PROVE  SafeInv'
  <2>1. IsSequence(argv)' /\ Len(argv') = n
    BY <1>0, <1>1, PermuteKeepsLength DEF EndBehind
  <2>2. optind' \in 1 .. n + 1
    BY <1>0, <1>1 DEF EndBehind, SafeInv, BlocksInOrder, NoIndex
  <2>3. nonopt_start' = NoIndex /\ nonopt_end' = NoIndex /\ place' = place
    BY <1>1 DEF EndBehind
  <2>4. QED
    BY <1>0, <1>1, <2>1, <2>2, <2>3 DEF SafeInv, BlocksInOrder, NoIndex
<1>2. CASE EndOfVector
  BY <1>0, <1>1, <1>2 DEF EndOfVector, SafeInv, BlocksInOrder
<1>3. CASE DashDash
  BY <1>0, <1>1, <1>3 DEF DashDash, AtWord, EndOfBlock, SafeInv, BlocksInOrder, NoIndex
<1>4. CASE StopAtNonOption
  BY <1>4 DEF StopAtNonOption, SafeInv, BlocksInOrder, IsSequence, blockVars
<1>5. CASE SkipNonOption
  <2>1. IsSequence(argv)' /\ Len(argv') = n
    <3>1. \/ argv' = argv
          \/ argv' = PermuteArgs(nonopt_start, nonopt_end, optind, argv)
      BY <1>5 DEF SkipNonOption
    <3>2. CASE argv' = argv
      BY <1>0, <3>2 DEF IsSequence
    <3>3. CASE argv' = PermuteArgs(nonopt_start, nonopt_end, optind, argv)
      BY <1>0, <3>3, PermuteKeepsLength
    <3>4. QED
      BY <3>1, <3>2, <3>3
  <2>2. PICK m \in 2 .. n + 1 : optind' = m /\ m = optind + 1
    BY <1>0, <1>5 DEF SkipNonOption, AtWord, SafeInv, BlocksInOrder
  <2>3. PICK k \in 1 .. m - 1 : nonopt_start' = k
    BY <1>0, <1>5, <2>2
    DEF SkipNonOption, AtWord, SafeInv, BlocksInOrder, NoIndex, blockVars
  <2>4. nonopt_end' = NoIndex /\ place' = EMSG
    BY <1>5 DEF SkipNonOption, AtWord, SafeInv, BlocksInOrder, blockVars
  <2>5. QED
    BY <1>0, <2>1, <2>2, <2>3, <2>4 DEF SafeInv, BlocksInOrder, NoIndex
<1>6. CASE ReadWord
  BY <1>6, ReturnSafe DEF ReadWord, AtWord
<1>7. CASE ReadOn
  BY <1>7, ReturnSafe DEF ReadOn, SafeInv, BlocksInOrder
<1>8. CASE UNCHANGED vars
  BY <1>8 DEF vars, blockVars, SafeInv, BlocksInOrder, IsSequence
<1>9. QED
  BY <1>2, <1>3, <1>4, <1>5, <1>6, <1>7, <1>8 DEF Next

\* However options and operands mix, nothing is read or moved outside argv, and no
\* block that is exchanged is empty (getopt.c:135-178, 356-440).
THEOREM AlwaysBlocksInOrder == SafeSpec => []BlocksInOrder
<1>1. SafeInv => BlocksInOrder
  BY DEF SafeInv
<1>2. QED
  BY <1>1, InitSafe, NextSafe, PTL DEF SafeSpec

-----------------------------------------------------------------------------
(* Division and remainder, and what gcd() finds. *)

\* What \div and % say.
LEMMA Division ==
    ASSUME NEW x \in Int, NEW y \in Nat, y > 0
    PROVE  x \div y \in Int /\ x % y \in Nat /\ x % y < y /\ x = y * (x \div y) + (x % y)
  OBVIOUS

\* A product is no less than its factors, and so a remainder is unique.
LEMMA Product ==
    ASSUME NEW y \in Nat, NEW d \in Int
    PROVE  (d >= 1 => y * d >= y) /\ (d <= 0 - 1 => y * d <= 0 - y)
<1>1. d >= 1 => y * d >= y
  OBVIOUS
<1>2. d <= 0 - 1 => y * d <= 0 - y
  OBVIOUS
<1>3. QED BY <1>1, <1>2

\* Whatever differs from x by a multiple of y has the remainder of x.
LEMMA Remainder ==
    ASSUME NEW y \in Nat, y > 0, NEW x \in Int, NEW r \in Nat, r < y,
           NEW z \in Int, x = r + y * z
    PROVE  x % y = r
<1>1. PICK q \in Int, s \in Nat : s = x % y /\ s < y /\ x = y * q + s
  BY Division
<1>2. PICK d \in Int : d = q - z
  OBVIOUS
<1>3. y * d = y * q - y * z
  BY <1>2
<1>4. y * d = r - s
  BY <1>1, <1>3
<1>5. ~(d >= 1)
  BY <1>1, <1>4, Product
<1>6. ~(d <= 0 - 1)
  BY <1>1, <1>4, Product
<1>7. d = 0
  BY <1>5, <1>6
<1>8. QED BY <1>1, <1>4, <1>7

\* A set of numbers has a least one.
LEMMA Least ==
    ASSUME NEW S, S \subseteq Nat, S # {}
    PROVE  \E n \in S : \A m \in S : n <= m
<1>1. PICK n \in S : \A m \in S : ~(<<m, n>> \in OpToRel(<, Nat))
  BY WFMin, NatLessThanWellFounded
<1>2. \A m \in S : ~(m < n)
  BY <1>1 DEF OpToRel
<1>3. QED BY <1>2

\* What two numbers add up to, each taken any number of times: its least is their
\* greatest common divisor.
SumsOf(x, y) == {n \in Nat \ {0} : \E u, v \in Int : n = u * x + v * y}
LeastIn(S)   == CHOOSE n \in S : \A m \in S : n <= m

LEMMA LeastIs ==
    ASSUME NEW S, S \subseteq Nat, S # {}
    PROVE  LeastIn(S) \in S /\ \A m \in S : LeastIn(S) <= m
  BY Least DEF LeastIn

\* How a number gets into SumsOf, and what it has from being there.
LEMMA SumIs ==
    ASSUME NEW x \in Nat, NEW y \in Nat, NEW u \in Int, NEW v \in Int,
           NEW n \in Nat, n > 0, n = u * x + v * y
    PROVE  n \in SumsOf(x, y)
  BY DEF SumsOf

LEMMA SumHas ==
    ASSUME NEW x, NEW y, NEW n \in SumsOf(x, y)
    PROVE  n \in Nat /\ n > 0 /\ \E u \in Int, v \in Int : n = u * x + v * y
<1>1. n \in Nat \ {0} /\ \E u, v \in Int : n = u * x + v * y
  BY Zenon DEF SumsOf
<1>2. n \in Nat /\ n > 0
  <2>1. n \in Nat \ {0}
    BY <1>1
  <2>2. QED BY <2>1
<1>3. QED BY <1>1, <1>2, Zenon

\* There is a least sum, for y itself is one.
LEMMA LeastSum ==
    ASSUME NEW x \in Nat, NEW y \in Nat, y > 0
    PROVE  /\ LeastIn(SumsOf(x, y)) \in SumsOf(x, y)
           /\ \A m \in SumsOf(x, y) : LeastIn(SumsOf(x, y)) <= m
<1>1. y \in SumsOf(x, y)
  <2>1. y = 0 * x + 1 * y /\ 0 \in Int /\ 1 \in Int
    OBVIOUS
  <2>2. QED BY <2>1, SumIs
<1>2. SumsOf(x, y) \subseteq Nat
  BY DEF SumsOf
<1>3. QED BY <1>1, <1>2, LeastIs

\* It satisfies the equation of Euclid.
LEMMA DivisorLeast ==
    ASSUME NEW x \in Nat, NEW y \in Nat, y > 0, x % y = 0
    PROVE  LeastIn(SumsOf(x, y)) = y
<1>1. PICK q \in Int : x = y * q
  BY Division
<1>2. PICK n : n = LeastIn(SumsOf(x, y)) /\ n \in SumsOf(x, y) /\ \A m \in SumsOf(x, y) : n <= m
  BY LeastSum
<1>3. n <= y
  <2>1. y = 0 * x + 1 * y /\ 0 \in Int /\ 1 \in Int
    OBVIOUS
  <2>2. QED BY <1>2, <2>1, SumIs
<1>4. PICK u \in Int, v \in Int : n = u * x + v * y /\ n \in Nat /\ n > 0
  BY <1>2, SumHas
<1>5. PICK d \in Int : d = u * q + v
  OBVIOUS
<1>6. n = y * d
  <2>1. u * x = u * (y * q)
    BY <1>1
  <2>2. u * (y * q) = y * (u * q)
    OBVIOUS
  <2>3. y * d = y * (u * q) + y * v
    BY <1>5
  <2>4. QED BY <1>4, <2>1, <2>2, <2>3
<1>7. d >= 1
  <2>1. d <= 0 - 1 => y * d <= 0 - y
    BY Product
  <2>2. QED BY <1>4, <1>6, <2>1
<1>8. n >= y
  BY <1>6, <1>7, Product
<1>9. n = y
  BY <1>3, <1>4, <1>8
<1>10. QED BY <1>2, <1>9

\* Euclid's step changes nothing: a sum of x and y is one of y and x % y.
LEMMA SameSums ==
    ASSUME NEW x \in Nat, NEW y \in Nat, y > 0
    PROVE  SumsOf(x, y) = SumsOf(y, x % y)
<1>1. PICK q \in Int, r \in Nat : r = x % y /\ x = y * q + r
  BY Division
<1>2. ASSUME NEW n \in SumsOf(x, y) PROVE n \in SumsOf(y, r)
  <2>1. PICK u \in Int, v \in Int : n = u * x + v * y /\ n \in Nat /\ n > 0
    BY SumHas
  <2>2. u * x = u * (y * q) + u * r
    BY <1>1
  <2>3. PICK w \in Int : w = u * q + v
    OBVIOUS
  <2>4. w * y = u * (y * q) + v * y
    BY <2>3
  <2>5. n = w * y + u * r
    BY <2>1, <2>2, <2>4
  <2>6. QED BY <2>1, <2>5, SumIs
<1>3. ASSUME NEW n \in SumsOf(y, r) PROVE n \in SumsOf(x, y)
  <2>1. PICK u \in Int, v \in Int : n = u * y + v * r /\ n \in Nat /\ n > 0
    BY SumHas
  <2>2. v * x = v * (y * q) + v * r
    BY <1>1
  <2>3. PICK w \in Int : w = u - v * q
    OBVIOUS
  <2>4. w * y = u * y - v * (y * q)
    BY <2>3
  <2>5. n = v * x + w * y
    BY <2>1, <2>2, <2>4
  <2>6. QED BY <2>1, <2>5, SumIs
<1>4. QED BY <1>1, <1>2, <1>3

\* It divides both.
LEMMA LeastDivides ==
    ASSUME NEW x \in Nat, NEW y \in Nat, y > 0
    PROVE  \E n \in Nat : /\ n = LeastIn(SumsOf(x, y)) /\ n > 0
                         /\ \E u \in Int, v \in Int : n = u * x + v * y
                         /\ \E p \in Int : x = n * p
                         /\ \E q \in Int : y = n * q
<1>1. PICK n : n = LeastIn(SumsOf(x, y))
  OBVIOUS
<1>2. n \in SumsOf(x, y) /\ \A m \in SumsOf(x, y) : n <= m
  BY <1>1, LeastSum
<1>3. n \in Nat /\ n > 0 /\ \E u \in Int, v \in Int : n = u * x + v * y
  BY <1>2, SumHas
<1>4. PICK u \in Int, v \in Int : n = u * x + v * y
  BY <1>3
<1>5. ASSUME NEW z \in Int, NEW s \in Int, NEW t \in Int, z = s * x + t * y
      PROVE  \E q \in Int : z = n * q
  <2>1. PICK q \in Int, r \in Nat : r < n /\ z = n * q + r
    <3>1. z \div n \in Int /\ z % n \in Nat /\ z % n < n /\ z = n * (z \div n) + (z % n)
      BY <1>3, Division
    <3>2. QED BY <3>1
  <2>2. PICK a \in Int, b \in Int : a = s - u * q /\ b = t - v * q
    OBVIOUS
  <2>3. a * x = s * x - (u * x) * q
    BY <2>2
  <2>4. b * y = t * y - (v * y) * q
    BY <2>2
  <2>5. n * q = (u * x) * q + (v * y) * q
    BY <1>4
  <2>6. r = a * x + b * y
    BY <1>3, <1>5, <2>1, <2>3, <2>4, <2>5
  <2>7. ~(r > 0)
    <3>1. r > 0 => r \in SumsOf(x, y)
      BY <2>6, SumIs
    <3>2. QED BY <1>2, <1>3, <2>1, <3>1
  <2>8. z = n * q
    BY <1>3, <2>1, <2>7
  <2>9. QED BY <2>8
<1>6. \E p \in Int : x = n * p
  <2>1. x = 1 * x + 0 * y /\ 0 \in Int /\ 1 \in Int /\ x \in Int
    OBVIOUS
  <2>2. QED BY <1>5, <2>1
<1>7. \E q \in Int : y = n * q
  <2>1. y = 0 * x + 1 * y /\ 0 \in Int /\ 1 \in Int /\ y \in Int
    OBVIOUS
  <2>2. QED BY <1>5, <2>1
<1>8. QED BY <1>1, <1>3, <1>6, <1>7

\* So it is what Euclid's algorithm finds.
Pairs == Nat \X (Nat \ {0})
Euclid(g) ==
    g = [p \in Pairs |-> LET c == p[1] % p[2] IN IF c = 0 THEN p[2] ELSE g[<<p[2], c>>]]

LEMMA PairIs ==
    ASSUME NEW p \in Pairs
    PROVE  p[1] \in Nat /\ p[2] \in Nat /\ p[2] > 0 /\ p = <<p[1], p[2]>>
  BY DEF Pairs

LEMMA EuclidEnds == \E g : Euclid(g)
<1>1. PICK g : g = [p \in Pairs |-> LeastIn(SumsOf(p[1], p[2]))]
  OBVIOUS
<1>2. ASSUME NEW p \in Pairs
      PROVE  LeastIn(SumsOf(p[1], p[2])) =
                 LET c == p[1] % p[2] IN IF c = 0 THEN p[2] ELSE g[<<p[2], c>>]
  <2>1. PICK x \in Nat, y \in Nat : x = p[1] /\ y = p[2] /\ y > 0
    BY PairIs
  <2>2. PICK c \in Nat : c = x % y
    <3>1. x % y \in Nat
      BY <2>1, Division
    <3>2. QED BY <3>1
  <2>3. CASE c = 0
    <3>1. LeastIn(SumsOf(x, y)) = y
      BY <2>1, <2>2, <2>3, DivisorLeast
    <3>2. QED BY <2>1, <2>2, <2>3, <3>1
  <2>4. CASE c # 0
    <3>1. <<y, c>> \in Pairs
      BY <2>1, <2>4 DEF Pairs
    <3>2. g[<<y, c>>] = LeastIn(SumsOf(y, c))
      BY <1>1, <3>1
    <3>3. SumsOf(x, y) = SumsOf(y, c)
      BY <2>1, <2>2, SameSums
    <3>4. QED BY <2>1, <2>2, <2>4, <3>2, <3>3
  <2>5. QED BY <2>3, <2>4
<1>3. Euclid(g)
  BY <1>1, <1>2, Zenon DEF Euclid
<1>4. QED BY <1>3

\* Of two functions that differ for some y, they differ for a least one; but the
\* next step has a lesser.
LEMMA EuclidFinds ==
    ASSUME NEW g, Euclid(g), NEW a \in Nat, NEW b \in Nat \ {0}
    PROVE  g[<<a, b>>] = LeastIn(SumsOf(a, b))
<1>1. \A x \in Nat, y \in Nat \ {0} :
          g[<<x, y>>] = IF x % y = 0 THEN y ELSE g[<<y, x % y>>]
  <2>1. TAKE x \in Nat, y \in Nat \ {0}
  <2>2. <<x, y>> \in Pairs
    BY DEF Pairs
  <2>3. QED BY <2>2 DEF Euclid
<1>2. PICK Bad : Bad = {y \in Nat \ {0} : \E x \in Nat : g[<<x, y>>] # LeastIn(SumsOf(x, y))}
  OBVIOUS
<1>3. SUFFICES ASSUME Bad # {} PROVE FALSE
  BY <1>2
<1>4. PICK y \in Bad : \A z \in Bad : y <= z
  <2>1. Bad \subseteq Nat
    BY <1>2
  <2>2. QED BY <1>3, <2>1, Least
<1>5. y \in Nat /\ y > 0 /\ y \in Nat \ {0}
  BY <1>2
<1>6. PICK x \in Nat : g[<<x, y>>] # LeastIn(SumsOf(x, y))
  BY <1>2
<1>7. x % y # 0
  BY <1>1, <1>5, <1>6, DivisorLeast
<1>8. PICK r \in Nat \ {0} : r = x % y /\ r < y
  <2>1. x % y \in Nat /\ x % y < y
    BY <1>5, Division
  <2>2. QED BY <1>7, <2>1
<1>9. g[<<x, y>>] = g[<<y, r>>]
  BY <1>1, <1>5, <1>7, <1>8
<1>10. r \notin Bad
  BY <1>2, <1>4, <1>5, <1>8
<1>11. g[<<y, r>>] = LeastIn(SumsOf(y, r))
  BY <1>2, <1>5, <1>8, <1>10
<1>12. SumsOf(x, y) = SumsOf(y, r)
  BY <1>5, <1>8, SameSums
<1>13. QED BY <1>6, <1>9, <1>11, <1>12

LEMMA GcdIs ==
    ASSUME NEW a \in Nat, NEW b \in Nat \ {0}
    PROVE  Gcd(a, b) = LeastIn(SumsOf(a, b))
<1>1. PICK g : g = (CHOOSE f : Euclid(f)) /\ Euclid(g)
  BY EuclidEnds
<1>2. Gcd(a, b) = g[<<a, b>>]
  BY <1>1, Zenon DEF Gcd, Euclid, Pairs
<1>3. QED BY <1>1, <1>2, EuclidFinds

-----------------------------------------------------------------------------
(* The cycles of permute_args(). *)

\* Where the inner loop stands after j rounds: it goes on by a block of options, and
\* comes in again at the other end.
RoundAt(i, j, s, e, o) == s + ((e - s + i + j * (o - e)) % (o - s))

Turned(m, b, l, x, y) ==
    l = m + b /\ y = x + b => y % l = IF x % l >= m THEN (x % l) - m ELSE (x % l) + b

\* One round adds b and takes the sum modulo m + b.
LEMMA OneRound ==
    ASSUME NEW m \in Nat, NEW b \in Nat, NEW l \in Nat, l > 0,
           NEW x \in Int, NEW y \in Int
    PROVE  Turned(m, b, l, x, y)
<1>0. SUFFICES ASSUME l = m + b, y = x + b
               PROVE  y % l = IF x % l >= m THEN (x % l) - m ELSE (x % l) + b
  BY DEF Turned
<1>1. PICK q \in Int, r \in Nat : r = x % l /\ r < l /\ x = l * q + r
  BY Division
<1>2. CASE r >= m
  <2>1. PICK t \in Nat : t = r - m /\ t < l
    BY <1>1, <1>2
  <2>0. l = m + b /\ y = x + b
    BY <1>0
  <2>2. PICK p \in Int : p = q + 1 /\ l * p = l * q + l
    OBVIOUS
  <2>3. y = t + l * p
    BY <1>1, <2>0, <2>1, <2>2
  <2>4. y % l = t
    BY <2>1, <2>3, Remainder
  <2>5. QED BY <1>1, <1>2, <2>1, <2>4
<1>3. CASE r < m
  <2>1. PICK t \in Nat : t = r + b /\ t < l
    BY <1>0, <1>1, <1>3
  <2>2. y = t + l * q
    BY <1>0, <1>1, <2>1
  <2>3. y % l = t
    BY <2>1, <2>2, Remainder
  <2>4. QED BY <1>1, <1>3, <2>1, <2>3
<1>4. QED BY <1>1, <1>2, <1>3

OneOn(i, j, s, e, o) ==
    /\ RoundAt(i, j, s, e, o) \in Int
    /\ s <= RoundAt(i, j, s, e, o) /\ RoundAt(i, j, s, e, o) < o
    /\ RoundAt(i, j + 1, s, e, o) = NextPos(RoundAt(i, j, s, e, o), s, e, o)

\* It starts at the word behind the block of operands, and stays within both.
LEMMA RoundAtIs ==
    ASSUME NEW s \in Int, NEW e \in Int, NEW o \in Int, s < e, e < o,
           NEW i \in Nat, i < o - e
    PROVE  /\ RoundAt(i, 0, s, e, o) = e + i
           /\ \A j \in Nat : OneOn(i, j, s, e, o)
<1>1. PICK m \in Nat, b \in Nat, l \in Nat : m = e - s /\ b = o - e /\ l = o - s /\ l > 0 /\ l = m + b
  OBVIOUS
<1>0. l > 0
  BY <1>1
<1>2. \A j : RoundAt(i, j, s, e, o) = s + ((m + i + j * b) % l)
  BY <1>1 DEF RoundAt
<1>3. RoundAt(i, 0, s, e, o) = e + i
  <2>1. (m + i) % l = m + i
    <3>1. m + i \in Nat /\ m + i < l /\ m + i = (m + i) + l * 0
      BY <1>1
    <3>2. QED BY <1>1, <3>1, Remainder
  <2>2. m + i + 0 * b = m + i
    BY <1>1
  <2>3. QED BY <1>1, <1>2, <2>1, <2>2
<1>4. ASSUME NEW j \in Nat
      PROVE  /\ RoundAt(i, j, s, e, o) \in Int
             /\ s <= RoundAt(i, j, s, e, o) /\ RoundAt(i, j, s, e, o) < o
             /\ RoundAt(i, j + 1, s, e, o) = NextPos(RoundAt(i, j, s, e, o), s, e, o)
  <2>1. PICK x \in Int : x = m + i + j * b
    BY <1>1
  <2>2. PICK q \in Int, r \in Nat : r = x % l /\ r < l /\ x = l * q + r
    BY <1>1, Division
  <2>3. PICK y \in Int : y = m + i + (j + 1) * b
    BY <1>1
  <2>4. y = x + b
    BY <2>1, <2>3
  <2>5. RoundAt(i, j, s, e, o) = s + r
    BY <1>2, <2>1, <2>2
  <2>6. RoundAt(i, j + 1, s, e, o) = s + (y % l)
    BY <1>2, <2>3
  <2>7. y % l = IF r >= m THEN r - m ELSE r + b
    <3>1. Turned(m, b, l, x, y)
      BY <1>0, OneRound
    <3>2. y % l = IF x % l >= m THEN (x % l) - m ELSE (x % l) + b
      BY <1>1, <2>4, <3>1, Zenon DEF Turned
    <3>3. QED BY <2>2, <3>2
  <2>8. s + r >= e <=> r >= m
    BY <1>1
  <2>9. s + r \in Int /\ s <= s + r /\ s + r < o
    BY <1>1, <2>2
  <2>10. NextPos(s + r, s, e, o) = IF r >= m THEN s + r - m ELSE s + r + b
    BY <1>1 DEF NextPos
  <2>11. s + (y % l) = NextPos(s + r, s, e, o)
    <3>1. CASE r >= m
      BY <2>7, <2>10, <3>1
    <3>2. CASE ~(r >= m)
      BY <2>7, <2>10, <3>2
    <3>3. QED BY <3>1, <3>2
  <2>12. QED BY <2>5, <2>6, <2>9, <2>11, Zenon
<1>5. QED BY <1>3, <1>4 DEF OneOn

Rounds(g, cstart, s, e, o) ==
    g = [j \in Nat |-> IF j = 0 THEN cstart ELSE NextPos(g[j - 1], s, e, o)]

\* There is one function that goes round as the loop does: this one.
LEMMA CycleIs ==
    ASSUME NEW s \in Int, NEW e \in Int, NEW o \in Int, s < e, e < o,
           NEW i \in Nat, i < o - e
    PROVE  \A j \in Nat : Cycle(e + i, s, e, o)[j] = RoundAt(i, j, s, e, o)
<1>1. /\ RoundAt(i, 0, s, e, o) = e + i
      /\ \A j \in Nat : RoundAt(i, j + 1, s, e, o) = NextPos(RoundAt(i, j, s, e, o), s, e, o)
  <2>1. RoundAt(i, 0, s, e, o) = e + i /\ \A j \in Nat : OneOn(i, j, s, e, o)
    BY RoundAtIs
  <2>2. QED BY <2>1, Zenon DEF OneOn
<1>2. \E g : Rounds(g, e + i, s, e, o)
  <2>1. PICK g : g = [j \in Nat |-> RoundAt(i, j, s, e, o)]
    OBVIOUS
  <2>2. ASSUME NEW j \in Nat
        PROVE  RoundAt(i, j, s, e, o) = IF j = 0 THEN e + i ELSE NextPos(g[j - 1], s, e, o)
    <3>1. CASE j = 0
      BY <1>1, <3>1
    <3>2. CASE j # 0
      <4>1. PICK h \in Nat : h = j - 1 /\ j = h + 1
        BY <3>2
      <4>2. RoundAt(i, j, s, e, o) = NextPos(RoundAt(i, h, s, e, o), s, e, o)
        BY <1>1, <4>1
      <4>3. g[h] = RoundAt(i, h, s, e, o)
        BY <2>1
      <4>4. QED BY <3>2, <4>1, <4>2, <4>3
    <3>3. QED BY <3>1, <3>2
  <2>3. Rounds(g, e + i, s, e, o)
    BY <2>1, <2>2, Zenon DEF Rounds
  <2>4. QED BY <2>3
<1>3. PICK g : g = (CHOOSE f : Rounds(f, e + i, s, e, o)) /\ Rounds(g, e + i, s, e, o)
  BY <1>2, Zenon
<1>4. Cycle(e + i, s, e, o) = g
  BY <1>3, Zenon DEF Cycle, Rounds
<1>5. /\ g[0] = e + i
      /\ \A j \in Nat : g[j + 1] = NextPos(g[j], s, e, o)
  <2>1. \A j \in Nat : g[j] = IF j = 0 THEN e + i ELSE NextPos(g[j - 1], s, e, o)
    BY <1>3, Zenon DEF Rounds
  <2>2. ASSUME NEW j \in Nat PROVE g[j + 1] = NextPos(g[j], s, e, o)
    <3>1. PICK h \in Nat : h = j + 1 /\ h # 0 /\ h - 1 = j
      OBVIOUS
    <3>2. g[h] = NextPos(g[h - 1], s, e, o)
      BY <2>1, <3>1
    <3>3. QED BY <3>1, <3>2
  <2>3. QED BY <2>1, <2>2
<1>6. PICK Bad : Bad = {j \in Nat : g[j] # RoundAt(i, j, s, e, o)}
  OBVIOUS
<1>7. Bad = {}
  <2>1. SUFFICES ASSUME Bad # {} PROVE FALSE
    OBVIOUS
  <2>2. PICK j \in Bad : \A h \in Bad : j <= h
    <3>1. Bad \subseteq Nat
      BY <1>6
    <3>2. QED BY <2>1, <3>1, Least
  <2>3. j \in Nat /\ g[j] # RoundAt(i, j, s, e, o)
    BY <1>6
  <2>4. j # 0
    BY <1>1, <1>5, <2>3
  <2>5. PICK h \in Nat : j = h + 1
    <3>1. j - 1 \in Nat /\ j = (j - 1) + 1
      BY <2>3, <2>4
    <3>2. QED BY <3>1
  <2>6. g[h] = RoundAt(i, h, s, e, o)
    BY <1>6, <2>2, <2>5
  <2>7. QED BY <1>1, <1>5, <2>3, <2>5, <2>6
<1>8. QED BY <1>4, <1>6, <1>7

\* A product divides again.
LEMMA Quotient ==
    ASSUME NEW y \in Nat, y > 0, NEW z \in Int
    PROVE  (y * z) \div y = z
<1>1. PICK x \in Int : x = y * z
  OBVIOUS
<1>2. x % y = 0
  <2>1. x = 0 + y * z
    BY <1>1
  <2>2. 0 \in Nat /\ 0 < y
    OBVIOUS
  <2>3. QED BY <2>1, <2>2, Remainder
<1>3. PICK q \in Int : q = x \div y /\ x = y * q
  BY <1>2, Division
<1>4. PICK d \in Int : d = q - z
  OBVIOUS
<1>5. y * d = 0
  <2>1. y * d = y * q - y * z
    BY <1>4
  <2>2. QED BY <1>1, <1>3, <2>1
<1>6. ~(d >= 1) /\ ~(d <= 0 - 1)
  BY <1>5, Product
<1>7. q = z
  BY <1>4, <1>6
<1>8. QED BY <1>1, <1>3, <1>7

\* The lengths of the blocks are p and q times their divisor g, and u * p + v * q = 1.
Divides(g, m, b) ==
    /\ g \in Nat /\ g > 0
    /\ \E p \in Int, q \in Int, u \in Int, v \in Int :
           /\ m = g * p
           /\ b = g * q
           /\ u * p + v * q = 1
           /\ p >= 1 /\ q >= 1

LEMMA Divided ==
    ASSUME NEW m \in Nat, NEW b \in Nat, m > 0, b > 0
    PROVE  Divides(Gcd(m, b), m, b)
<1>1. PICK g \in Nat : /\ g = LeastIn(SumsOf(m, b)) /\ g > 0
                      /\ \E u \in Int, v \in Int : g = u * m + v * b
                      /\ \E p \in Int : m = g * p
                      /\ \E q \in Int : b = g * q
  BY LeastDivides
<1>2. g = Gcd(m, b)
  BY <1>1, GcdIs
<1>3. PICK u \in Int, v \in Int : g = u * m + v * b
  BY <1>1
<1>4. PICK p \in Int : m = g * p
  BY <1>1
<1>5. PICK q \in Int : b = g * q
  BY <1>1
<1>6. PICK d \in Int : d = u * p + v * q - 1
  OBVIOUS
<1>7. g * d = 0
  <2>1. g * d = u * (g * p) + v * (g * q) - g
    BY <1>6
  <2>2. QED BY <1>3, <1>4, <1>5, <2>1
<1>8. d = 0
  BY <1>1, <1>7, Product
<1>9. p >= 1 /\ q >= 1
  <2>1. p <= 0 => g * p <= 0
    OBVIOUS
  <2>2. q <= 0 => g * q <= 0
    OBVIOUS
  <2>3. QED BY <1>4, <1>5, <2>1, <2>2
<1>10. u * p + v * q = 1
  BY <1>6, <1>8
<1>11. \E pp \in Int, qq \in Int, uu \in Int, vv \in Int :
           /\ m = g * pp
           /\ b = g * qq
           /\ uu * pp + vv * qq = 1
           /\ pp >= 1 /\ qq >= 1
  BY <1>4, <1>5, <1>9, <1>10, Zenon
<1>12. QED BY <1>1, <1>2, <1>11, Zenon DEF Divides

\* How often one goes round to come to g * t + i, modulo the length of both blocks.
LEMMA RoundsAddUp ==
    ASSUME NEW g \in Int, NEW p \in Int, NEW q \in Int, NEW u \in Int, NEW v \in Int,
           NEW t \in Int, NEW i \in Int, NEW h \in Int, NEW j \in Int
    PROVE  u * p + v * q = 1 /\ (v - u) * t = (p + q) * h + j =>
               g * p + i + (j + 1) * (g * q)
                   = (g * t + i) + (g * (p + q)) * (1 - t * u - h * q)
<1>1. SUFFICES ASSUME u * p + v * q = 1, (v - u) * t = (p + q) * h + j
               PROVE  g * p + i + (j + 1) * (g * q)
                          = (g * t + i) + (g * (p + q)) * (1 - t * u - h * q)
  OBVIOUS
<1>2. q * j = q * (v * t) - q * (u * t) - q * (p * h) - q * (q * h)
  BY <1>1
<1>3. q * (v * t) = t - u * (p * t)
  <2>1. (u * p + v * q) * t = t
    BY <1>1
  <2>2. QED BY <2>1
<1>4. q * j = t - u * (p * t) - q * (u * t) - q * (p * h) - q * (q * h)
  BY <1>2, <1>3
<1>5. g * (q * j) = g * (t - u * (p * t) - q * (u * t) - q * (p * h) - q * (q * h))
  BY <1>4
<1>6. (j + 1) * (g * q) = g * (q * j) + g * q
  OBVIOUS
<1>7. (j + 1) * (g * q) = g * (t - u * (p * t) - q * (u * t) - q * (p * h) - q * (q * h)) + g * q
  BY <1>5, <1>6
<1>8. g * p + i + (g * (t - u * (p * t) - q * (u * t) - q * (p * h) - q * (q * h)) + g * q)
          = (g * t + i) + (g * (p + q)) * (1 - t * u - h * q)
  OBVIOUS
<1>9. QED BY <1>7, <1>8

\* Every position of the blocks is on the way of one of the cycles.
Reaches(g, c, k, s, e, o) ==
    \E i \in 0 .. g - 1, h \in 1 .. c : RoundAt(i, h, s, e, o) = k

LEMMA Reached ==
    ASSUME NEW s \in Int, NEW e \in Int, NEW o \in Int, s < e, e < o,
           NEW k \in Int, s <= k, k < o
    PROVE  Reaches(Gcd(e - s, o - e), (o - s) \div Gcd(e - s, o - e), k, s, e, o)
<1>1. PICK m \in Nat, b \in Nat, l \in Nat : m = e - s /\ b = o - e /\ l = o - s /\ m > 0 /\ b > 0 /\ l > 0
  OBVIOUS
<1>l. l = m + b
  BY <1>1
<1>p. m > 0 /\ b > 0 /\ l > 0
  BY <1>1
<1>2. PICK g \in Nat, p \in Int, q \in Int, u \in Int, v \in Int :
          /\ g = Gcd(m, b) /\ g > 0
          /\ m = g * p
          /\ b = g * q
          /\ u * p + v * q = 1
          /\ p >= 1 /\ q >= 1
  <2>1. Divides(Gcd(m, b), m, b)
    BY <1>p, Divided
  <2>2. QED BY <2>1, Zenon DEF Divides
<1>3. PICK c \in Int : c = p + q /\ c \in Nat /\ c > 0
  BY <1>2
<1>4. l \div g = c
  <2>1. l = g * c
    <3>1. g * c = g * p + g * q
      BY <1>3
    <3>2. QED BY <1>l, <1>2, <3>1
  <2>2. g > 0
    BY <1>2
  <2>3. (g * c) \div g = c
    BY <2>2, Quotient
  <2>4. QED BY <2>1, <2>3
<1>5. PICK r \in Nat : r = k - s /\ r < l
  BY <1>1
<1>6. PICK i \in Nat, t \in Int : i < g /\ r = g * t + i
  <2>1. r \div g \in Int /\ r % g \in Nat /\ r % g < g /\ r = g * (r \div g) + (r % g)
    BY <1>2, Division
  <2>2. QED BY <2>1
<1>7. PICK j \in Nat, h \in Int : j < c /\ (v - u) * t = c * h + j
  <2>1. PICK z \in Int : z = (v - u) * t
    OBVIOUS
  <2>2. z \div c \in Int /\ z % c \in Nat /\ z % c < c /\ z = c * (z \div c) + (z % c)
    BY <1>3, Division
  <2>3. QED BY <2>1, <2>2
<1>8. m + i + (j + 1) * b = r + l * (1 - t * u - h * q)
  <2>1. (v - u) * t = (p + q) * h + j
    BY <1>3, <1>7
  <2>2. g * p + i + (j + 1) * (g * q)
            = (g * t + i) + (g * (p + q)) * (1 - t * u - h * q)
    BY <1>2, <2>1, RoundsAddUp
  <2>3. l = g * (p + q)
    <3>1. g * (p + q) = g * p + g * q
      OBVIOUS
    <3>2. QED BY <1>l, <1>2, <3>1
  <2>4. QED BY <1>2, <1>6, <2>2, <2>3
<1>9. (m + i + (j + 1) * b) % l = r
  <2>1. PICK x \in Int, w \in Int : x = m + i + (j + 1) * b /\ w = 1 - t * u - h * q
    OBVIOUS
  <2>2. x = r + l * w
    BY <1>8, <2>1
  <2>3. r < l
    BY <1>5
  <2>4. x % l = r
    BY <1>p, <2>2, <2>3, Remainder
  <2>5. QED BY <2>1, <2>4
<1>10. RoundAt(i, j + 1, s, e, o) = k
  BY <1>1, <1>5, <1>9 DEF RoundAt
<1>11. i \in 0 .. g - 1 /\ j + 1 \in 1 .. c
  BY <1>3, <1>6, <1>7
<1>12. g = Gcd(e - s, o - e) /\ c = (o - s) \div Gcd(e - s, o - e)
  BY <1>1, <1>2, <1>4
<1>13. Reaches(g, c, k, s, e, o)
  BY <1>10, <1>11 DEF Reaches
<1>14. QED BY <1>12, <1>13

\* The index in the other block that changes places with this one.
OtherBlock(k, s, e, o) == IF k < s + (o - e) THEN k + (e - s) ELSE k - (o - e)

\* Where the word at an index of the blocks was one round before.
LEMMA NextPosBack ==
    ASSUME NEW s \in Int, NEW e \in Int, NEW o \in Int, s < e, e < o,
           NEW x \in Int, s <= x, x < o, NEW k, k = NextPos(x, s, e, o)
    PROVE  k \in Int /\ s <= k /\ k < o /\ x = OtherBlock(k, s, e, o)
  BY DEF NextPos, OtherBlock

\* So permute_args() exchanges the blocks.
LEMMA SourceIs ==
    ASSUME NEW s \in Int, NEW e \in Int, NEW o \in Int, s < e, e < o, NEW k \in Int
    PROVE  SourceOf(k, s, e, o) = IF s <= k /\ k < o THEN OtherBlock(k, s, e, o) ELSE k
<1> DEFINE g == Gcd(e - s, o - e)
           c == (o - s) \div g
           pos(i) == Cycle(e + i, s, e, o)
           Steps  == {w \in (0 .. g - 1) \X (1 .. c) : pos(w[1])[w[2]] = k}
           step   == CHOOSE w \in Steps : TRUE
<1>3. SourceOf(k, s, e, o) = IF Steps = {} THEN k ELSE pos(step[1])[step[2] - 1]
  BY Zenon DEF SourceOf
<1>1. g = Gcd(e - s, o - e)
  OBVIOUS
<1>2. c = (o - s) \div g
  OBVIOUS
<1> HIDE DEF g, c
<1>4. g \in Nat /\ g > 0 /\ c \in Int /\ g <= o - e
  <2>1. PICK m \in Nat, b \in Nat : m = e - s /\ b = o - e /\ m > 0 /\ b > 0
    OBVIOUS
  <2>2. m > 0 /\ b > 0
    BY <2>1
  <2>3. PICK h \in Nat, q \in Int : h = Gcd(m, b) /\ h > 0 /\ b = h * q /\ q >= 1
    <3>1. Divides(Gcd(m, b), m, b)
      BY <2>2, Divided
    <3>2. QED BY <3>1, Zenon DEF Divides
  <2>4. b >= h
    BY <2>3, Product
  <2>5. g = h
    BY <1>1, <2>1, <2>3
  <2>6. PICK l \in Int : l = o - s
    OBVIOUS
  <2>7. l \div h \in Int
    BY <2>3, Division
  <2>8. QED BY <1>2, <2>1, <2>3, <2>4, <2>5, <2>6, <2>7
<1>5. ASSUME NEW w \in (0 .. g - 1) \X (1 .. c)
      PROVE  /\ pos(w[1])[w[2]] \in Int
             /\ s <= pos(w[1])[w[2]] /\ pos(w[1])[w[2]] < o
             /\ pos(w[1])[w[2] - 1] = OtherBlock(pos(w[1])[w[2]], s, e, o)
  <2>1. PICK i \in Nat, h \in Nat : i = w[1] /\ w[2] = h + 1 /\ i < o - e
    <3>1. w[1] \in Nat /\ w[2] - 1 \in Nat /\ w[2] = (w[2] - 1) + 1 /\ w[1] < o - e
      BY <1>4
    <3>2. QED BY <3>1
  <2>2. \A j \in Nat : pos(i)[j] = RoundAt(i, j, s, e, o)
    BY <2>1, CycleIs
  <2>3. PICK x \in Int, y \in Int :
            /\ x = RoundAt(i, h, s, e, o) /\ y = RoundAt(i, h + 1, s, e, o)
            /\ s <= x /\ x < o /\ y = NextPos(x, s, e, o) /\ s <= y /\ y < o
    <3>1. i < o - e /\ h + 1 \in Nat
      BY <2>1
    <3>2. OneOn(i, h, s, e, o) /\ OneOn(i, h + 1, s, e, o)
      BY <3>1, RoundAtIs
    <3>3. QED BY <3>2 DEF OneOn
  <2>4. x = OtherBlock(y, s, e, o)
    BY <2>3, NextPosBack
  <2>5. pos(i)[h] = x /\ pos(i)[h + 1] = y
    BY <2>2, <2>3
  <2>6. w[2] - 1 = h
    BY <2>1
  <2>7. QED BY <2>1, <2>3, <2>4, <2>5, <2>6
<1>6. CASE Steps = {}
  <2>1. ~(s <= k /\ k < o)
    <3>1. SUFFICES ASSUME s <= k, k < o PROVE FALSE
      OBVIOUS
    <3>2. PICK i \in 0 .. g - 1, h \in 1 .. c : RoundAt(i, h, s, e, o) = k
      <4>1. Reaches(g, c, k, s, e, o)
        BY <1>1, <1>2, <3>1, Reached
      <4>2. QED BY <4>1, Zenon DEF Reaches
    <3>3. pos(i)[h] = k
      <4>1. i \in Nat /\ i < o - e /\ h \in Nat
        BY <1>4
      <4>2. QED BY <3>2, <4>1, CycleIs
    <3>4. <<i, h>> \in Steps
      BY <3>3
    <3>5. QED BY <1>6, <3>4
  <2>2. QED BY <1>3, <1>6, <2>1
<1>7. CASE Steps # {}
  <2>1. step \in Steps
    BY <1>7, Zenon
  <2>2. PICK w : w = step
    OBVIOUS
  <2>3. w \in (0 .. g - 1) \X (1 .. c) /\ pos(w[1])[w[2]] = k
    BY <2>1, <2>2
  <2>4. s <= k /\ k < o /\ pos(w[1])[w[2] - 1] = OtherBlock(k, s, e, o)
    BY <1>5, <2>3
  <2>5. QED BY <1>3, <1>7, <2>2, <2>4, Zenon
<1>8. QED BY <1>6, <1>7

-----------------------------------------------------------------------------
(* Where the words come from. *)

\* words[k] is old[from[k]], and no word is lost.
Comes(n, from, words, old) ==
    /\ DOMAIN words = 1 .. n /\ DOMAIN old = 1 .. n
    /\ from \in [1 .. n -> 1 .. n]
    /\ \A k \in 1 .. n : words[k] = old[from[k]]
    /\ \A i \in 1 .. n : \E k \in 1 .. n : from[k] = i

\* The words before o have been read, those from s to e are operands among them, and
\* the others come from the indices in Q. Both parts are in their old order.
InBlock(k, s, e)  == s <= k /\ k < e
IsRead(k, s, e, o) == k < o /\ ~InBlock(k, s, e)
Parts(n, from, Q, s, e, o) ==
    /\ \A k \in 1 .. n : k >= o => from[k] = k
    /\ \A k \in 1 .. n : k < o => from[k] < o
    /\ \A j, k \in 1 .. n : j < k /\ InBlock(j, s, e) /\ InBlock(k, s, e) => from[j] < from[k]
    /\ \A j, k \in 1 .. n : j < k /\ IsRead(j, s, e, o) /\ IsRead(k, s, e, o) => from[j] < from[k]
    /\ \A k \in 1 .. n : IsRead(k, s, e, o) => from[k] \in Q

\* permute_args() moves the block of operands behind the words after it.
Exchanged(n, s, e, o) == [k \in 1 .. n |-> SourceOf(k, s, e, o)]

\* What Exchanged does to one index: it stays, or goes into the other block.
LEMMA ExchangedIs ==
    ASSUME NEW n \in Nat, NEW s \in Int, NEW e \in Int, NEW o \in Int,
           1 <= s, s < e, e < o, o <= n + 1, NEW k \in 1 .. n
    PROVE  /\ SourceOf(k, s, e, o) \in 1 .. n
           /\ k < s \/ k >= o => SourceOf(k, s, e, o) = k
           /\ s <= k /\ k < s + (o - e) => SourceOf(k, s, e, o) = k + (e - s)
           /\ s + (o - e) <= k /\ k < o => SourceOf(k, s, e, o) = k - (o - e)
<1>1. PICK x : x = SourceOf(k, s, e, o)
  OBVIOUS
<1>2. x = IF s <= k /\ k < o THEN OtherBlock(k, s, e, o) ELSE k
  BY <1>1, SourceIs
<1>3. /\ x \in 1 .. n
      /\ k < s \/ k >= o => x = k
      /\ s <= k /\ k < s + (o - e) => x = k + (e - s)
      /\ s + (o - e) <= k /\ k < o => x = k - (o - e)
  BY <1>2 DEF OtherBlock
<1>4. QED BY <1>1, <1>3, Zenon

LEMMA Exchange ==
    ASSUME NEW n \in Nat, NEW from, NEW words, NEW old, NEW Q,
           NEW s \in Int, NEW e \in Int, NEW o \in Int,
           1 <= s, s < e, e < o, o <= n + 1,
           Comes(n, from, words, old), Parts(n, from, Q, s, e, o)
    PROVE  \E to : /\ Comes(n, to, PermuteArgs(s, e, o, words), old)
                   /\ Parts(n, to, Q, s + (o - e), o, o)
<1>1. PICK x : x = Exchanged(n, s, e, o)
  OBVIOUS
<1>2. PICK m \in Nat, b \in Nat, t \in Int : m = e - s /\ b = o - e /\ t = s + (o - e)
  OBVIOUS
<1>3. /\ x \in [1 .. n -> 1 .. n]
      /\ \A k \in 1 .. n : k < s \/ k >= o => x[k] = k
      /\ \A k \in 1 .. n : s <= k /\ k < t => x[k] = k + m
      /\ \A k \in 1 .. n : t <= k /\ k < o => x[k] = k - b
  <2>1. ASSUME NEW k \in 1 .. n
        PROVE  /\ SourceOf(k, s, e, o) \in 1 .. n
               /\ k < s \/ k >= o => SourceOf(k, s, e, o) = k
               /\ s <= k /\ k < t => SourceOf(k, s, e, o) = k + m
               /\ t <= k /\ k < o => SourceOf(k, s, e, o) = k - b
    BY <1>2, ExchangedIs
  <2>2. x = [k \in 1 .. n |-> SourceOf(k, s, e, o)]
    BY <1>1 DEF Exchanged
  <2>3. \A k \in 1 .. n : x[k] = SourceOf(k, s, e, o)
    BY <2>2
  <2>4. x \in [1 .. n -> 1 .. n]
    BY <2>1, <2>2
  <2>5. QED BY <2>1, <2>3, <2>4
<1>4. t = s + b /\ t + m = o /\ s <= t /\ t <= o /\ m > 0 /\ b > 0
  BY <1>2
<1>5. PICK to : to = [k \in 1 .. n |-> from[x[k]]]
  OBVIOUS
<1>6. \A k \in 1 .. n : to[k] = from[x[k]]
  BY <1>5
<1>7. Comes(n, to, PermuteArgs(s, e, o, words), old)
  <2>1. to \in [1 .. n -> 1 .. n]
    BY <1>3, <1>5 DEF Comes
  <2>2. PICK moved : moved = PermuteArgs(s, e, o, words)
    OBVIOUS
  <2>3. DOMAIN moved = 1 .. n /\ \A k \in 1 .. n : moved[k] = words[x[k]]
    <3>1. moved = [k \in 1 .. n |-> words[SourceOf(k, s, e, o)]]
      BY <2>2 DEF PermuteArgs, Comes
    <3>2. \A k \in 1 .. n : x[k] = SourceOf(k, s, e, o)
      BY <1>1 DEF Exchanged
    <3>3. QED BY <3>1, <3>2
  <2>4. ASSUME NEW k \in 1 .. n PROVE moved[k] = old[to[k]]
    <3>1. PICK j \in 1 .. n : j = x[k]
      BY <1>3
    <3>2. moved[k] = words[j] /\ to[k] = from[j]
      BY <1>6, <2>3, <3>1
    <3>3. words[j] = old[from[j]]
      BY DEF Comes
    <3>4. QED BY <3>2, <3>3
  <2>5. ASSUME NEW i \in 1 .. n PROVE \E k \in 1 .. n : to[k] = i
    <3>1. PICK j \in 1 .. n : from[j] = i
      BY DEF Comes
    <3>2. \E k \in 1 .. n : x[k] = j
      <4>1. CASE j < s \/ j >= o
        BY <1>3, <4>1
      <4>2. CASE s <= j /\ j < e
        <5>1. PICK k \in Int : k = j + b
          OBVIOUS
        <5>2. k \in 1 .. n /\ t <= k /\ k < o
          BY <1>2, <4>2, <5>1
        <5>3. x[k] = j
          BY <1>3, <5>1, <5>2
        <5>4. QED BY <5>2, <5>3
      <4>3. CASE e <= j /\ j < o
        <5>1. PICK k \in Int : k = j - m
          OBVIOUS
        <5>2. k \in 1 .. n /\ s <= k /\ k < t
          BY <1>2, <4>3, <5>1
        <5>3. x[k] = j
          BY <1>3, <5>1, <5>2
        <5>4. QED BY <5>2, <5>3
      <4>4. QED BY <4>1, <4>2, <4>3
    <3>3. QED BY <1>6, <3>1, <3>2
  <2>6. QED BY <2>1, <2>2, <2>3, <2>4, <2>5 DEF Comes
<1>8. Parts(n, to, Q, t, o, o)
  <2>1. ASSUME NEW k \in 1 .. n PROVE k >= o => to[k] = k
    BY <1>3, <1>6 DEF Parts
  <2>2. ASSUME NEW k \in 1 .. n
        PROVE  /\ InBlock(k, t, o) => InBlock(x[k], s, e) /\ x[k] = k - b
               /\ IsRead(k, t, o, o) => /\ IsRead(x[k], s, e, o)
                                        /\ k < s => x[k] = k
                                        /\ k >= s => x[k] = k + m
               /\ k < o => x[k] < o
    <3>1. PICK c \in 1 .. n : c = x[k]
      BY <1>3
    <3>2. /\ k < s \/ k >= o => c = k
          /\ s <= k /\ k < t => c = k + m
          /\ t <= k /\ k < o => c = k - b
      BY <1>3, <3>1
    <3>3. /\ InBlock(k, t, o) => InBlock(c, s, e) /\ c = k - b
          /\ IsRead(k, t, o, o) => /\ IsRead(c, s, e, o)
                                   /\ k < s => c = k
                                   /\ k >= s => c = k + m
          /\ k < o => c < o
      <4>1. e = s + m /\ t = e + b - m /\ o = e + b
        BY <1>2
      <4>2. QED BY <1>4, <3>2, <4>1 DEF InBlock, IsRead
    <3>4. QED BY <3>1, <3>3, Zenon
  <2>3. ASSUME NEW k \in 1 .. n PROVE k < o => to[k] < o
    BY <1>3, <1>6, <2>2 DEF Parts
  <2>4. ASSUME NEW j \in 1 .. n, NEW k \in 1 .. n, j < k, InBlock(j, t, o), InBlock(k, t, o)
        PROVE  to[j] < to[k]
    <3>1. x[j] \in 1 .. n /\ x[k] \in 1 .. n /\ InBlock(x[j], s, e) /\ InBlock(x[k], s, e)
      BY <1>3, <2>2, <2>4
    <3>2. x[j] < x[k]
      BY <2>2, <2>4
    <3>3. QED BY <1>6, <3>1, <3>2 DEF Parts
  <2>5. ASSUME NEW j \in 1 .. n, NEW k \in 1 .. n, j < k,
               IsRead(j, t, o, o), IsRead(k, t, o, o)
        PROVE  to[j] < to[k]
    <3>1. x[j] \in 1 .. n /\ x[k] \in 1 .. n /\ IsRead(x[j], s, e, o) /\ IsRead(x[k], s, e, o)
      BY <1>3, <2>2, <2>5
    <3>2. x[j] < x[k]
      BY <2>2, <2>5, <1>4
    <3>3. QED BY <1>6, <3>1, <3>2 DEF Parts
  <2>6. ASSUME NEW k \in 1 .. n, IsRead(k, t, o, o) PROVE to[k] \in Q
    BY <1>3, <1>6, <2>2, <2>6 DEF Parts
  <2>7. QED BY <2>1, <2>3, <2>4, <2>5, <2>6, Zenon DEF Parts
<1>9. QED BY <1>2, <1>7, <1>8

\* A word that is passed as an operand joins the block, which ends there.
LEMMA JoinsBlock ==
    ASSUME NEW n \in Nat, NEW from, NEW Q, NEW s \in Int, NEW o \in Int,
           1 <= s, s <= o, o <= n,
           from \in [1 .. n -> 1 .. n], Parts(n, from, Q, s, o, o)
    PROVE  Parts(n, from, Q, s, o + 1, o + 1)
<1>1. PICK p \in Int : p = o + 1
  OBVIOUS
<1>2. ASSUME NEW k \in 1 .. n
      PROVE  /\ k >= p => from[k] = k
             /\ k < p => from[k] < p
             /\ IsRead(k, s, p, p) => from[k] \in Q
  BY <1>1 DEF Parts, InBlock, IsRead
<1>3. ASSUME NEW j \in 1 .. n, NEW k \in 1 .. n, j < k, InBlock(j, s, p), InBlock(k, s, p)
      PROVE  from[j] < from[k]
  BY <1>1, <1>3 DEF Parts, InBlock
<1>4. ASSUME NEW j \in 1 .. n, NEW k \in 1 .. n, j < k, IsRead(j, s, p, p), IsRead(k, s, p, p)
      PROVE  from[j] < from[k]
  BY <1>1, <1>4 DEF Parts, InBlock, IsRead
<1>5. Parts(n, from, Q, s, p, p)
  BY <1>2, <1>3, <1>4, Zenon DEF Parts
<1>6. QED BY <1>1, <1>5

\* A word in Q that is passed joins the others that were read.
LEMMA IsPassed ==
    ASSUME NEW n \in Nat, NEW from, NEW Q, NEW s \in Int, NEW e \in Int, NEW o \in Int,
           1 <= s, s <= e, e <= o, o <= n, o \in Q,
           from \in [1 .. n -> 1 .. n], Parts(n, from, Q, s, e, o)
    PROVE  Parts(n, from, Q, s, e, o + 1)
<1>1. PICK p \in Int : p = o + 1
  OBVIOUS
<1>2. ASSUME NEW k \in 1 .. n
      PROVE  /\ k >= p => from[k] = k
             /\ k < p => from[k] < p
             /\ IsRead(k, s, e, p) => from[k] \in Q
  BY <1>1 DEF Parts, InBlock, IsRead
<1>3. ASSUME NEW j \in 1 .. n, NEW k \in 1 .. n, j < k, InBlock(j, s, e), InBlock(k, s, e)
      PROVE  from[j] < from[k]
  BY <1>1, <1>3 DEF Parts, InBlock
<1>4. ASSUME NEW j \in 1 .. n, NEW k \in 1 .. n, j < k, IsRead(j, s, e, p), IsRead(k, s, e, p)
      PROVE  from[j] < from[k]
  BY <1>1, <1>4 DEF Parts, InBlock, IsRead
<1>5. Parts(n, from, Q, s, e, p)
  BY <1>2, <1>3, <1>4, Zenon DEF Parts
<1>6. QED BY <1>1, <1>5

\* It does not matter where an empty block is.
LEMMA EmptyBlock ==
    ASSUME NEW n \in Nat, NEW from, NEW Q, NEW s \in Int, NEW t \in Int, NEW o \in Int,
           Parts(n, from, Q, s, s, o)
    PROVE  Parts(n, from, Q, t, t, o)
<1>1. ASSUME NEW k \in 1 .. n
      PROVE  /\ ~InBlock(k, s, s) /\ ~InBlock(k, t, t)
             /\ IsRead(k, t, t, o) <=> IsRead(k, s, s, o)
  BY DEF InBlock, IsRead
<1>2. QED BY <1>1, Zenon DEF Parts

-----------------------------------------------------------------------------
(* OptionsFirst *)

BlockStart == IF nonopt_start = NoIndex THEN optind ELSE nonopt_start
BlockEnd   == IF nonopt_end = NoIndex THEN optind ELSE nonopt_end
Taken      == {k \in 1 .. Len(line) : OptionOrNext(k)}

\* While it reads, argv is in two parts that are in their old order, and what is not
\* read yet is where it was.
TwoParts ==
    status = "reading" =>
        \E from : /\ Comes(Len(argv), from, argv, line)
                  /\ Parts(Len(argv), from, Taken, BlockStart, BlockEnd, optind)
InWord ==
    place # EMSG /\ status = "reading" =>
        /\ IsOption(argv[optind])
        /\ nonopt_start # NoIndex => nonopt_end # NoIndex
NoBlockInPosix == status = "reading" /\ posixly_correct => nonopt_start = NoIndex

PartsInv == SafeInv /\ TwoParts /\ InWord /\ NoBlockInPosix /\ OptionsFirst

LEMMA InitParts == Init => PartsInv
<1> SUFFICES ASSUME Init PROVE PartsInv
  OBVIOUS
<1>1. SafeInv /\ status = "reading" /\ place = EMSG /\ nonopt_start = NoIndex
  BY InitSafe DEF Init
<1>2. PICK n \in Nat : n = Len(argv) /\ DOMAIN argv = 1 .. n
  BY <1>1, LenProperties DEF SafeInv, IsSequence
<1>3. PICK from : from = [k \in 1 .. n |-> k]
  OBVIOUS
<1>4. argv = line /\ optind = 1 /\ BlockStart = 1 /\ BlockEnd = 1
  BY DEF Init, BlockStart, BlockEnd, NoIndex
<1>5. Comes(n, from, argv, line)
  BY <1>2, <1>3, <1>4 DEF Comes
<1>6. Parts(n, from, Taken, 1, 1, 1)
  BY <1>3 DEF Parts, InBlock, IsRead
<1>7. TwoParts
  BY <1>2, <1>4, <1>5, <1>6 DEF TwoParts
<1>8. QED
  BY <1>1, <1>7 DEF PartsInv, InWord, NoBlockInPosix, OptionsFirst

\* The bounds of the block, and the words as Comes sees them.
LEMMA BlockIs ==
    ASSUME SafeInv
    PROVE  /\ Len(argv) \in Nat /\ DOMAIN argv = 1 .. Len(argv)
           /\ optind \in 1 .. Len(argv) + 1
           /\ BlockStart \in Int /\ BlockEnd \in Int
           /\ 1 <= BlockStart /\ BlockStart <= BlockEnd /\ BlockEnd <= optind
           /\ nonopt_start = NoIndex => BlockStart = optind /\ BlockEnd = optind
           /\ nonopt_start # NoIndex => BlockStart = nonopt_start /\ BlockStart < optind
           /\ nonopt_end = NoIndex => BlockEnd = optind
           /\ nonopt_end # NoIndex =>
                  /\ BlockEnd = nonopt_end /\ BlockStart < BlockEnd
                  /\ nonopt_start # NoIndex
                  /\ place = EMSG => BlockEnd < optind
<1>1. PICK n \in Nat : n = Len(argv) /\ DOMAIN argv = 1 .. n
  BY LenProperties DEF SafeInv, IsSequence
<1>2. optind \in 1 .. n + 1
  BY <1>1 DEF SafeInv, BlocksInOrder
<1>3. CASE nonopt_start = NoIndex
  <2>1. nonopt_end = NoIndex
    BY <1>3 DEF SafeInv, BlocksInOrder
  <2>2. QED BY <1>1, <1>2, <1>3, <2>1 DEF BlockStart, BlockEnd
<1>4. CASE nonopt_start # NoIndex /\ nonopt_end = NoIndex
  <2>1. nonopt_start \in 1 .. optind - 1
    BY <1>4 DEF SafeInv, BlocksInOrder
  <2>2. QED BY <1>1, <1>2, <1>4, <2>1 DEF BlockStart, BlockEnd
<1>5. CASE nonopt_start # NoIndex /\ nonopt_end # NoIndex
  <2>1. /\ nonopt_start \in 1 .. optind - 1
        /\ nonopt_end \in nonopt_start + 1 .. optind
        /\ place = EMSG => nonopt_end < optind
    BY <1>5, Zenon DEF SafeInv, BlocksInOrder
  <2>2. QED BY <1>1, <1>2, <1>5, <2>1 DEF BlockStart, BlockEnd
<1>6. QED BY <1>3, <1>4, <1>5

\* At the end the operands are behind the rest.
SortedBy(n, from, words, old, Q, t) ==
    /\ \A k \in 1 .. n : words[k] = old[from[k]]
    /\ \A j, k \in 1 .. n : j < k /\ (k < t \/ t <= j) => from[j] < from[k]
    /\ \A k \in 1 .. n : k < t => from[k] \in Q
    /\ \A i \in 1 .. n : \E k \in 1 .. n : from[k] = i

LEMMA PartsSorted ==
    ASSUME NEW n \in Nat, NEW from, NEW words, NEW old, NEW Q, NEW t \in Int, NEW o \in Int,
           t <= o, Comes(n, from, words, old), Parts(n, from, Q, t, o, o)
    PROVE  SortedBy(n, from, words, old, Q, t)
<1>1. from \in [1 .. n -> 1 .. n]
  BY DEF Comes
<1>2. ASSUME NEW j \in 1 .. n, NEW k \in 1 .. n, j < k, k < t \/ t <= j
      PROVE  from[j] < from[k]
  <2>1. CASE k < t
    BY <1>2, <2>1 DEF Parts, IsRead, InBlock
  <2>2. CASE t <= j /\ k < o
    BY <1>2, <2>2 DEF Parts, InBlock
  <2>3. CASE t <= j /\ k >= o
    <3>1. from[k] = k
      BY <2>3 DEF Parts
    <3>2. from[j] < o \/ from[j] = j
      BY DEF Parts
    <3>3. QED BY <1>1, <1>2, <2>3, <3>1, <3>2
  <2>4. QED BY <1>2, <2>1, <2>2, <2>3
<1>3. ASSUME NEW k \in 1 .. n, k < t PROVE from[k] \in Q
  BY <1>3 DEF Parts, IsRead, InBlock
<1>4. QED BY <1>2, <1>3, Zenon DEF SortedBy, Comes

\* So OptionsFirst holds of the state in which reading ends.
LEMMA EndSorted ==
    ASSUME NEW n \in Nat, NEW to, NEW t \in Int, NEW o \in Int, t <= o,
           SafeInv', status' = "end", line' = line, optind' = t,
           Comes(n, to, argv', line), Parts(n, to, Taken, t, o, o)
    PROVE  PartsInv'
<1>1. SortedBy(n, to, argv', line, Taken, t)
  BY PartsSorted
<1>2. to \in [1 .. n -> 1 .. n] /\ DOMAIN argv' = 1 .. n /\ DOMAIN line = 1 .. n
  BY DEF Comes
<1>3. Sorted(to)'
  <2>1. \A k \in DOMAIN to : argv'[k] = line'[to[k]]
    BY <1>1, <1>2 DEF SortedBy
  <2>2. \A j, k \in DOMAIN to : j < k /\ (k < optind' \/ optind' <= j) => to[j] < to[k]
    BY <1>1, <1>2 DEF SortedBy
  <2>3. ASSUME NEW k \in DOMAIN to, k < optind' PROVE OptionOrNext(to[k])'
    <3>1. to[k] \in Taken
      BY <1>1, <1>2, <2>3 DEF SortedBy
    <3>2. OptionOrNext(to[k])
      BY <3>1, Zenon DEF Taken
    <3>3. QED BY <3>2, Zenon DEF OptionOrNext
  <2>4. \A i \in DOMAIN line' : \E k \in DOMAIN to : to[k] = i
    BY <1>1, <1>2 DEF SortedBy
  <2>5. QED BY <2>1, <2>2, <2>3, <2>4, Zenon DEF Sorted
<1>4. OptionsFirst'
  BY <1>2, <1>3, Zenon DEF OptionsFirst
<1>5. status' # "reading"
  OBVIOUS
<1>6. QED BY <1>4, <1>5, Zenon DEF PartsInv, TwoParts, InWord, NoBlockInPosix

\* Every way to end by EndBehind gets there.
LEMMA EndBehindSorts ==
    ASSUME NEW n \in Nat, NEW from, NEW s \in Int, NEW e \in Int, NEW o \in Int, NEW end,
           EndBehind(o, end), SafeInv', 1 <= s, s <= e, e <= o, o <= n + 1,
           end = NoIndex => e = o /\ s = IF nonopt_start # NoIndex THEN nonopt_start ELSE o,
           end # NoIndex => s = nonopt_start /\ e = end /\ s < e /\ e < o,
           Comes(n, from, argv, line), Parts(n, from, Taken, s, e, o)
    PROVE  PartsInv'
<1>1. status' = "end" /\ line' = line
  BY DEF EndBehind
<1>2. CASE end = NoIndex
  <2>1. argv' = argv /\ optind' = s
    BY <1>2 DEF EndBehind
  <2>2. Parts(n, from, Taken, s, o, o) /\ Comes(n, from, argv', line)
    BY <1>2, <2>1
  <2>3. s <= o
    OBVIOUS
  <2>4. QED BY <1>1, <2>1, <2>2, <2>3, EndSorted
<1>3. CASE end # NoIndex
  <2>1. argv' = PermuteArgs(s, e, o, argv) /\ optind' = o - (e - s)
    BY <1>3 DEF EndBehind
  <2>2. s < e /\ e < o
    BY <1>3
  <2>3. PICK to : /\ Comes(n, to, PermuteArgs(s, e, o, argv), line)
                  /\ Parts(n, to, Taken, s + (o - e), o, o)
    BY <2>2, Exchange
  <2>4. PICK t \in Int : t = s + (o - e)
    OBVIOUS
  <2>5. optind' = t /\ t <= o
    BY <2>1, <2>2, <2>4
  <2>6. Comes(n, to, argv', line) /\ Parts(n, to, Taken, t, o, o)
    BY <2>1, <2>3, <2>4
  <2>7. QED BY <1>1, <2>5, <2>6, EndSorted
<1>4. QED BY <1>2, <1>3

LEMMA EndOfVectorSorts == PartsInv /\ EndOfVector /\ SafeInv' => PartsInv'
<1> SUFFICES ASSUME PartsInv, EndOfVector, SafeInv' PROVE PartsInv'
  OBVIOUS
<1>1. SafeInv /\ status = "reading" /\ place = EMSG /\ EndBehind(optind, nonopt_end)
  BY DEF PartsInv, EndOfVector
<1>2. PICK n \in Nat, s \in Int, e \in Int, o \in Int :
          n = Len(argv) /\ s = BlockStart /\ e = BlockEnd /\ o = optind
  <2>1. Len(argv) \in Nat /\ BlockStart \in Int /\ BlockEnd \in Int /\ optind \in Int
    BY <1>1, BlockIs
  <2>2. QED BY <2>1, Zenon
<1>3. PICK from : Comes(n, from, argv, line) /\ Parts(n, from, Taken, s, e, o)
  BY <1>1, <1>2 DEF PartsInv, TwoParts
<1>4. /\ 1 <= s /\ s <= e /\ e <= o /\ o <= n + 1
      /\ nonopt_end = NoIndex =>
             e = o /\ s = IF nonopt_start # NoIndex THEN nonopt_start ELSE o
      /\ nonopt_end # NoIndex => s = nonopt_start /\ e = nonopt_end /\ s < e /\ e < o
  BY <1>1, <1>2, BlockIs
<1>5. EndBehind(o, nonopt_end)
  BY <1>1, <1>2
<1>6. QED BY <1>3, <1>4, <1>5, EndBehindSorts

\* A word that looks like an option is one of those Taken, and so is the next.
LEMMA InTaken ==
    ASSUME NEW n \in Nat, NEW from, NEW s, NEW e, NEW o \in 1 .. n,
           Comes(n, from, argv, line), Parts(n, from, Taken, s, e, o), IsOption(argv[o])
    PROVE  o \in Taken /\ (o + 1 <= n => o + 1 \in Taken)
<1>1. argv[o] = line[o]
  <2>1. from[o] = o
    BY DEF Parts
  <2>2. QED BY <2>1 DEF Comes
<1>2. IsOption(line[o])
  BY <1>1
<1>3. Len(line) = n
  BY LenProperties DEF Comes
<1>4. OptionOrNext(o) /\ OptionOrNext(o + 1)
  <2>1. (o + 1) - 1 = o /\ o + 1 > 1
    OBVIOUS
  <2>2. QED BY <1>2, <2>1 DEF OptionOrNext
<1>5. QED BY <1>3, <1>4 DEF Taken

\* What the steps that look at a word start from.
Stands(n, s, e, o, from) ==
    /\ n \in Nat /\ s \in Int /\ e \in Int /\ o \in Int
    /\ n = Len(argv) /\ s = BlockStart /\ e = BlockEnd /\ o = optind
    /\ 1 <= s /\ s <= e /\ e <= o /\ o <= n
    /\ Comes(n, from, argv, line) /\ Parts(n, from, Taken, s, e, o)

LEMMA AtAWord ==
    ASSUME PartsInv, status = "reading", optind <= Len(argv)
    PROVE  \E n, s, e, o, from : Stands(n, s, e, o, from)
<1>1. SafeInv /\ status = "reading" /\ optind <= Len(argv)
  BY DEF PartsInv
<1>2. PICK n \in Nat, s \in Int, e \in Int, o \in Int :
          n = Len(argv) /\ s = BlockStart /\ e = BlockEnd /\ o = optind
  <2>1. Len(argv) \in Nat /\ BlockStart \in Int /\ BlockEnd \in Int /\ optind \in Int
    BY <1>1, BlockIs
  <2>2. QED BY <2>1, Zenon
<1>3. PICK from : Comes(n, from, argv, line) /\ Parts(n, from, Taken, s, e, o)
  BY <1>1, <1>2 DEF PartsInv, TwoParts
<1>4. 1 <= s /\ s <= e /\ e <= o /\ o <= n
  BY <1>1, <1>2, BlockIs
<1>5. Stands(n, s, e, o, from)
  BY <1>2, <1>3, <1>4, Zenon DEF Stands
<1>6. QED BY <1>5, Zenon

LEMMA DashDashSorts == PartsInv /\ DashDash /\ SafeInv' => PartsInv'
<1> SUFFICES ASSUME PartsInv, DashDash, SafeInv' PROVE PartsInv'
  OBVIOUS
<1>1. /\ SafeInv /\ AtWord /\ place = EMSG /\ argv[optind] = DoubleDash
      /\ EndBehind(optind + 1, EndOfBlock(optind))
  BY DEF PartsInv, DashDash, AtWord
<1>0. PICK n, s, e, o, from : Stands(n, s, e, o, from)
  BY <1>1, AtAWord DEF AtWord
<1>2. /\ n \in Nat /\ s \in Int /\ e \in Int /\ o \in Int
      /\ n = Len(argv) /\ s = BlockStart /\ e = BlockEnd /\ o = optind
      /\ 1 <= s /\ s <= e /\ e <= o /\ o <= n
      /\ Comes(n, from, argv, line) /\ Parts(n, from, Taken, s, e, o)
  BY <1>0, Zenon DEF Stands
<1>t. n \in Nat /\ s \in Int /\ e \in Int /\ o \in Int
  BY <1>2
<1>p. PICK p \in Int : p = o + 1
  BY <1>t
<1>e. PICK end : end = EndOfBlock(optind)
  OBVIOUS
<1>3. p = o + 1 /\ end = EndOfBlock(optind)
  BY <1>p, <1>e
<1>4. EndBehind(p, end)
  BY <1>1, <1>2, <1>3
<1>5. o \in Taken
  <2>1. IsOption(DoubleDash)
    <3>1. Behind(DoubleDash).name = "" /\ EMSG.name = "no name" /\ DoubleDash.dash
      BY DEF DoubleDash, Behind, EMSG, String, NoName
    <3>2. QED BY <3>1 DEF IsOption
  <2>2. IsOption(argv[o])
    BY <1>1, <1>2, <2>1
  <2>3. QED BY <1>2, <2>2, InTaken
<1>6. Parts(n, from, Taken, s, e, p)
  BY <1>2, <1>3, <1>5, IsPassed DEF Comes
<1>7. CASE nonopt_start = NoIndex
  <2>1. s = e
    BY <1>1, <1>2, <1>7, BlockIs
  <2>2. Parts(n, from, Taken, p, p, p)
    BY <1>t, <1>p, <1>6, <2>1, EmptyBlock
  <2>3. end = NoIndex
    BY <1>1, <1>3, <1>7 DEF EndOfBlock, SafeInv, BlocksInOrder
  <2>4. p \in Int /\ 1 <= p /\ p <= n + 1
    BY <1>2, <1>3
  <2>5. QED BY <1>2, <1>4, <1>7, <2>2, <2>3, <2>4, EndBehindSorts
<1>8. CASE nonopt_start # NoIndex
  <2>1. end = e /\ end # NoIndex
    BY <1>1, <1>2, <1>3, <1>8, BlockIs DEF EndOfBlock, NoIndex
  <2>2. s = nonopt_start /\ s < e /\ e < p /\ p <= n + 1
    <3>1. s = nonopt_start
      BY <1>1, <1>2, <1>8, BlockIs
    <3>2. s < e
      BY <1>1, <1>2, <1>8, BlockIs
    <3>3. QED BY <1>2, <1>3, <3>1, <3>2
  <2>3. QED BY <1>2, <1>4, <1>6, <2>1, <2>2, EndBehindSorts
<1>9. QED BY <1>7, <1>8

LEMMA StopSorts == PartsInv /\ StopAtNonOption /\ SafeInv' => PartsInv'
<1> SUFFICES ASSUME PartsInv, StopAtNonOption, SafeInv' PROVE PartsInv'
  OBVIOUS
<1>1. /\ SafeInv /\ AtWord /\ posixly_correct /\ status = "reading"
      /\ status' = "end" /\ argv' = argv /\ optind' = optind /\ line' = line
  BY DEF PartsInv, StopAtNonOption, AtWord
<1>0. PICK n, s, e, o, from : Stands(n, s, e, o, from)
  BY <1>1, AtAWord DEF AtWord
<1>2. /\ n \in Nat /\ s \in Int /\ e \in Int /\ o \in Int
      /\ n = Len(argv) /\ s = BlockStart /\ e = BlockEnd /\ o = optind
      /\ 1 <= s /\ s <= e /\ e <= o /\ o <= n
      /\ Comes(n, from, argv, line) /\ Parts(n, from, Taken, s, e, o)
  BY <1>0, Zenon DEF Stands
<1>t. n \in Nat /\ s \in Int /\ e \in Int /\ o \in Int
  BY <1>2
<1>3. nonopt_start = NoIndex
  BY <1>1 DEF PartsInv, NoBlockInPosix
<1>4. s = o /\ e = o
  BY <1>1, <1>2, <1>3, BlockIs
<1>5. optind' = o /\ o <= o /\ Comes(n, from, argv', line) /\ Parts(n, from, Taken, o, o, o)
  BY <1>1, <1>2, <1>4
<1>6. QED BY <1>1, <1>t, <1>5, EndSorted

\* What a step that reads on has to keep.
LEMMA ReadsOnInParts ==
    ASSUME NEW n \in Nat, NEW to, NEW s, NEW e, NEW o,
           SafeInv', status' = "reading", line' = line,
           BlockStart' = s, BlockEnd' = e, optind' = o,
           Comes(n, to, argv', line), Parts(n, to, Taken, s, e, o),
           InWord', NoBlockInPosix'
    PROVE  PartsInv'
<1>1. Taken' = Taken
  BY Zenon DEF Taken, OptionOrNext
<1>2. Len(argv') = n
  BY LenProperties DEF Comes, SafeInv, IsSequence
<1>3. TwoParts'
  <2>1. Comes(Len(argv'), to, argv', line')
    BY <1>2
  <2>2. Parts(Len(argv'), to, Taken', BlockStart', BlockEnd', optind')
    BY <1>1, <1>2
  <2>3. QED BY <2>1, <2>2, Zenon DEF TwoParts
<1>4. OptionsFirst'
  BY DEF OptionsFirst
<1>5. QED BY <1>3, <1>4, Zenon DEF PartsInv

LEMMA SkipKeepsParts == PartsInv /\ SkipNonOption /\ SafeInv' => PartsInv'
<1> SUFFICES ASSUME PartsInv, SkipNonOption, SafeInv' PROVE PartsInv'
  OBVIOUS
<1>1. /\ SafeInv /\ AtWord /\ ~posixly_correct /\ place = EMSG
      /\ status' = "reading" /\ optind' = optind + 1 /\ line' = line
      /\ posixly_correct' = posixly_correct /\ place' = place
  BY DEF PartsInv, SkipNonOption, AtWord
<1>0. PICK n, s, e, o, from : Stands(n, s, e, o, from)
  BY <1>1, AtAWord DEF AtWord
<1>2. /\ n \in Nat /\ s \in Int /\ e \in Int /\ o \in Int
      /\ n = Len(argv) /\ s = BlockStart /\ e = BlockEnd /\ o = optind
      /\ 1 <= s /\ s <= e /\ e <= o /\ o <= n
      /\ Comes(n, from, argv, line) /\ Parts(n, from, Taken, s, e, o)
  BY <1>0, Zenon DEF Stands
<1>t. n \in Nat /\ s \in Int /\ e \in Int /\ o \in Int
  BY <1>2
<1>3. InWord' /\ NoBlockInPosix'
  BY <1>1 DEF InWord, NoBlockInPosix
<1>4. ASSUME NEW to, NEW t \in Int, 1 <= t, t <= o, nonopt_start' = t, nonopt_end' = NoIndex,
             Comes(n, to, argv', line), Parts(n, to, Taken, t, o, o)
      PROVE  PartsInv'
  <2>1. PICK p \in Int : p = o + 1
    BY <1>t
  <2>2. Parts(n, to, Taken, t, p, p)
    <3>1. o <= n /\ to \in [1 .. n -> 1 .. n]
      BY <1>2, <1>4 DEF Comes
    <3>2. Parts(n, to, Taken, t, o + 1, o + 1)
      BY <1>t, <1>4, <3>1, JoinsBlock
    <3>3. QED BY <2>1, <3>2
  <2>3. optind' = p
    BY <1>1, <1>2, <2>1
  <2>4. BlockStart' = t /\ BlockEnd' = p
    BY <1>4, <2>3 DEF BlockStart, BlockEnd, NoIndex
  <2>5. QED BY <1>t, <1>1, <1>3, <1>4, <2>2, <2>3, <2>4, ReadsOnInParts
<1>5. CASE nonopt_start = NoIndex
  <2>1. s = o /\ e = o
    BY <1>1, <1>2, <1>5, BlockIs
  <2>2. nonopt_start' = o /\ nonopt_end' = NoIndex /\ argv' = argv
    BY <1>1, <1>2, <1>5 DEF SkipNonOption, SafeInv, BlocksInOrder
  <2>3. 1 <= o /\ Comes(n, from, argv', line) /\ Parts(n, from, Taken, o, o, o)
    BY <1>2, <2>1, <2>2
  <2>4. QED BY <1>t, <1>4, <2>2, <2>3
<1>6. CASE nonopt_start # NoIndex /\ nonopt_end = NoIndex
  <2>1. s = nonopt_start /\ e = o
    BY <1>1, <1>2, <1>6, BlockIs
  <2>2. nonopt_start' = s /\ nonopt_end' = NoIndex /\ argv' = argv
    BY <1>6, <2>1 DEF SkipNonOption, blockVars
  <2>3. 1 <= s /\ s <= o /\ Comes(n, from, argv', line) /\ Parts(n, from, Taken, s, o, o)
    BY <1>2, <2>1, <2>2
  <2>4. QED BY <1>t, <1>4, <2>2, <2>3
<1>7. CASE nonopt_start # NoIndex /\ nonopt_end # NoIndex
  <2>1. s = nonopt_start /\ e = nonopt_end
    BY <1>1, <1>2, <1>7, BlockIs
  <2>2. s < e /\ e < o
    BY <1>1, <1>2, <1>7, BlockIs
  <2>3. nonopt_start' = o - (e - s) /\ nonopt_end' = NoIndex
            /\ argv' = PermuteArgs(s, e, o, argv)
    BY <1>2, <1>7, <2>1 DEF SkipNonOption
  <2>4. PICK to : /\ Comes(n, to, PermuteArgs(s, e, o, argv), line)
                  /\ Parts(n, to, Taken, s + (o - e), o, o)
    <3>1. 1 <= s /\ o <= n + 1 /\ Comes(n, from, argv, line) /\ Parts(n, from, Taken, s, e, o)
      BY <1>2
    <3>2. QED BY <1>t, <2>2, <3>1, Exchange
  <2>5. PICK t \in Int : t = s + (o - e)
    BY <1>t
  <2>6. 1 <= t /\ t <= o /\ nonopt_start' = t
    BY <1>2, <2>2, <2>3, <2>5
  <2>7. Comes(n, to, argv', line) /\ Parts(n, to, Taken, t, o, o)
    BY <2>3, <2>4, <2>5
  <2>8. QED BY <1>4, <2>3, <2>6, <2>7
<1>8. QED BY <1>5, <1>6, <1>7

\* An option and the word it took join the words that were read.
LEMMA ReturnKeepsParts ==
    ASSUME PartsInv, status = "reading", optind <= Len(argv), IsOption(argv[optind]),
           NEW p, Return(p), SafeInv'
    PROVE  PartsInv'
<1> DEFINE after == SubSeq(argv, optind + 1, Len(argv))
           r     == ReadOption(p, after)
<1>1. /\ SafeInv /\ line' = line /\ argv' = argv /\ nonopt_start' = nonopt_start
      /\ posixly_correct' = posixly_correct /\ nonopt_end' = EndOfBlock(optind)
      /\ place' = r.place
      /\ optind' = IF r.place = EMSG THEN optind + 1 + r.takes ELSE optind
  BY Zenon DEF PartsInv, Return
<1>0. PICK n, s, e, o, from : Stands(n, s, e, o, from)
  BY AtAWord
<1>2. /\ n \in Nat /\ s \in Int /\ e \in Int /\ o \in Int
      /\ n = Len(argv) /\ s = BlockStart /\ e = BlockEnd /\ o = optind
      /\ 1 <= s /\ s <= e /\ e <= o /\ o <= n
      /\ Comes(n, from, argv, line) /\ Parts(n, from, Taken, s, e, o)
  BY <1>0, Zenon DEF Stands
<1>t. n \in Nat /\ s \in Int /\ e \in Int /\ o \in Int
  BY <1>2
<1>3. o \in Taken /\ (o + 1 <= n => o + 1 \in Taken)
  <2>1. IsOption(argv[o])
    BY <1>2
  <2>2. o \in 1 .. n
    BY <1>2
  <2>3. QED BY <1>2, <1>t, <2>1, <2>2, InTaken
<1>4. r.takes = 0 \/ (r.takes = 1 /\ o + 1 <= n)
  <2>1. after # <<>> => o + 1 <= n
    BY <1>2, SubSeqEmpty
  <2>2. QED
    BY <2>1, TakesAWord, Zenon
<1> HIDE DEF r, after
<1>5. PICK q \in Int :
          /\ optind' = q
          /\ q = o \/ q = o + 1 \/ (q = o + 2 /\ o + 1 <= n)
          /\ place' # EMSG => q = o
  BY <1>1, <1>2, <1>4
<1>a. q = o \/ q = o + 1 \/ (q = o + 2 /\ o + 1 <= n)
  BY <1>5, Zenon
<1>b. /\ optind' = q /\ argv' = argv /\ nonopt_start' = nonopt_start
      /\ Comes(n, from, argv', line)
  BY <1>1, <1>2, <1>5, Zenon
<1>6. Parts(n, from, Taken, s, e, q)
  <2>1. /\ from \in [1 .. n -> 1 .. n] /\ 1 <= s /\ s <= e /\ e <= o /\ o <= n
        /\ Parts(n, from, Taken, s, e, o)
    BY <1>2 DEF Comes
  <2>2. PICK o1 \in Int : o1 = o + 1
    BY <1>t
  <2>3. Parts(n, from, Taken, s, e, o1)
    BY <1>t, <1>3, <2>1, <2>2, IsPassed
  <2>4. o1 <= n => Parts(n, from, Taken, s, e, o1 + 1)
    <3>1. e <= o1 /\ (o1 <= n => o1 \in Taken)
      BY <1>t, <1>3, <2>1, <2>2
    <3>2. QED BY <1>t, <2>1, <2>3, <3>1, IsPassed
  <2>5. q = o \/ q = o1 \/ (q = o1 + 1 /\ o1 <= n)
    BY <1>t, <1>a, <2>2
  <2>6. QED BY <2>1, <2>3, <2>4, <2>5
<1>7. NoBlockInPosix' /\ (status' = "reading" \/ status' = "usage")
  <2>1. status' = IF EndsProgram(r.opt) THEN "usage" ELSE status
    BY Zenon DEF Return, r, after
  <2>2. status' = "reading" \/ status' = "usage"
    BY <2>1
  <2>3. NoBlockInPosix'
    BY <1>1, Zenon DEF PartsInv, NoBlockInPosix
  <2>4. QED BY <2>2, <2>3
<1>8. IsOption(argv'[o]) /\ (place' # EMSG => optind' = o)
  BY <1>1, <1>2, <1>5
<1>9. CASE status' = "usage"
  BY <1>7, <1>9 DEF PartsInv, TwoParts, InWord, NoBlockInPosix, OptionsFirst
<1>10. CASE nonopt_start = NoIndex /\ status' = "reading"
  <2>1. nonopt_end' = NoIndex
    BY <1>1, <1>10 DEF EndOfBlock, SafeInv, BlocksInOrder
  <2>2. BlockStart' = q /\ BlockEnd' = q
    BY <1>b, <1>10, <2>1 DEF BlockStart, BlockEnd
  <2>3. s = e
    BY <1>1, <1>2, <1>10, BlockIs
  <2>4. Parts(n, from, Taken, q, q, q)
    BY <1>t, <1>6, <2>3, EmptyBlock
  <2>5. InWord'
    BY <1>1, <1>8, <1>10 DEF InWord
  <2>6. optind' = q /\ Comes(n, from, argv', line)
    BY <1>b
  <2>7. QED BY <1>t, <1>1, <1>7, <1>10, <2>2, <2>4, <2>5, <2>6, ReadsOnInParts
<1>11. CASE nonopt_start # NoIndex /\ status' = "reading"
  <2>1. nonopt_end' = e /\ e # NoIndex
    <3>1. place # EMSG => nonopt_end # NoIndex
      BY <1>11 DEF PartsInv, InWord
    <3>2. CASE nonopt_end = NoIndex
      <4>1. e = o /\ nonopt_end' = optind
        BY <1>1, <1>2, <1>11, <3>1, <3>2, BlockIs DEF EndOfBlock
      <4>2. QED BY <1>2, <4>1 DEF NoIndex
    <3>3. CASE nonopt_end # NoIndex
      BY <1>1, <1>2, <3>3, BlockIs DEF EndOfBlock
    <3>4. QED BY <3>2, <3>3
  <2>2. BlockStart' = s /\ BlockEnd' = e
    <3>1. nonopt_start = s
      BY <1>1, <1>2, <1>11, BlockIs
    <3>2. QED BY <1>b, <1>11, <2>1, <3>1 DEF BlockStart, BlockEnd
  <2>3. InWord'
    BY <1>1, <1>8, <2>1 DEF InWord
  <2>4. optind' = q /\ Comes(n, from, argv', line)
    BY <1>b
  <2>5. QED BY <1>t, <1>1, <1>6, <1>7, <1>11, <2>2, <2>3, <2>4, ReadsOnInParts
<1>12. QED BY <1>7, <1>9, <1>10, <1>11

LEMMA NextParts == PartsInv /\ [Next]_vars => PartsInv'
<1> SUFFICES ASSUME PartsInv, [Next]_vars PROVE PartsInv'
  OBVIOUS
<1>1. SafeInv'
  BY NextSafe DEF PartsInv
<1>2. CASE EndOfVector
  BY <1>1, <1>2, EndOfVectorSorts
<1>3. CASE DashDash
  BY <1>1, <1>3, DashDashSorts
<1>4. CASE StopAtNonOption
  BY <1>1, <1>4, StopSorts
<1>5. CASE SkipNonOption
  BY <1>1, <1>5, SkipKeepsParts
<1>6. CASE ReadWord
  BY <1>1, <1>6, ReturnKeepsParts DEF ReadWord, AtWord
<1>7. CASE ReadOn
  <2>1. status = "reading" /\ place # EMSG /\ Return(place)
    BY <1>7 DEF ReadOn
  <2>2. optind <= Len(argv) /\ IsOption(argv[optind])
    BY <2>1 DEF PartsInv, SafeInv, BlocksInOrder, InWord
  <2>3. QED BY <1>1, <2>1, <2>2, ReturnKeepsParts
<1>8. CASE UNCHANGED vars
  <2>1. /\ argv' = argv /\ line' = line /\ status' = status /\ optind' = optind
        /\ place' = place /\ posixly_correct' = posixly_correct
        /\ nonopt_start' = nonopt_start /\ nonopt_end' = nonopt_end
    BY <1>8 DEF vars, blockVars
  <2>2. TwoParts'
    BY <2>1, Zenon DEF PartsInv, TwoParts, BlockStart, BlockEnd, Taken, OptionOrNext
  <2>3. InWord' /\ NoBlockInPosix'
    BY <2>1, Zenon DEF PartsInv, InWord, NoBlockInPosix
  <2>4. OptionsFirst'
    BY <2>1 DEF PartsInv, OptionsFirst, Sorted, OptionOrNext
  <2>5. QED BY <1>1, <2>2, <2>3, <2>4 DEF PartsInv
<1>9. QED
  BY <1>2, <1>3, <1>4, <1>5, <1>6, <1>7, <1>8 DEF Next

\* When the options are over argv holds the words it held, each once, in two parts in
\* their old order: options and words behind an option, then the others
\* (getopt.c:122-126, 148-178, 355-404).
THEOREM AlwaysOptionsFirst == SafeSpec => []OptionsFirst
<1>1. PartsInv => OptionsFirst
  BY DEF PartsInv
<1>2. QED
  BY <1>1, InitParts, NextParts, PTL DEF SafeSpec

-----------------------------------------------------------------------------
(* ReadsAsWritten *)

\* An option says the same to CommandLine.
LEMMA SameWords ==
    /\ Line!EMSG = EMSG /\ Line!DoubleDash = DoubleDash
    /\ \A w : (Line!IsOption(w) <=> IsOption(w)) /\ Line!Behind(w) = Behind(w)
    /\ \A opt : Line!EndsProgram(opt) <=> EndsProgram(opt)
<1>1. Line!EMSG = EMSG /\ Line!DoubleDash = DoubleDash
  BY DEF Line!EMSG, EMSG, Line!DoubleDash, DoubleDash, Line!String, String,
         Line!NoName, NoName, Line!NoValue, NoValue
<1>2. \A w : (Line!IsOption(w) <=> IsOption(w)) /\ Line!Behind(w) = Behind(w)
  BY <1>1, Zenon DEF Line!IsOption, IsOption, Line!Behind, Behind
<1>3. \A opt : Line!EndsProgram(opt) <=> EndsProgram(opt)
  BY Zenon DEF Line!EndsProgram, EndsProgram
<1>4. QED BY <1>1, <1>2, <1>3

\* Nor does what one option makes of the words behind it differ.
LEMMA SameReads == \A p, after : Line!ReadOption(p, after) = ReadOption(p, after)
<1>1. Line!EMSG = EMSG
  BY SameWords
<1>2. \A opt, arg, takes, left : Line!Read(opt, arg, takes, left) = Read(opt, arg, takes, left)
  BY Zenon DEF Line!Read, Read
<1>3. \A l : Line!BADCH(l) = BADCH(l) /\ Line!BADARG = BADARG
  BY <1>1, <1>2, Zenon DEF Line!BADCH, BADCH, Line!BADARG, BADARG
<1>4. \A opt, after : Line!FromNextWord(opt, after) = FromNextWord(opt, after)
  BY <1>1, <1>2, <1>3, Zenon DEF Line!FromNextWord, FromNextWord
<1>5. \A S : Line!First(S) = First(S)
  BY Zenon DEF Line!First, First
<1>6. \A name : Line!Matches(name) = Matches(name)
  BY Zenon DEF Line!Matches, Matches, Line!Indices, Indices
<1>7. \A j, k : Line!IdenticalInterpretation(j, k) <=> IdenticalInterpretation(j, k)
  BY Zenon DEF Line!IdenticalInterpretation, IdenticalInterpretation
<1>8. \A name : Line!Match(name) = Match(name)
  BY <1>5, <1>6, <1>7 DEF Line!Match, Match
<1>9. \A value : Line!Plain(value) = Plain(value) /\ Line!NoValue = NoValue /\ Line!NULL = NULL
  BY Zenon DEF Line!Plain, Plain, Line!String, String, Line!NoName, NoName,
               Line!NoValue, NoValue, Line!NULL, NULL
<1>10. \A p, after : Line!ReadLong(p, after) = ReadLong(p, after)
  BY <1>1, <1>2, <1>3, <1>4, <1>8, <1>9 DEF Line!ReadLong, ReadLong
<1>11. \A c : Line!Entries(c) = Entries(c)
  BY Zenon DEF Line!Entries, Entries
<1>12. \A p, after : Line!ReadShort(p, after) = ReadShort(p, after)
  BY <1>1, <1>2, <1>3, <1>4, <1>5, <1>11 DEF Line!ReadShort, ReadShort
<1>13. QED BY <1>10, <1>12, Zenon DEF Line!ReadOption, ReadOption

\* The first word of what is left, and the rest.
LEMMA RestIs ==
    ASSUME NEW S, NEW w \in Seq(S), NEW k \in 1 .. Len(w)
    PROVE  /\ SubSeq(w, k, Len(w)) # <<>>
           /\ Head(SubSeq(w, k, Len(w))) = w[k]
           /\ Tail(SubSeq(w, k, Len(w))) = SubSeq(w, k + 1, Len(w))
           /\ SubSeq(w, k, Len(w)) \in Seq(S)
<1>1. Len(w) \in Nat /\ \A i \in 1 .. Len(w) : w[i] \in S
  BY LenProperties, ElementOfSeq
<1>2. /\ SubSeq(w, k, Len(w)) \in Seq(S)
      /\ Len(SubSeq(w, k, Len(w))) = IF k <= Len(w) THEN Len(w) - k + 1 ELSE 0
  BY <1>1, SubSeqProperties
<1>3. SubSeq(w, k, Len(w)) # <<>>
  <2>1. PICK x : x = SubSeq(w, k, Len(w))
    OBVIOUS
  <2>2. Len(x) = Len(w) - k + 1
    BY <1>1, <1>2, <2>1
  <2>3. Len(x) # 0
    BY <1>1, <2>2
  <2>4. Len(<<>>) = 0
    OBVIOUS
  <2>5. QED BY <2>1, <2>3, <2>4
<1>4. Len(w) \in k .. Len(w)
  BY <1>1
<1>5. QED BY <1>2, <1>3, <1>4, HeadTailOfSubSeq

PartIs(x, S, t, a, b) ==
    /\ x \in Seq(S)
    /\ Len(x) = IF a <= b THEN b - a + 1 ELSE 0
    /\ \A i \in 1 .. b - a + 1 : x[i] = t[a + i - 1]

\* The elements of a part of a sequence, and that they make it.
LEMMA IsPart ==
    ASSUME NEW S, NEW t, NEW a \in Int, NEW b \in Int, \A i \in a .. b : t[i] \in S
    PROVE  PartIs(SubSeq(t, a, b), S, t, a, b)
<1>1. /\ SubSeq(t, a, b) \in Seq(S)
      /\ Len(SubSeq(t, a, b)) = IF a <= b THEN b - a + 1 ELSE 0
      /\ \A i \in 1 .. b - a + 1 : SubSeq(t, a, b)[i] = t[a + i - 1]
  BY SubSeqProperties
<1>2. QED BY <1>1, Zenon DEF PartIs

Alike(S, t, w, a, b, c, d) ==
    /\ b - a <= d - c /\ b - a >= d - c
    /\ \A i \in a .. b : t[i] \in S
    /\ \A i \in c .. d : w[i] \in S
    /\ \A i \in a .. b : t[i] = w[i + (c - a)]

LEMMA SamePart ==
    ASSUME NEW S, NEW t, NEW w, NEW a \in Int, NEW b \in Int, NEW c \in Int, NEW d \in Int,
           Alike(S, t, w, a, b, c, d)
    PROVE  SubSeq(t, a, b) = SubSeq(w, c, d)
<1>0. /\ b - a <= d - c /\ b - a >= d - c
      /\ \A i \in a .. b : t[i] \in S
      /\ \A i \in c .. d : w[i] \in S
      /\ \A i \in a .. b : t[i] = w[i + (c - a)]
  BY Zenon DEF Alike
<1>1. PICK x : x = SubSeq(t, a, b) /\ PartIs(x, S, t, a, b)
  BY <1>0, IsPart
<1>2. PICK y : y = SubSeq(w, c, d) /\ PartIs(y, S, w, c, d)
  BY <1>0, IsPart
<1>3. PICK l \in Nat : /\ Len(x) = l /\ Len(y) = l
                       /\ 1 .. b - a + 1 = 1 .. l /\ 1 .. d - c + 1 = 1 .. l
  <2>1. /\ Len(x) = IF a <= b THEN b - a + 1 ELSE 0
        /\ Len(y) = IF c <= d THEN d - c + 1 ELSE 0
    BY <1>1, <1>2, Zenon DEF PartIs
  <2>2. b - a = d - c
    BY <1>0
  <2>3. CASE a <= b
    <3>1. PICK l \in Nat : l = b - a + 1 /\ l = d - c + 1
      BY <2>2, <2>3
    <3>2. Len(x) = l /\ Len(y) = l
      BY <2>1, <2>2, <2>3, <3>1
    <3>3. QED BY <3>1, <3>2
  <2>4. CASE ~(a <= b)
    <3>1. Len(x) = 0 /\ Len(y) = 0
      BY <2>1, <2>2, <2>4
    <3>2. 1 .. b - a + 1 = 1 .. 0 /\ 1 .. d - c + 1 = 1 .. 0
      BY <2>2, <2>4
    <3>3. QED BY <3>1, <3>2
  <2>5. QED BY <2>3, <2>4
<1>4. x \in Seq(S) /\ y \in Seq(S)
  BY <1>1, <1>2 DEF PartIs
<1>5. ASSUME NEW i \in 1 .. l PROVE x[i] = y[i]
  <2>1. i \in 1 .. b - a + 1 /\ i \in 1 .. d - c + 1
    BY <1>3
  <2>2. PICK k \in a .. b : k = a + i - 1
    BY <2>1
  <2>3. k + (c - a) = c + i - 1
    BY <2>1, <2>2
  <2>4. t[k] = w[c + i - 1]
    BY <1>0, <2>3
  <2>5. x[i] = t[a + i - 1] /\ y[i] = w[c + i - 1]
    BY <1>1, <1>2, <2>1 DEF PartIs
  <2>6. QED BY <2>2, <2>4, <2>5
<1>6. x = y
  BY <1>3, <1>4, <1>5, SeqEqual
<1>7. QED BY <1>1, <1>2, <1>6

\* permute_args() leaves what is behind the blocks, and brings the first in front of it.
BlockIsBefore(t, w, s, e, o, n) ==
    /\ SubSeq(t, s + (o - e), o - 1) = SubSeq(w, s, e - 1)
    /\ SubSeq(t, o, n) = SubSeq(w, o, n)
    /\ \A k \in o .. n : t[k] = w[k]

\* Both by the exchange of the blocks.
LEMMA BlockMoves ==
    ASSUME NEW S, NEW w \in Seq(S), NEW n \in Nat, DOMAIN w = 1 .. n,
           NEW s \in Int, NEW e \in Int, NEW o \in Int, 1 <= s, s < e, e < o, o <= n + 1
    PROVE  /\ PermuteArgs(s, e, o, w) \in Seq(S) /\ Len(PermuteArgs(s, e, o, w)) = n
           /\ BlockIsBefore(PermuteArgs(s, e, o, w), w, s, e, o, n)
<1>1. DOMAIN w = 1 .. n /\ \A i \in 1 .. n : w[i] \in S
  BY LenProperties, ElementOfSeq
<1>2. PICK t : t = PermuteArgs(s, e, o, w)
  OBVIOUS
<1>3. t = [k \in 1 .. n |-> w[SourceOf(k, s, e, o)]]
  BY <1>1, <1>2 DEF PermuteArgs
<1>4. ASSUME NEW k \in 1 .. n
      PROVE  /\ t[k] = w[SourceOf(k, s, e, o)] /\ t[k] \in S
             /\ k >= o => t[k] = w[k]
             /\ s + (o - e) <= k /\ k < o => t[k] = w[k - (o - e)]
  <2>1. PICK x \in 1 .. n :
            /\ x = SourceOf(k, s, e, o)
            /\ k >= o => x = k
            /\ s + (o - e) <= k /\ k < o => x = k - (o - e)
    <3>1. /\ SourceOf(k, s, e, o) \in 1 .. n
          /\ k < s \/ k >= o => SourceOf(k, s, e, o) = k
          /\ s + (o - e) <= k /\ k < o => SourceOf(k, s, e, o) = k - (o - e)
      BY ExchangedIs
    <3>2. QED BY <3>1
  <2>2. t[k] = w[x]
    BY <1>3, <2>1
  <2>3. QED BY <1>1, <2>1, <2>2
<1>5. t \in Seq(S) /\ Len(t) = n
  <2>1. t \in [1 .. n -> S]
    BY <1>3, <1>4
  <2>2. t \in Seq(S)
    BY <2>1
  <2>3. QED BY <2>1, <2>2, LenProperties
<1>6. PICK b \in Nat, a \in Int : b = o - e /\ a = s + (o - e)
  OBVIOUS
<1>7. SubSeq(t, a, o - 1) = SubSeq(w, s, e - 1)
  <2>1. \A i \in a .. o - 1 : t[i] \in S
    BY <1>4, <1>6
  <2>2. \A i \in s .. e - 1 : w[i] \in S
    BY <1>1
  <2>3. PICK o1 \in Int, e1 \in Int : o1 = o - 1 /\ e1 = e - 1
    OBVIOUS
  <2>4. ASSUME NEW i \in a .. o1 PROVE t[i] = w[i + (s - a)]
    <3>1. i \in 1 .. n /\ s + (o - e) <= i /\ i < o /\ i - (o - e) = i + (s - a)
      BY <1>6, <2>3
    <3>2. QED BY <1>4, <3>1
  <2>5. o1 - a <= e1 - s /\ o1 - a >= e1 - s
    BY <1>6, <2>3
  <2>6. (\A i \in a .. o1 : t[i] \in S) /\ (\A i \in s .. e1 : w[i] \in S)
    BY <2>1, <2>2, <2>3
  <2>7. SubSeq(t, a, o1) = SubSeq(w, s, e1)
    <3>1. Alike(S, t, w, a, o1, s, e1)
      BY <2>4, <2>5, <2>6 DEF Alike
    <3>2. QED BY <3>1, SamePart
  <2>8. QED BY <2>3, <2>7
<1>8. SubSeq(t, o, n) = SubSeq(w, o, n)
  <2>1. \A i \in o .. n : t[i] \in S
    BY <1>4
  <2>2. \A i \in o .. n : w[i] \in S
    BY <1>1
  <2>3. \A i \in o .. n : t[i] = w[i + (o - o)]
    BY <1>4
  <2>4. Alike(S, t, w, o, n, o, n)
    BY <2>1, <2>2, <2>3 DEF Alike
  <2>5. QED BY <2>4, SamePart
<1>9. \A k \in o .. n : t[k] = w[k]
  BY <1>4
<1>10. BlockIsBefore(t, w, s, e, o, n)
  BY <1>6, <1>7, <1>8, <1>9 DEF BlockIsBefore
<1>11. QED BY <1>2, <1>5, <1>10

\* A part with one word more.
LEMMA Joined ==
    ASSUME NEW S, NEW w \in Seq(S), NEW t \in Int, NEW o \in Int, 1 <= t, t <= o, o <= Len(w)
    PROVE  SubSeq(w, t, o) = Append(SubSeq(w, t, o - 1), w[o])
<1>1. Len(w) \in Nat /\ \A i \in 1 .. Len(w) : w[i] \in S
  BY LenProperties, ElementOfSeq
<1>2. t \in 1 .. Len(w) /\ o \in t .. Len(w) /\ w[o] \in S
  BY <1>1
<1>3. SubSeq(w, t, o) = SubSeq(w, t, o - 1) \o <<w[o]>>
  BY <1>2, SubSeqRecursiveSecond
<1>4. SubSeq(w, t, o - 1) \in Seq(S)
  <2>1. PICK p \in Int : p = o - 1
    OBVIOUS
  <2>2. \A i \in t .. p : w[i] \in S
    BY <1>1, <2>1
  <2>3. SubSeq(w, t, p) \in Seq(S)
    BY <2>2, SubSeqProperties
  <2>4. QED BY <2>1, <2>3
<1>5. QED BY <1>2, <1>3, <1>4, AppendIsConcat

\* The operands passed, and what is left to read, by the indices.
Ongoing  == status # "end"
AsPassed == Passed = SubSeq(argv, BlockStart, BlockEnd - 1)
LEMMA PassedIs == SafeInv /\ Ongoing => AsPassed
<1> SUFFICES ASSUME SafeInv, status # "end" PROVE AsPassed
  BY DEF Ongoing
<1>1. Passed = Block
  BY DEF Passed
<1>2. CASE nonopt_start = NoIndex
  <2>1. BlockStart = optind /\ BlockEnd = optind /\ optind \in Int
    BY <1>2, BlockIs
  <2>2. PICK p \in Int : p = optind - 1 /\ p < optind
    BY <2>1
  <2>3. SubSeq(argv, optind, p) = <<>>
    BY <2>1, <2>2, SubSeqEmpty
  <2>4. Block = <<>>
    BY <1>2 DEF Block
  <2>5. QED BY <1>1, <2>1, <2>2, <2>3, <2>4 DEF AsPassed
<1>3. CASE nonopt_start # NoIndex
  BY <1>1, <1>3 DEF AsPassed, Block, BlockStart, BlockEnd
<1>4. QED BY <1>2, <1>3

\* The same of the next state.
LEMMA PassedIsNext == SafeInv' /\ Ongoing' => AsPassed'
  BY PassedIs, PTL

\* What the steps that look at a word read.
LEMMA WordToRead ==
    ASSUME SafeInv, AtWord, NEW S, argv \in Seq(S)
    PROVE  /\ optind \in 1 .. Len(argv)
           /\ ToRead = From(optind) /\ ToRead # <<>>
           /\ Head(ToRead) = argv[optind] /\ Tail(ToRead) = From(optind + 1)
           /\ Line!AtWord
<1>1. status = "reading" /\ place = EMSG /\ optind \in 1 .. Len(argv)
  BY LenProperties DEF AtWord, SafeInv, BlocksInOrder
<1>2. ToRead = From(optind)
  BY <1>1 DEF ToRead
<1>3. /\ From(optind) # <<>> /\ Head(From(optind)) = argv[optind]
      /\ Tail(From(optind)) = From(optind + 1)
  BY <1>1, RestIs DEF From
<1>4. Line!EMSG = EMSG
  BY SameWords
<1>5. Line!AtWord
  BY <1>1, <1>2, <1>3, <1>4 DEF Line!AtWord
<1>6. QED BY <1>1, <1>2, <1>3, <1>5

\* Steps of GetOpt are steps of CommandLine.
LEMMA SkipPassesOperand == PartsInv /\ SkipNonOption /\ SafeInv' => Line!PassOperand
<1> SUFFICES ASSUME PartsInv, SkipNonOption, SafeInv' PROVE Line!PassOperand
  OBVIOUS
<1>1. /\ SafeInv /\ AtWord /\ ~posixly_correct /\ place = EMSG /\ status = "reading"
      /\ status' = "reading" /\ optind' = optind + 1 /\ ~IsOption(argv[optind])
      /\ posixly_correct' = posixly_correct /\ place' = place /\ got' = got
      /\ status' = status
  BY DEF PartsInv, SkipNonOption, AtWord
<1>2. PICK S : argv \in Seq(S)
  BY <1>1 DEF SafeInv, IsSequence
<1>3. PICK n \in Nat, s \in Int, e \in Int, o \in Int :
          n = Len(argv) /\ s = BlockStart /\ e = BlockEnd /\ o = optind
  <2>1. Len(argv) \in Nat /\ BlockStart \in Int /\ BlockEnd \in Int /\ optind \in Int
    BY <1>1, BlockIs
  <2>2. QED BY <2>1, Zenon
<1>4. DOMAIN argv = 1 .. n /\ 1 <= s /\ s <= e /\ e <= o /\ o <= n
  BY <1>1, <1>3, BlockIs DEF AtWord
<1>5. /\ ToRead # <<>> /\ Head(ToRead) = argv[o] /\ Tail(ToRead) = SubSeq(argv, o + 1, n)
      /\ Line!AtWord
  BY <1>1, <1>2, <1>3, WordToRead DEF From
<1>6. Passed = SubSeq(argv, s, e - 1)
  BY <1>1, <1>3, PassedIs DEF Ongoing, AsPassed
<1>7. Passed' = SubSeq(argv', BlockStart', BlockEnd' - 1)
  BY <1>1, PassedIsNext DEF Ongoing, AsPassed
<1>8. ASSUME NEW t \in Int, 1 <= t, t <= o, nonopt_start' = t, nonopt_end' = NoIndex,
             argv' \in Seq(S), Len(argv') = n, argv'[o] = argv[o],
             SubSeq(argv', t, o - 1) = SubSeq(argv, s, e - 1),
             SubSeq(argv', o + 1, n) = SubSeq(argv, o + 1, n)
      PROVE  Passed' = Append(Passed, Head(ToRead)) /\ ToRead' = Tail(ToRead)
  <2>1. BlockStart' = t /\ BlockEnd' = o + 1
    BY <1>1, <1>3, <1>8 DEF BlockStart, BlockEnd, NoIndex
  <2>2. Passed' = SubSeq(argv', t, o)
    BY <1>7, <2>1
  <2>3. SubSeq(argv', t, o) = Append(SubSeq(argv', t, o - 1), argv'[o])
    BY <1>4, <1>8, Joined
  <2>4. Passed' = Append(Passed, Head(ToRead))
    BY <1>5, <1>6, <1>8, <2>2, <2>3
  <2>5. ToRead' = SubSeq(argv', o + 1, n)
    BY <1>1, <1>3, <1>8 DEF ToRead, From
  <2>6. QED BY <1>5, <1>8, <2>4, <2>5
<1>9. Passed' = Append(Passed, Head(ToRead)) /\ ToRead' = Tail(ToRead)
  <2>1. CASE nonopt_start = NoIndex
    <3>1. s = o /\ e = o
      BY <1>1, <1>3, <2>1, BlockIs
    <3>2. nonopt_start' = o /\ nonopt_end' = NoIndex /\ argv' = argv
      BY <1>1, <1>3, <2>1 DEF SkipNonOption, SafeInv, BlocksInOrder
    <3>3. SubSeq(argv', o, o - 1) = SubSeq(argv, s, e - 1)
      BY <3>1, <3>2
    <3>4. QED BY <1>2, <1>3, <1>4, <1>8, <3>1, <3>2, <3>3
  <2>2. CASE nonopt_start # NoIndex /\ nonopt_end = NoIndex
    <3>1. s = nonopt_start /\ e = o
      BY <1>1, <1>3, <2>2, BlockIs
    <3>2. nonopt_start' = s /\ nonopt_end' = NoIndex /\ argv' = argv
      BY <2>2, <3>1 DEF SkipNonOption, blockVars
    <3>3. SubSeq(argv', s, o - 1) = SubSeq(argv, s, e - 1)
      BY <3>1, <3>2
    <3>4. QED BY <1>2, <1>3, <1>4, <1>8, <3>1, <3>2, <3>3
  <2>3. CASE nonopt_start # NoIndex /\ nonopt_end # NoIndex
    <3>1. s = nonopt_start /\ e = nonopt_end /\ s < e /\ e < o
      BY <1>1, <1>3, <2>3, BlockIs
    <3>2. nonopt_start' = o - (e - s) /\ nonopt_end' = NoIndex
              /\ argv' = PermuteArgs(s, e, o, argv)
      BY <1>3, <2>3, <3>1 DEF SkipNonOption
    <3>3. /\ argv' \in Seq(S) /\ Len(argv') = n
          /\ BlockIsBefore(argv', argv, s, e, o, n)
      <4>1. o <= n + 1 /\ s < e /\ e < o
        BY <1>4, <3>1
      <4>2. QED BY <1>2, <1>4, <3>2, <4>1, BlockMoves
    <3>4. PICK t \in Int : t = s + (o - e)
      OBVIOUS
    <3>5. /\ SubSeq(argv', t, o - 1) = SubSeq(argv, s, e - 1)
          /\ SubSeq(argv', o, n) = SubSeq(argv, o, n)
          /\ argv'[o] = argv[o]
      BY <1>4, <3>3, <3>4 DEF BlockIsBefore
    <3>6. SubSeq(argv', o + 1, n) = SubSeq(argv, o + 1, n)
      <4>1. o \in 1 .. n
        BY <1>4
      <4>2. Tail(SubSeq(argv', o, n)) = SubSeq(argv', o + 1, n)
        BY <3>3, <4>1, RestIs
      <4>3. Tail(SubSeq(argv, o, n)) = SubSeq(argv, o + 1, n)
        BY <1>2, <1>3, <4>1, RestIs
      <4>4. QED BY <3>5, <4>2, <4>3
    <3>7. 1 <= t /\ t <= o /\ nonopt_start' = t
      BY <1>4, <3>1, <3>2, <3>4
    <3>8. QED BY <1>8, <3>2, <3>3, <3>5, <3>6, <3>7
  <2>4. QED BY <2>1, <2>2, <2>3
<1>10. ~Line!IsOption(Head(ToRead))
  BY <1>1, <1>3, <1>5, SameWords
<1>11. QED
  BY <1>1, <1>5, <1>9, <1>10, Zenon DEF Line!PassOperand

\* What getopt_long() does with an option it finds.
LEMMA ReturnTakes ==
    ASSUME SafeInv, InWord, status = "reading", optind <= Len(argv), NEW p, Return(p), SafeInv'
    PROVE  Line!Take(p, From(optind + 1))
<1> DEFINE after == SubSeq(argv, optind + 1, Len(argv))
           r     == ReadOption(p, after)
<1>1. /\ argv' = argv /\ nonopt_start' = nonopt_start
      /\ posixly_correct' = posixly_correct /\ nonopt_end' = EndOfBlock(optind)
      /\ place' = r.place
      /\ optind' = IF r.place = EMSG THEN optind + 1 + r.takes ELSE optind
      /\ got' = Append(got, [opt |-> r.opt, arg |-> r.arg])
      /\ status' = IF EndsProgram(r.opt) THEN "usage" ELSE status
  BY Zenon DEF Return
<1>2. PICK S : argv \in Seq(S)
  BY DEF SafeInv, IsSequence
<1>3. PICK n \in Nat, o \in Int : n = Len(argv) /\ o = optind
  <2>1. Len(argv) \in Nat /\ optind \in Int
    BY BlockIs
  <2>2. QED BY <2>1, Zenon
<1>4. 1 <= o /\ o <= n
  BY <1>3, BlockIs
<1>5. r.takes = 0 \/ (r.takes = 1 /\ after # <<>> /\ r.place = EMSG)
  BY TakesAWord, Zenon
<1>6. after = From(optind + 1) /\ after = SubSeq(argv, o + 1, n)
  BY <1>3 DEF From
<1>7. after \in Seq(S)
  <2>1. PICK q \in Int : q = o + 1 /\ q >= 1
    BY <1>4
  <2>2. \A i \in q .. n : argv[i] \in S
    BY <1>2, <1>3, <2>1, ElementOfSeq
  <2>3. SubSeq(argv, q, n) \in Seq(S)
    BY <2>2, SubSeqProperties
  <2>4. QED BY <1>6, <2>1, <2>3
<1>8. after # <<>> => o + 1 <= n
  BY <1>3, <1>6, SubSeqEmpty
<1> HIDE DEF r, after
<1>9. status' # "end" /\ status # "end"
  BY <1>1
<1>10. ToRead' = SubSeq(after, 1 + r.takes, Len(after))
  <2>1. ToRead' = SubSeq(argv, IF r.place = EMSG THEN optind' ELSE optind' + 1, n)
    BY <1>1, <1>3, <1>9 DEF ToRead, From
  <2>2. CASE r.takes = 0
    <3>1. ToRead' = SubSeq(argv, o + 1, n)
      BY <1>1, <1>3, <2>1, <2>2
    <3>2. SubSeq(after, 1, Len(after)) = after
      BY <1>7, SubSeqFull
    <3>3. QED BY <1>6, <2>2, <3>1, <3>2
  <2>3. CASE r.takes = 1 /\ after # <<>> /\ r.place = EMSG
    <3>1. ToRead' = SubSeq(argv, o + 2, n)
      BY <1>1, <1>3, <2>1, <2>3
    <3>2. PICK q \in 1 .. Len(argv) : q = o + 1 /\ q + 1 = o + 2
      BY <1>3, <1>4, <1>8, <2>3
    <3>3. Tail(SubSeq(argv, q, Len(argv))) = SubSeq(argv, q + 1, Len(argv))
      BY <1>2, RestIs
    <3>4. Tail(after) = SubSeq(argv, o + 2, n)
      BY <1>3, <1>6, <3>2, <3>3
    <3>5. Tail(after) = SubSeq(after, 2, Len(after))
      BY <1>7, <2>3, TailIsSubSeq
    <3>6. QED BY <2>3, <3>1, <3>4, <3>5
  <2>4. QED BY <1>5, <2>2, <2>3
<1>11. Passed' = Passed
  <2>1. Passed = Block /\ Passed' = Block'
    BY <1>9 DEF Passed
  <2>2. CASE nonopt_start = NoIndex
    BY <1>1, <2>1, <2>2 DEF Block
  <2>3. CASE nonopt_start # NoIndex /\ nonopt_end = NoIndex
    <3>1. place = EMSG /\ nonopt_end' = optind /\ optind # NoIndex
      BY <1>1, <1>3, <1>4, <2>3 DEF InWord, EndOfBlock, NoIndex
    <3>2. QED BY <1>1, <2>1, <2>3, <3>1 DEF Block
  <2>4. CASE nonopt_start # NoIndex /\ nonopt_end # NoIndex
    <3>1. nonopt_end' = nonopt_end
      BY <1>1, <2>4 DEF EndOfBlock
    <3>2. QED BY <1>1, <2>1, <2>4, <3>1 DEF Block
  <2>5. QED BY <2>2, <2>3, <2>4
<1>12. Line!ReadOption(p, From(optind + 1)) = r
  BY <1>6, SameReads DEF r
<1>13. Line!EndsProgram(r.opt) <=> EndsProgram(r.opt)
  BY SameWords
<1>14. QED
  BY <1>1, <1>6, <1>10, <1>11, <1>12, <1>13 DEF Line!Take

LEMMA ReadWordTakes == PartsInv /\ ReadWord /\ SafeInv' => Line!TakeWord
<1> SUFFICES ASSUME PartsInv, ReadWord, SafeInv' PROVE Line!TakeWord
  OBVIOUS
<1>1. /\ SafeInv /\ InWord /\ AtWord /\ status = "reading" /\ optind <= Len(argv)
      /\ IsOption(argv[optind]) /\ argv[optind] # DoubleDash
      /\ Return(Behind(argv[optind]))
  BY DEF PartsInv, ReadWord, AtWord
<1>2. PICK S : argv \in Seq(S)
  BY <1>1 DEF SafeInv, IsSequence
<1>3. /\ Head(ToRead) = argv[optind] /\ Tail(ToRead) = From(optind + 1) /\ Line!AtWord
  BY <1>1, <1>2, WordToRead
<1>4. Line!Take(Behind(argv[optind]), From(optind + 1))
  BY <1>1, ReturnTakes
<1>5. /\ Line!IsOption(Head(ToRead)) /\ Head(ToRead) # Line!DoubleDash
      /\ Line!Behind(Head(ToRead)) = Behind(argv[optind])
  BY <1>1, <1>3, SameWords
<1>6. QED
  BY <1>3, <1>4, <1>5 DEF Line!TakeWord

LEMMA ReadOnTakes == PartsInv /\ ReadOn /\ SafeInv' => Line!TakeNextLetter
<1> SUFFICES ASSUME PartsInv, ReadOn, SafeInv' PROVE Line!TakeNextLetter
  OBVIOUS
<1>1. SafeInv /\ InWord /\ status = "reading" /\ place # EMSG /\ Return(place)
  BY DEF PartsInv, ReadOn
<1>2. optind <= Len(argv)
  BY <1>1 DEF SafeInv, BlocksInOrder
<1>3. Line!Take(place, From(optind + 1))
  BY <1>1, <1>2, ReturnTakes
<1>4. ToRead = From(optind + 1) /\ place # Line!EMSG
  BY <1>1, SameWords DEF ToRead
<1>5. QED
  BY <1>1, <1>3, <1>4 DEF Line!TakeNextLetter

\* Two parts that lie next to each other.
LEMMA Adjacent ==
    ASSUME NEW S, NEW w \in Seq(S), NEW n \in Nat, Len(w) = n,
           NEW a \in Int, NEW o \in Int, 1 <= a, a <= o, o <= n + 1
    PROVE  SubSeq(w, a, o - 1) \o SubSeq(w, o, n) = SubSeq(w, a, n)
<1>1. PICK k \in Int : k = o - 1 /\ k + 1 = o
  OBVIOUS
<1>2. a \in 1 .. Len(w) + 1 /\ k \in a - 1 .. Len(w) /\ n \in k .. Len(w)
  BY <1>1
<1>3. SubSeq(w, a, k) \o SubSeq(w, k + 1, n) = SubSeq(w, a, n)
  BY <1>2, ConcatAdjacentSubSeq
<1>4. QED BY <1>1, <1>3

\* At the end the operands are those passed and what is left.
LEMMA EndBehindEnds ==
    ASSUME NEW S, argv \in Seq(S), NEW n \in Nat, Len(argv) = n,
           NEW s \in Int, NEW e \in Int, NEW o \in Int, NEW end,
           EndBehind(o, end), 1 <= s, s <= e, e <= o, o <= n + 1,
           end = NoIndex => e = o /\ s = IF nonopt_start # NoIndex THEN nonopt_start ELSE o,
           end # NoIndex => s = nonopt_start /\ e = end /\ s < e /\ e < o
    PROVE  Passed' = SubSeq(argv, s, e - 1) \o SubSeq(argv, o, n) /\ ToRead' = <<>>
<1>1. status' = "end"
  BY DEF EndBehind
<1>2. ToRead' = <<>> /\ Passed' = SubSeq(argv', optind', Len(argv'))
  BY <1>1 DEF ToRead, Passed, From
<1>3. CASE end = NoIndex
  <2>1. argv' = argv /\ optind' = s /\ e = o
    BY <1>3 DEF EndBehind
  <2>2. Passed' = SubSeq(argv, s, n)
    BY <1>2, <2>1
  <2>3. s <= o
    OBVIOUS
  <2>4. SubSeq(argv, s, o - 1) \o SubSeq(argv, o, n) = SubSeq(argv, s, n)
    BY <2>3, Adjacent
  <2>5. QED BY <1>2, <2>1, <2>2, <2>4
<1>4. CASE end # NoIndex
  <2>1. PICK a \in Int : a = s + (o - e)
    OBVIOUS
  <2>2. /\ argv' = PermuteArgs(s, e, o, argv) /\ optind' = a
        /\ s < e /\ e < o /\ 1 <= a /\ a <= o
    BY <1>4, <2>1 DEF EndBehind
  <2>3. DOMAIN argv = 1 .. n
    BY LenProperties
  <2>4. /\ argv' \in Seq(S) /\ Len(argv') = n
        /\ BlockIsBefore(argv', argv, s, e, o, n)
    BY <2>2, <2>3, BlockMoves
  <2>5. /\ SubSeq(argv', a, o - 1) = SubSeq(argv, s, e - 1)
        /\ SubSeq(argv', o, n) = SubSeq(argv, o, n)
    BY <2>1, <2>4 DEF BlockIsBefore
  <2>6. SubSeq(argv', a, o - 1) \o SubSeq(argv', o, n) = SubSeq(argv', a, n)
    BY <2>2, <2>4, Adjacent
  <2>7. Passed' = SubSeq(argv', a, n)
    BY <1>2, <2>2, <2>4
  <2>8. QED BY <1>2, <2>5, <2>6, <2>7
<1>5. QED BY <1>3, <1>4

LEMMA EndOfVectorEnds == PartsInv /\ EndOfVector => Line!EndOfLine
<1> SUFFICES ASSUME PartsInv, EndOfVector PROVE Line!EndOfLine
  OBVIOUS
<1>1. /\ SafeInv /\ status = "reading" /\ place = EMSG /\ optind > Len(argv)
      /\ EndBehind(optind, nonopt_end)
  BY DEF PartsInv, EndOfVector
<1>2. PICK S : argv \in Seq(S)
  BY <1>1 DEF SafeInv, IsSequence
<1>3. PICK n \in Nat, s \in Int, e \in Int, o \in Int :
          n = Len(argv) /\ s = BlockStart /\ e = BlockEnd /\ o = optind
  <2>1. Len(argv) \in Nat /\ BlockStart \in Int /\ BlockEnd \in Int /\ optind \in Int
    BY <1>1, BlockIs
  <2>2. QED BY <2>1, Zenon
<1>4. /\ 1 <= s /\ s <= e /\ e <= o /\ o = n + 1
      /\ nonopt_end = NoIndex =>
             e = o /\ s = IF nonopt_start # NoIndex THEN nonopt_start ELSE o
      /\ nonopt_end # NoIndex => s = nonopt_start /\ e = nonopt_end /\ s < e /\ e < o
  BY <1>1, <1>3, BlockIs
<1>5. Passed = SubSeq(argv, s, e - 1)
  BY <1>1, <1>3, PassedIs DEF Ongoing, AsPassed
<1>6. SubSeq(argv, o, n) = <<>>
  <2>1. n < o
    BY <1>4
  <2>2. QED BY <2>1, SubSeqEmpty
<1>7. ToRead = <<>>
  BY <1>1, <1>3, <1>6 DEF ToRead, From
<1>8. Passed' = Passed \o <<>> /\ ToRead' = <<>>
  <2>1. EndBehind(o, nonopt_end) /\ o <= n + 1 /\ Len(argv) = n
    BY <1>1, <1>3, <1>4
  <2>2. Passed' = SubSeq(argv, s, e - 1) \o SubSeq(argv, o, n) /\ ToRead' = <<>>
    BY <1>2, <1>4, <2>1, EndBehindEnds
  <2>3. QED BY <1>5, <1>6, <2>2
<1>9. /\ status' = "end" /\ place' = place /\ posixly_correct' = posixly_correct
      /\ got' = got
  BY <1>1 DEF EndBehind
<1>10. QED
  BY <1>1, <1>7, <1>8, <1>9, SameWords, Zenon DEF Line!EndOfLine, Line!EndWith

LEMMA DashDashEnds == PartsInv /\ DashDash => Line!DashDash
<1> SUFFICES ASSUME PartsInv, DashDash PROVE Line!DashDash
  OBVIOUS
<1>1. /\ SafeInv /\ AtWord /\ status = "reading" /\ place = EMSG
      /\ argv[optind] = DoubleDash
      /\ EndBehind(optind + 1, EndOfBlock(optind))
  BY DEF PartsInv, DashDash, AtWord
<1>2. PICK S : argv \in Seq(S)
  BY <1>1 DEF SafeInv, IsSequence
<1>3. PICK n \in Nat, s \in Int, e \in Int, o \in Int :
          n = Len(argv) /\ s = BlockStart /\ e = BlockEnd /\ o = optind
  <2>1. Len(argv) \in Nat /\ BlockStart \in Int /\ BlockEnd \in Int /\ optind \in Int
    BY <1>1, BlockIs
  <2>2. QED BY <2>1, Zenon
<1>4. 1 <= s /\ s <= e /\ e <= o /\ o <= n
  BY <1>1, <1>3, BlockIs DEF AtWord
<1>p. PICK p \in Int : p = o + 1
  OBVIOUS
<1>e. PICK end : end = EndOfBlock(optind)
  OBVIOUS
<1>5. EndBehind(p, end) /\ p <= n + 1 /\ 1 <= p /\ Len(argv) = n
  <2>1. EndBehind(p, end)
    BY <1>1, <1>3, <1>p, <1>e
  <2>2. p <= n + 1 /\ 1 <= p /\ Len(argv) = n
    BY <1>3, <1>4, <1>p
  <2>3. QED BY <2>1, <2>2
<1>6. /\ Head(ToRead) = DoubleDash /\ Tail(ToRead) = SubSeq(argv, p, n)
      /\ Line!AtWord
  BY <1>1, <1>2, <1>3, <1>p, WordToRead DEF From
<1>7. Passed = SubSeq(argv, s, e - 1)
  BY <1>1, <1>3, PassedIs DEF Ongoing, AsPassed
<1>8. Passed' = Passed \o SubSeq(argv, p, n) /\ ToRead' = <<>>
  <2>1. CASE nonopt_start = NoIndex
    <3>1. end = NoIndex
      BY <1>1, <1>e, <2>1 DEF EndOfBlock, SafeInv, BlocksInOrder
    <3>2. Passed' = SubSeq(argv, p, p - 1) \o SubSeq(argv, p, n) /\ ToRead' = <<>>
      BY <1>2, <1>5, <2>1, <3>1, EndBehindEnds
    <3>3. SubSeq(argv, p, p - 1) = <<>>
      <4>1. PICK q \in Int : q = p - 1 /\ q < p
        OBVIOUS
      <4>2. QED BY <4>1, SubSeqEmpty
    <3>4. Passed = <<>>
      BY <1>1, <2>1 DEF Passed, Block
    <3>5. QED BY <3>2, <3>3, <3>4
  <2>2. CASE nonopt_start # NoIndex
    <3>1. end = e /\ end # NoIndex
      BY <1>1, <1>3, <1>4, <1>e, <2>2, BlockIs DEF EndOfBlock, NoIndex
    <3>2. s = nonopt_start /\ s < o
      BY <1>1, <1>3, <2>2, BlockIs
    <3>3. nonopt_end # NoIndex => s < e
      BY <1>1, <1>3, BlockIs
    <3>4. nonopt_end = NoIndex => e = o
      BY <1>1, <1>3, BlockIs
    <3>5. s = nonopt_start /\ s < e /\ e < p /\ e <= p
      BY <1>4, <1>p, <3>2, <3>3, <3>4
    <3>6. Passed' = SubSeq(argv, s, e - 1) \o SubSeq(argv, p, n) /\ ToRead' = <<>>
      BY <1>2, <1>4, <1>5, <3>1, <3>5, EndBehindEnds
    <3>7. QED BY <1>7, <3>6
  <2>3. QED BY <2>1, <2>2
<1>9. /\ status' = "end" /\ place' = place /\ posixly_correct' = posixly_correct
      /\ got' = got
  BY <1>1 DEF EndBehind
<1>10. QED
  BY <1>6, <1>8, <1>9, SameWords, Zenon DEF Line!DashDash, Line!EndWith

LEMMA StopEnds == PartsInv /\ StopAtNonOption => Line!FirstOperand
<1> SUFFICES ASSUME PartsInv, StopAtNonOption PROVE Line!FirstOperand
  OBVIOUS
<1>1. /\ SafeInv /\ NoBlockInPosix /\ AtWord /\ status = "reading" /\ place = EMSG
      /\ ~IsOption(argv[optind]) /\ posixly_correct
      /\ status' = "end" /\ argv' = argv /\ optind' = optind
      /\ place' = place /\ posixly_correct' = posixly_correct /\ got' = got
  BY DEF PartsInv, StopAtNonOption, AtWord
<1>2. PICK S : argv \in Seq(S)
  BY <1>1 DEF SafeInv, IsSequence
<1>3. /\ optind \in 1 .. Len(argv) /\ ToRead = From(optind)
      /\ Head(ToRead) = argv[optind] /\ Line!AtWord
  BY <1>1, <1>2, WordToRead
<1>4. Passed = <<>>
  BY <1>1 DEF NoBlockInPosix, Passed, Block
<1>5. ToRead' = <<>> /\ Passed' = From(optind)
  BY <1>1 DEF ToRead, Passed, From
<1>6. <<>> \o From(optind) = From(optind)
  <2>1. From(optind) \in Seq(S)
    BY <1>2, <1>3, RestIs DEF From
  <2>2. QED BY <2>1, ConcatEmptySeq
<1>7. Passed' = Passed \o ToRead
  BY <1>3, <1>4, <1>5, <1>6
<1>8. ~Line!IsOption(Head(ToRead))
  BY <1>1, <1>3, SameWords
<1>9. QED
  BY <1>1, <1>3, <1>5, <1>7, <1>8, Zenon DEF Line!FirstOperand, Line!EndWith

LEMMA InitReads == Init => Line!Init
<1> SUFFICES ASSUME Init PROVE Line!Init
  OBVIOUS
<1>1. /\ argv \in CommandLines /\ posixly_correct \in BOOLEAN /\ optind = 1 /\ place = EMSG
      /\ nonopt_start = NoIndex /\ got = <<>> /\ status = "reading"
  BY DEF Init
<1>2. PICK S : argv \in Seq(S)
  BY <1>1, CommandLinesAssumption DEF IsSequence
<1>3. ToRead = argv
  <2>1. ToRead = SubSeq(argv, 1, Len(argv))
    BY <1>1 DEF ToRead, From
  <2>2. QED BY <1>2, <2>1, SubSeqFull
<1>4. Passed = <<>>
  BY <1>1 DEF Passed, Block
<1>5. QED
  BY <1>1, <1>3, <1>4, SameWords DEF Line!Init

LEMMA NextReads == PartsInv /\ SafeInv' /\ [Next]_vars => [Line!Next]_(Line!vars)
<1> SUFFICES ASSUME PartsInv, SafeInv', [Next]_vars PROVE [Line!Next]_(Line!vars)
  OBVIOUS
<1>1. CASE Next
  BY <1>1, EndOfVectorEnds, DashDashEnds, StopEnds, SkipPassesOperand, ReadWordTakes,
     ReadOnTakes, Zenon DEF Next, Line!Next
<1>2. CASE UNCHANGED vars
  <2>1. /\ argv' = argv /\ status' = status /\ optind' = optind /\ place' = place
        /\ posixly_correct' = posixly_correct /\ got' = got
        /\ nonopt_start' = nonopt_start /\ nonopt_end' = nonopt_end
    BY <1>2 DEF vars, blockVars
  <2>2. ToRead' = ToRead /\ Passed' = Passed
    BY <2>1 DEF ToRead, Passed, From, Block
  <2>3. QED
    BY <2>1, <2>2 DEF Line!vars
<1>3. QED
  BY <1>1, <1>2

\* getopt_long() reads the command line as if nothing were moved in it: the same
\* options with the same arguments in the same order, and the operands, in theirs,
\* from optind on (getopt.c:128-178, 349-504).
THEOREM AlwaysReadsAsWritten == SafeSpec => ReadsAsWritten
<1>1. PartsInv => SafeInv
  BY DEF PartsInv
<1>2. QED
  BY <1>1, InitParts, NextParts, InitReads, NextReads, PTL
     DEF SafeSpec, ReadsAsWritten, Line!Spec
=============================================================================
