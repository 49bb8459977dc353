---------------------------- MODULE DisplayProofs ----------------------------
(***************************************************************************)
(* What the displays take and show, for every text, bitmap and font.       *)
(***************************************************************************)
EXTENDS Display, SequenceTheorems, WellFoundedInduction, TLAPS

-----------------------------------------------------------------------------
(* Running sums. *)

\* Induction up to n, over a set of numbers.
LEMMA UpTo ==
    ASSUME NEW n \in Nat, NEW T, 0 \in T, \A k \in 1 .. n : k - 1 \in T => k \in T
    PROVE  0 .. n \subseteq T
<1> DEFINE D == (0 .. n) \ T
<1>1. SUFFICES ASSUME D # {} PROVE FALSE
  OBVIOUS
<1>2. D \in SUBSET Nat
  OBVIOUS
<1>3. PICK x \in D : \A y \in D : ~(<<y, x>> \in OpToRel(<, Nat))
  <2> HIDE DEF D
  <2>1. QED BY <1>1, <1>2, WFMin, NatLessThanWellFounded
<1>4. \A y \in D : ~(y < x)
  BY <1>2, <1>3 DEF OpToRel
<1>5. x \in 1 .. n /\ x - 1 \in 0 .. n
  OBVIOUS
<1>6. x - 1 \in T
  BY <1>4, <1>5
<1>7. QED
  BY <1>5, <1>6

\* A function on 0 .. n that is defined by one step from each value to the next
\* exists.
IsRun(s, n, A, z, step) ==
    s \in [0 .. n -> A] /\ s[0] = z /\ \A k \in 1 .. n : s[k] = step[k][s[k - 1]]

LEMMA StepByStep ==
    ASSUME NEW n \in Nat, NEW A, NEW z \in A, NEW step \in [1 .. n -> [A -> A]]
    PROVE  \E s : IsRun(s, n, A, z, step)
<1> DEFINE Partial(m, s) ==
              s \in [0 .. m -> A] /\ s[0] = z /\ \A k \in 1 .. m : s[k] = step[k][s[k - 1]]
           T == {m \in 0 .. n : \E s : Partial(m, s)}
<1>1. 0 \in T
  <2>1. Partial(0, [k \in 0 .. 0 |-> z])
    OBVIOUS
  <2> HIDE DEF Partial
  <2>2. QED BY <2>1
<1>2. ASSUME NEW m \in 1 .. n, m - 1 \in T PROVE m \in T
  <2>1. PICK s : Partial(m - 1, s)
    BY <1>2
  <2> DEFINE v == step[m][s[m - 1]]
             t == [k \in 0 .. m |-> IF k = m THEN v ELSE s[k]]
  <2>2. s[m - 1] \in A
    BY <2>1
  <2>3. v \in A
    BY <2>2
  <2>4. \A k \in 0 .. m - 1 : s[k] \in A
    BY <2>1
  <2>5. t \in [0 .. m -> A]
    BY <2>3, <2>4
  <2>6. t[0] = z
    BY <2>1
  <2>7. ASSUME NEW k \in 1 .. m PROVE t[k] = step[k][t[k - 1]]
    <3>1. t[k - 1] = s[k - 1]
      OBVIOUS
    <3>2. CASE k = m
      BY <3>1, <3>2
    <3>3. CASE k # m
      BY <2>1, <3>1, <3>3
    <3>4. QED BY <3>2, <3>3
  <2>8. Partial(m, t)
    BY <2>5, <2>6, <2>7
  <2> HIDE DEF Partial, t
  <2>9. QED BY <2>8
<1>3. n \in T
  <2>1. 0 .. n \subseteq T
    <3> HIDE DEF T
    <3>1. QED BY <1>1, <1>2, UpTo
  <2>2. QED BY <2>1
<1>4. PICK s : Partial(n, s)
  <2> HIDE DEF Partial
  <2>1. QED BY <1>3
<1>5. QED BY <1>4 DEF IsRun

\* The two running sums: that of the checksum and the plain one.
CkAcc(b)    == CHOOSE s : s = [k \in 0 .. Len(b) |->
                                  IF k = 0 THEN 0 ELSE (s[k - 1] + b[k]) % 128]
Running(b)  == CHOOSE s : s = [k \in 0 .. Len(b) |->
                                  IF k = 0 THEN 0 ELSE s[k - 1] + b[k]]
LEMMA Sums ==
    ASSUME NEW b \in Seq(Nat)
    PROVE  /\ RolandChecksum(b) = 128 - CkAcc(b)[Len(b)]
           /\ Total(b) = Running(b)[Len(b)]
  BY DEF RolandChecksum, Total, CkAcc, Running

LEMMA CkAccIs ==
    ASSUME NEW b \in Seq(Nat)
    PROVE  /\ CkAcc(b)[0] = 0
           /\ \A k \in 0 .. Len(b) : CkAcc(b)[k] \in 0 .. 127
           /\ \A k \in 1 .. Len(b) : CkAcc(b)[k] = (CkAcc(b)[k - 1] + b[k]) % 128
<1> DEFINE n == Len(b)
           F(s) == s = [k \in 0 .. n |-> IF k = 0 THEN 0 ELSE (s[k - 1] + b[k]) % 128]
<1>1. n \in Nat /\ \A k \in 1 .. n : b[k] \in Nat
  OBVIOUS
<1> HIDE DEF n
<1>2. \A x, y \in Nat : (x + y) % 128 \in Nat /\ (x + y) % 128 \in 0 .. 127
  OBVIOUS
<1>3. \E s : F(s)
  <2> DEFINE add == [k \in 1 .. n |-> [x \in Nat |-> (x + b[k]) % 128]]
  <2>1. \A k \in 1 .. n : \A x \in Nat : (x + b[k]) % 128 \in Nat
    BY <1>1, <1>2
  <2>2. add \in [1 .. n -> [Nat -> Nat]]
    BY <2>1
  <2>3. \A k \in 1 .. n : \A x \in Nat : add[k][x] = (x + b[k]) % 128
    OBVIOUS
  <2> HIDE DEF add
  <2>4. PICK s : s \in [0 .. n -> Nat] /\ s[0] = 0 /\ \A k \in 1 .. n : s[k] = add[k][s[k - 1]]
    <3>1. 0 \in Nat
      OBVIOUS
    <3>2. \E s : IsRun(s, n, Nat, 0, add)
      BY <1>1, <2>2, <3>1, StepByStep
    <3>3. QED BY <3>2 DEF IsRun
  <2>5. \A k \in 1 .. n : s[k - 1] \in Nat
    BY <1>1, <2>4
  <2>6. \A k \in 1 .. n : s[k] = (s[k - 1] + b[k]) % 128
    BY <2>3, <2>4, <2>5
  <2>7. \A k \in 0 .. n : s[k] = IF k = 0 THEN 0 ELSE (s[k - 1] + b[k]) % 128
    BY <1>1, <2>4, <2>6
  <2>8. F(s)
    BY <2>4, <2>7
  <2> HIDE DEF F
  <2>9. QED BY <2>8
<1>4. F(CkAcc(b))
  <2>1. CkAcc(b) = CHOOSE f : F(f)
    BY DEF CkAcc, n
  <2> HIDE DEF F
  <2>2. QED BY <1>3, <2>1
<1>5. PICK s : F(s) /\ s = CkAcc(b)
  BY <1>4
<1>6. s[0] = 0 /\ \A k \in 1 .. n : s[k] = (s[k - 1] + b[k]) % 128
  BY <1>1, <1>5
<1> HIDE DEF F
<1>7. \A k \in 0 .. n : s[k] \in Nat
  <2> DEFINE T == {k \in 0 .. n : s[k] \in Nat}
  <2>1. 0 \in T
    BY <1>1, <1>6
  <2>2. ASSUME NEW k \in 1 .. n, k - 1 \in T PROVE k \in T
    <3>1. s[k - 1] \in Nat /\ b[k] \in Nat /\ k \in 0 .. n
      BY <1>1, <2>2
    <3>2. (s[k - 1] + b[k]) % 128 \in Nat
      BY <1>2, <3>1, Zenon
    <3>3. QED BY <1>6, <3>1, <3>2
  <2>3. 0 .. n \subseteq T
    <3> HIDE DEF T
    <3>1. QED BY <1>1, <2>1, <2>2, UpTo
  <2>4. QED BY <2>3
<1>8. \A k \in 0 .. n : s[k] \in 0 .. 127
  <2>1. SUFFICES ASSUME NEW k \in 1 .. n PROVE s[k] \in 0 .. 127
    BY <1>1, <1>6
  <2>2. s[k - 1] \in Nat /\ b[k] \in Nat
    BY <1>1, <1>7
  <2>3. (s[k - 1] + b[k]) % 128 \in 0 .. 127
    BY <1>2, <2>2, Zenon
  <2>4. QED BY <1>6, <2>3
<1>9. QED BY <1>5, <1>6, <1>8 DEF n

LEMMA RunningIs ==
    ASSUME NEW b \in Seq(Nat)
    PROVE  /\ Running(b)[0] = 0
           /\ \A k \in 0 .. Len(b) : Running(b)[k] \in Nat
           /\ \A k \in 1 .. Len(b) : Running(b)[k] = Running(b)[k - 1] + b[k]
<1> DEFINE n == Len(b)
           F(s) == s = [k \in 0 .. n |-> IF k = 0 THEN 0 ELSE s[k - 1] + b[k]]
<1>1. n \in Nat /\ \A k \in 1 .. n : b[k] \in Nat
  OBVIOUS
<1> HIDE DEF n
<1>2. \A x, y \in Nat : x + y \in Nat
  OBVIOUS
<1>3. \E s : F(s)
  <2> DEFINE add == [k \in 1 .. n |-> [x \in Nat |-> x + b[k]]]
  <2>1. add \in [1 .. n -> [Nat -> Nat]]
    BY <1>1, <1>2
  <2>2. \A k \in 1 .. n : \A x \in Nat : add[k][x] = x + b[k]
    OBVIOUS
  <2> HIDE DEF add
  <2>3. PICK s : s \in [0 .. n -> Nat] /\ s[0] = 0 /\ \A k \in 1 .. n : s[k] = add[k][s[k - 1]]
    <3>1. 0 \in Nat
      OBVIOUS
    <3>2. \E s : IsRun(s, n, Nat, 0, add)
      BY <1>1, <2>1, <3>1, StepByStep
    <3>3. QED BY <3>2 DEF IsRun
  <2>4. \A k \in 1 .. n : s[k - 1] \in Nat
    BY <1>1, <2>3
  <2>5. \A k \in 1 .. n : s[k] = s[k - 1] + b[k]
    BY <2>2, <2>3, <2>4
  <2>6. \A k \in 0 .. n : s[k] = IF k = 0 THEN 0 ELSE s[k - 1] + b[k]
    BY <1>1, <2>3, <2>5
  <2>7. F(s)
    BY <2>3, <2>6
  <2> HIDE DEF F
  <2>8. QED BY <2>7
<1>4. F(Running(b))
  <2>1. Running(b) = CHOOSE f : F(f)
    BY DEF Running, n
  <2> HIDE DEF F
  <2>2. QED BY <1>3, <2>1
<1>5. PICK s : F(s) /\ s = Running(b)
  BY <1>4
<1>6. s[0] = 0 /\ \A k \in 1 .. n : s[k] = s[k - 1] + b[k]
  BY <1>1, <1>5
<1> HIDE DEF F
<1>7. \A k \in 0 .. n : s[k] \in Nat
  <2> DEFINE T == {k \in 0 .. n : s[k] \in Nat}
  <2>1. 0 \in T
    BY <1>1, <1>6
  <2>2. ASSUME NEW k \in 1 .. n, k - 1 \in T PROVE k \in T
    <3>1. s[k - 1] \in Nat /\ b[k] \in Nat /\ k \in 0 .. n
      BY <1>1, <2>2
    <3>2. s[k - 1] + b[k] \in Nat
      BY <3>1
    <3>3. QED BY <1>6, <3>1, <3>2
  <2>3. 0 .. n \subseteq T
    <3> HIDE DEF T
    <3>1. QED BY <1>1, <2>1, <2>2, UpTo
  <2>4. QED BY <2>3
<1>8. QED BY <1>5, <1>6, <1>7 DEF n

\* The accumulator of the checksum is the plain sum, cut to seven bits.
LEMMA CkAccIsRunning ==
    ASSUME NEW b \in Seq(Nat)
    PROVE  CkAcc(b)[Len(b)] = Running(b)[Len(b)] % 128
<1> DEFINE T == {k \in 0 .. Len(b) : CkAcc(b)[k] = Running(b)[k] % 128}
<1>1. Len(b) \in Nat /\ \A k \in 1 .. Len(b) : b[k] \in Nat
  OBVIOUS
<1>2. 0 \in T
  BY CkAccIs, RunningIs
<1>4. ASSUME NEW k \in 1 .. Len(b), k - 1 \in T PROVE k \in T
  <2>1. k - 1 \in 0 .. Len(b) /\ CkAcc(b)[k - 1] = Running(b)[k - 1] % 128
    BY <1>4
  <2>2. Running(b)[k - 1] \in Nat /\ b[k] \in Nat
    BY <1>1, <2>1, RunningIs
  <2>3. CkAcc(b)[k] = (CkAcc(b)[k - 1] + b[k]) % 128
    BY CkAccIs
  <2>4. Running(b)[k] = Running(b)[k - 1] + b[k]
    BY RunningIs
  <2>5. ((Running(b)[k - 1] % 128) + b[k]) % 128 = (Running(b)[k - 1] + b[k]) % 128
    <3>1. PICK x \in Nat, y \in Nat : x = Running(b)[k - 1] /\ y = b[k]
      BY <2>2
    <3>2. ((x % 128) + y) % 128 = (x + y) % 128
      OBVIOUS
    <3>3. QED BY <3>1, <3>2
  <2>6. CkAcc(b)[k] = Running(b)[k] % 128
    BY <2>1, <2>3, <2>4, <2>5, Zenon
  <2>7. QED BY <2>6
<1>5. 0 .. Len(b) \subseteq T
  <2> HIDE DEF T
  <2>1. QED BY <1>1, <1>2, <1>4, UpTo
<1>6. QED BY <1>1, <1>5

LEMMA OneByteMore ==
    ASSUME NEW b \in Seq(Nat), NEW c \in Nat
    PROVE  Total(Append(b, c)) = Total(b) + c
<1> DEFINE d == Append(b, c)
           T == {k \in 0 .. Len(b) : Running(d)[k] = Running(b)[k]}
<1>1. /\ d \in Seq(Nat) /\ Len(d) = Len(b) + 1 /\ Len(b) \in Nat /\ d[Len(d)] = c
      /\ \A k \in 1 .. Len(b) : d[k] = b[k]
  OBVIOUS
<1> HIDE DEF d
<1>2. 0 \in T
  BY <1>1, RunningIs
<1>3. ASSUME NEW k \in 1 .. Len(b), k - 1 \in T PROVE k \in T
  <2>1. k \in 1 .. Len(d) /\ d[k] = b[k] /\ k \in 0 .. Len(b)
    BY <1>1
  <2>2. Running(d)[k] = Running(d)[k - 1] + d[k]
    BY <1>1, <2>1, RunningIs
  <2>3. Running(b)[k] = Running(b)[k - 1] + b[k]
    BY RunningIs
  <2>4. QED BY <1>3, <2>1, <2>2, <2>3
<1>4. 0 .. Len(b) \subseteq T
  <2> HIDE DEF T
  <2>1. QED BY <1>1, <1>2, <1>3, UpTo
<1>5. Running(d)[Len(b)] = Running(b)[Len(b)]
  BY <1>1, <1>4
<1>6. Running(d)[Len(d)] = Running(d)[Len(d) - 1] + d[Len(d)]
  BY <1>1, RunningIs
<1>7. Len(d) - 1 = Len(b)
  BY <1>1
<1>8. Total(d) = Running(d)[Len(d)] /\ Total(b) = Running(b)[Len(b)]
  BY <1>1, Sums
<1>9. QED BY <1>1, <1>5, <1>6, <1>7, <1>8 DEF d

\* The checksum brings the sum to a multiple of 128.
LEMMA ChecksumCloses ==
    ASSUME NEW b \in Seq(Nat)
    PROVE  /\ RolandChecksum(b) \in 1 .. 128
           /\ RolandChecksum(b) < 128 <=> Total(b) % 128 # 0
           /\ Total(Append(b, RolandChecksum(b))) % 128 = 0
<1>1. Len(b) \in 0 .. Len(b)
  OBVIOUS
<1>2. PICK r \in Nat : r = Running(b)[Len(b)]
  BY <1>1, RunningIs
<1>3. PICK c \in Nat : c = RolandChecksum(b) /\ c = 128 - (r % 128) /\ c \in 1 .. 128
  <2>1. RolandChecksum(b) = 128 - (r % 128)
    BY <1>2, Sums, CkAccIsRunning
  <2>2. 128 - (r % 128) \in 1 .. 128
    OBVIOUS
  <2>3. QED BY <2>1, <2>2
<1>4. Total(Append(b, c)) = r + c /\ Total(b) = r
  BY <1>2, OneByteMore, Sums
<1>5. (r + c) % 128 = 0 /\ (c < 128 <=> r % 128 # 0)
  BY <1>3
<1>6. QED BY <1>3, <1>4, <1>5

-----------------------------------------------------------------------------
(* The messages in the buffer. *)

LEMMA SeqOf ==
    ASSUME NEW n \in Nat, NEW S, NEW f \in [1 .. n -> S]
    PROVE  f \in Seq(S) /\ Len(f) = n
  OBVIOUS

\* A part of a sequence of numbers is the sequence with its elements.
LEMMA PartIs ==
    ASSUME NEW m \in Seq(Nat), NEW i \in 1 .. Len(m) + 1, NEW j \in i - 1 .. Len(m),
           NEW t \in Seq(Nat), Len(t) = j - i + 1,
           \A k \in 1 .. j - i + 1 : t[k] = m[i + k - 1]
    PROVE  SubSeq(m, i, j) = t
<1>1. i \in Int /\ j \in Int
  OBVIOUS
<1>2. \A k \in i .. j : m[k] \in Nat
  <2>1. \A k \in i .. j : k \in 1 .. Len(m)
    OBVIOUS
  <2>2. \A k \in 1 .. Len(m) : m[k] \in Nat
    OBVIOUS
  <2>3. QED BY <2>1, <2>2
<1>3. PICK s : s = SubSeq(m, i, j)
  OBVIOUS
<1>4. /\ s \in Seq(Nat) /\ Len(s) = (IF i <= j THEN j - i + 1 ELSE 0)
      /\ \A k \in 1 .. j - i + 1 : s[k] = m[i + k - 1]
  BY <1>1, <1>2, <1>3, SubSeqProperties
<1>5. Len(s) = j - i + 1
  <2>1. j - i + 1 = 0 \/ i <= j
    OBVIOUS
  <2>2. QED BY <1>4, <2>1
<1>6. s = t
  BY <1>4, <1>5, SeqEqual
<1>7. QED BY <1>3, <1>6

LEMMA ElementsOf ==
    ASSUME NEW S, NEW T, S \subseteq T, NEW s \in Seq(S)
    PROVE  Len(s) \in Nat /\ s \in Seq(T) /\ \A k \in 1 .. Len(s) : s[k] \in S
<1>1. Len(s) \in Nat /\ \A k \in 1 .. Len(s) : s[k] \in S
  OBVIOUS
<1>2. s = [k \in 1 .. Len(s) |-> s[k]]
  OBVIOUS
<1>3. s \in [1 .. Len(s) -> T]
  BY <1>1, <1>2
<1>4. s \in Seq(T)
  BY <1>1, <1>3
<1>5. QED BY <1>1, <1>4

\* (As definitions of their own, for the provers.)
FilledWith(w, buf, n, prefix, data) ==
    w = Copied(Copied(Cleared(buf, n), 0, prefix), 8, data)
Fills(w, n, prefix, data) ==
    /\ \A k \in 1 .. Len(data) : k + 7 \in SysExBuf => w[k + 7] = data[k]
    /\ \A k \in 1 .. Len(prefix) : k - 1 \in SysExBuf => w[k - 1] = prefix[k]
    /\ \A k \in Len(prefix) .. n - 1 :
          k \in SysExBuf /\ k \notin 8 .. 7 + Len(data) => w[k] = 0
ClosedInto(v, m, w, at) == v = Closed(w, at) /\ m = BytesAt(v, 0, at + 2)
Closable(w, at)   == \A k \in 1 .. at - 1 : w[k] < 128
AddsTo128(m)      == Total(SubSeq(m, 6, Len(m) - 2)) % 128 = 0
TakenIf(m, inside) == Taken(m) <=> (inside /\ ~AddsTo128(m))
Carries(m, w, at) == \A k \in 1 .. at : m[k] = w[k - 1]
Header(prefix)    == /\ prefix \in Seq(Nat) /\ 1 <= Len(prefix) /\ Len(prefix) <= 8
                     /\ prefix[1] = 240 /\ \A k \in 2 .. Len(prefix) : prefix[k] < 128
Numbers(data)     == data \in Seq(Nat)
Contents(m, prefix, data, at) ==
    /\ m \in Seq(Nat) /\ Len(m) = at + 2
    /\ \A k \in 1 .. Len(prefix) : m[k] = prefix[k]
    /\ \A k \in 1 .. Len(data) : m[k + 8] = data[k]
    /\ \A k \in Len(prefix) + 1 .. 8 : m[k] = 0
    /\ \A k \in 9 + Len(data) .. at : m[k] = 0

LEMMA InBuf ==
    ASSUME NEW k \in Nat, k <= 73
    PROVE  k \in SysExBuf
  BY DEF SysExBuf

\* What closing the buffer makes of it.
LEMMA ClosedMessage ==
    ASSUME NEW w \in [SysExBuf -> Nat], NEW at \in Nat, 8 <= at, at <= 72,
           w[0] = 240, NEW v, NEW m, ClosedInto(v, m, w, at)
    PROVE  /\ v \in [SysExBuf -> Nat]
           /\ TakenIf(m, Closable(w, at)) /\ m \in Seq(Nat) /\ Len(m) = at + 2
           /\ Carries(m, w, at)
<1> DEFINE b == BytesAt(w, 5, at - 5)
           c == RolandChecksum(b)
<1>1. /\ at \in Int /\ 8 <= at /\ at <= 72 /\ at - 5 \in Nat /\ at + 2 \in Nat
      /\ \A k \in 1 .. at + 2 : k - 1 \in SysExBuf
      /\ \A k \in 1 .. at - 5 : 5 + k - 1 = k + 4 /\ k + 4 \in SysExBuf
  <2>1. ASSUME NEW k \in 1 .. at + 2 PROVE k - 1 \in SysExBuf
    <3>1. k - 1 \in Nat /\ k - 1 <= 73
      OBVIOUS
    <3>2. QED BY <3>1, InBuf
  <2>2. ASSUME NEW k \in 1 .. at - 5 PROVE 5 + k - 1 = k + 4 /\ k + 4 \in SysExBuf
    <3>1. 5 + k - 1 = k + 4 /\ k + 4 \in Nat /\ k + 4 <= 73
      OBVIOUS
    <3>2. QED BY <3>1, InBuf
  <2>3. QED BY <2>1, <2>2
<1>2. b \in Seq(Nat) /\ Len(b) = at - 5 /\ \A k \in 1 .. at - 5 : b[k] = w[k + 4]
  <2>1. b = [k \in 1 .. at - 5 |-> w[5 + k - 1]]
    BY DEF BytesAt
  <2>2. \A k \in 1 .. at - 5 : b[k] = w[k + 4] /\ w[k + 4] \in Nat
    BY <1>1, <2>1
  <2>3. b \in [1 .. at - 5 -> Nat]
    BY <1>1, <2>1, <2>2
  <2> HIDE DEF b
  <2>4. b \in Seq(Nat) /\ Len(b) = at - 5
    BY <1>1, <2>3, SeqOf
  <2>5. QED BY <2>2, <2>4
<1> HIDE DEF b
<1>3. c \in 1 .. 128 /\ Total(Append(b, c)) % 128 = 0 /\ (c < 128 <=> Total(b) % 128 # 0)
  BY <1>2, ChecksumCloses
<1>4. /\ v \in [SysExBuf -> Nat] /\ v[at + 1] = 247 /\ v[at] = c
      /\ \A k \in SysExBuf : k # at /\ k # at + 1 => v[k] = w[k]
  <2>1. v = [[w EXCEPT ![at] = c] EXCEPT ![at + 1] = 247]
    BY DEF ClosedInto, Closed, b, c
  <2>2. at \in SysExBuf /\ at + 1 \in SysExBuf /\ at # at + 1
    BY <1>1, InBuf
  <2>3. c \in Nat
    BY <1>3
  <2> HIDE DEF c
  <2>4. QED BY <2>1, <2>2, <2>3
<1> HIDE DEF c
<1>5. ASSUME NEW k \in 1 .. at + 2 PROVE m[k] = v[k - 1]
  <2>1. 0 + k - 1 = k - 1
    BY <1>1
  <2>2. m = [i \in 1 .. at + 2 |-> v[0 + i - 1]]
    BY DEF ClosedInto, BytesAt
  <2>3. m[k] = v[0 + k - 1]
    BY <2>2
  <2>4. QED BY <2>1, <2>3
<1>6. m \in [1 .. at + 2 -> Nat]
  <2>1. m = [i \in 1 .. at + 2 |-> m[i]]
    BY DEF ClosedInto, BytesAt
  <2>2. ASSUME NEW k \in 1 .. at + 2 PROVE m[k] \in Nat
    BY <1>1, <1>4, <1>5
  <2>3. QED BY <2>1, <2>2
<1>7. m \in Seq(Nat) /\ Len(m) = at + 2
  BY <1>1, <1>6, SeqOf
<1>8. ASSUME NEW k \in 1 .. at PROVE m[k] = w[k - 1]
  <2>1. k \in 1 .. at + 2 /\ k - 1 \in SysExBuf /\ k - 1 # at /\ k - 1 # at + 1
    BY <1>1
  <2>2. QED BY <1>4, <1>5, <2>1
<1>9. m[at + 1] = c /\ m[at + 2] = 247
  <2>1. /\ at + 1 \in 1 .. at + 2 /\ at + 1 - 1 = at
        /\ at + 2 \in 1 .. at + 2 /\ at + 2 - 1 = at + 1
    BY <1>1
  <2>2. m[at + 1] = v[at + 1 - 1] /\ m[at + 2] = v[at + 2 - 1]
    BY <1>5, <2>1
  <2>3. QED BY <1>4, <2>1, <2>2
<1>10. SubSeq(m, 6, at + 1) = Append(b, c)
  <2> DEFINE t == Append(b, c)
  <2>1. t \in Seq(Nat) /\ Len(t) = at - 4 /\ t[at - 4] = c
        /\ \A k \in 1 .. at - 5 : t[k] = b[k]
    BY <1>1, <1>2, <1>3
  <2> HIDE DEF t
  <2>2. ASSUME NEW k \in 1 .. at - 4 PROVE t[k] = m[6 + k - 1]
    <3>1. 6 + k - 1 = k + 5
      BY <1>1
    <3>2. CASE k = at - 4
      BY <1>1, <1>9, <2>1, <3>1, <3>2
    <3>3. CASE k \in 1 .. at - 5
      BY <1>1, <1>2, <1>8, <2>1, <3>1, <3>3
    <3>4. QED BY <1>1, <3>2, <3>3
  <2>3. 6 \in 1 .. Len(m) + 1 /\ at + 1 \in 6 - 1 .. Len(m) /\ (at + 1) - 6 + 1 = at - 4
    BY <1>1, <1>7
  <2>4. SubSeq(m, 6, at + 1) = t
    BY <1>7, <2>1, <2>2, <2>3, PartIs
  <2>5. QED BY <2>4 DEF t
<1>11. SubSeq(m, 6, at) = b
  <2>1. 6 \in 1 .. Len(m) + 1 /\ at \in 6 - 1 .. Len(m) /\ at - 6 + 1 = at - 5
    BY <1>1, <1>7
  <2>2. ASSUME NEW k \in 1 .. at - 5 PROVE b[k] = m[6 + k - 1]
    <3>1. 6 + k - 1 = k + 5 /\ k + 5 \in 1 .. at /\ k + 5 - 1 = k + 4
      BY <1>1
    <3>2. QED BY <1>2, <1>8, <3>1
  <2>3. QED BY <1>2, <1>7, <2>1, <2>2, PartIs
<1>12. SevenBit(SubSeq(m, 2, at + 1)) <=> Closable(w, at) /\ c < 128
  <2>1. PICK t : t = SubSeq(m, 2, at + 1)
    OBVIOUS
  <2>2. \A k \in 2 .. at + 1 : m[k] \in Nat
    <3>1. \A k \in 2 .. at + 1 : k \in 1 .. Len(m)
      BY <1>1, <1>7
    <3>2. QED BY <1>7, <3>1
  <2>3. /\ t \in Seq(Nat) /\ Len(t) = (IF 2 <= at + 1 THEN (at + 1) - 2 + 1 ELSE 0)
        /\ \A k \in 1 .. (at + 1) - 2 + 1 : t[k] = m[2 + k - 1]
    <3>1. 2 \in Int /\ at + 1 \in Int
      BY <1>1
    <3>2. QED BY <2>1, <2>2, <3>1, SubSeqProperties
  <2>4. DOMAIN t = 1 .. at /\ \A k \in 1 .. at : t[k] = m[k + 1]
    <3>1. (at + 1) - 2 + 1 = at /\ 2 <= at + 1 /\ \A k \in 1 .. at : 2 + k - 1 = k + 1
      BY <1>1
    <3>2. QED BY <2>3, <3>1
  <2>5. t[at] = c /\ \A k \in 1 .. at - 1 : t[k] = w[k]
    <3>1. at \in 1 .. at
      BY <1>1
    <3>2. t[at] = m[at + 1]
      BY <2>4, <3>1
    <3>3. ASSUME NEW k \in 1 .. at - 1 PROVE t[k] = w[k]
      <4>1. k \in 1 .. at /\ k + 1 \in 1 .. at /\ k + 1 - 1 = k
        BY <1>1
      <4>2. m[k + 1] = w[k + 1 - 1]
        BY <1>8, <4>1
      <4>3. QED BY <2>4, <4>1, <4>2
    <3>4. QED BY <1>9, <3>2, <3>3
  <2>6. SevenBit(t) <=> \A k \in 1 .. at : t[k] < 128
    BY <2>4 DEF SevenBit
  <2>7. /\ at \in 1 .. at /\ \A k \in 1 .. at - 1 : k \in 1 .. at
        /\ \A k \in 1 .. at : k \in 1 .. at - 1 \/ k = at
    BY <1>1
  <2>8. (\A k \in 1 .. at : t[k] < 128) <=> (\A k \in 1 .. at - 1 : t[k] < 128) /\ t[at] < 128
    <3>1. ASSUME \A k \in 1 .. at : t[k] < 128
          PROVE  (\A k \in 1 .. at - 1 : t[k] < 128) /\ t[at] < 128
      BY <2>7, <3>1
    <3>2. ASSUME \A k \in 1 .. at - 1 : t[k] < 128, t[at] < 128, NEW k \in 1 .. at
          PROVE  t[k] < 128
      BY <2>7, <3>2
    <3>3. QED BY <3>1, <3>2
  <2>9. (\A k \in 1 .. at - 1 : t[k] < 128) <=> Closable(w, at)
    BY <2>5 DEF Closable
  <2>10. QED BY <2>1, <2>5, <2>6, <2>8, <2>9
<1>13. TakenIf(m, Closable(w, at))
  <2>1. Len(m) - 1 = at + 1 /\ Len(m) - 2 = at
    BY <1>1, <1>7
  <2>2. m[1] = 240 /\ m[Len(m)] = 247
    <3>1. 1 \in 1 .. at /\ 1 - 1 = 0
      BY <1>1
    <3>2. m[1] = w[1 - 1]
      BY <1>8, <3>1
    <3>3. QED BY <1>7, <1>9, <3>1, <3>2
  <2>3. Total(SubSeq(m, 6, Len(m) - 1)) % 128 = 0
    BY <1>3, <1>10, <2>1
  <2>4. Taken(m) <=> SevenBit(SubSeq(m, 2, at + 1))
    BY <2>1, <2>2, <2>3 DEF Taken
  <2>5. AddsTo128(m) <=> ~(c < 128)
    BY <1>3, <1>11, <2>1 DEF AddsTo128
  <2>6. QED BY <1>12, <2>4, <2>5, Zenon DEF TakenIf
<1>14. Carries(m, w, at)
  BY <1>8 DEF Carries
<1>15. QED BY <1>4, <1>7, <1>14, <1>13

\* The buffer before it is closed: the header, the data, and else cleared.
LEMMA FilledAt ==
    ASSUME NEW buf, NEW n, NEW prefix, NEW data, NEW k \in SysExBuf
    PROVE  Copied(Copied(Cleared(buf, n), 0, prefix), 8, data)[k] =
              IF k - 8 + 1 \in DOMAIN data THEN data[k - 8 + 1]
              ELSE IF k - 0 + 1 \in DOMAIN prefix THEN prefix[k - 0 + 1]
              ELSE IF k < n THEN 0 ELSE buf[k]
  BY DEF Copied, Cleared

LEMMA Filled ==
    ASSUME NEW buf \in [SysExBuf -> Nat], NEW n \in Nat,
           NEW prefix \in Seq(Nat), NEW data \in Seq(Nat), Len(prefix) <= 8,
           NEW w, FilledWith(w, buf, n, prefix, data)
    PROVE  w \in [SysExBuf -> Nat] /\ Fills(w, n, prefix, data)
<1>1. /\ DOMAIN prefix = 1 .. Len(prefix) /\ DOMAIN data = 1 .. Len(data)
      /\ Len(prefix) \in Nat /\ Len(data) \in Nat
      /\ \A k \in 1 .. Len(prefix) : prefix[k] \in Nat
      /\ \A k \in 1 .. Len(data) : data[k] \in Nat
  OBVIOUS
<1>2. \A k \in SysExBuf : k \in Nat
  BY DEF SysExBuf
<1>3. ASSUME NEW k \in Nat, k \in SysExBuf
      PROVE  w[k] = IF k - 7 \in 1 .. Len(data) THEN data[k - 7]
                    ELSE IF k + 1 \in 1 .. Len(prefix) THEN prefix[k + 1]
                    ELSE IF k < n THEN 0 ELSE buf[k]
  <2>1. k - 8 + 1 = k - 7 /\ k - 0 + 1 = k + 1
    OBVIOUS
  <2>2. w[k] = IF k - 8 + 1 \in DOMAIN data THEN data[k - 8 + 1]
               ELSE IF k - 0 + 1 \in DOMAIN prefix THEN prefix[k - 0 + 1]
               ELSE IF k < n THEN 0 ELSE buf[k]
    BY <1>3, FilledAt DEF FilledWith
  <2>3. QED BY <1>1, <2>1, <2>2
<1>4. ASSUME NEW k \in SysExBuf PROVE w[k] \in Nat
  <2>1. buf[k] \in Nat /\ k \in Nat
    BY <1>2
  <2>2. CASE k - 7 \in 1 .. Len(data)
    BY <1>1, <1>3, <2>1, <2>2
  <2>3. CASE k - 7 \notin 1 .. Len(data) /\ k + 1 \in 1 .. Len(prefix)
    BY <1>1, <1>3, <2>1, <2>3
  <2>4. CASE k - 7 \notin 1 .. Len(data) /\ k + 1 \notin 1 .. Len(prefix)
    BY <1>3, <2>1, <2>4
  <2>5. QED BY <2>2, <2>3, <2>4
<1>5. w \in [SysExBuf -> Nat]
  <2>1. w = [k \in SysExBuf |-> w[k]]
    BY DEF FilledWith, Copied
  <2>2. QED BY <1>4, <2>1
<1>6. ASSUME NEW k \in 1 .. Len(data), k + 7 \in SysExBuf PROVE w[k + 7] = data[k]
  <2>1. k + 7 \in Nat /\ k + 7 - 7 = k
    BY <1>1
  <2>2. QED BY <1>3, <1>6, <2>1
<1>7. ASSUME NEW k \in 1 .. Len(prefix), k - 1 \in SysExBuf PROVE w[k - 1] = prefix[k]
  <2>1. k - 1 \in Nat /\ k - 1 + 1 = k /\ k - 1 - 7 \notin 1 .. Len(data)
    BY <1>1
  <2>2. QED BY <1>3, <1>7, <2>1
<1>8. ASSUME NEW k \in Len(prefix) .. n - 1, k \in SysExBuf, k \notin 8 .. 7 + Len(data)
      PROVE  w[k] = 0
  <2>1. k \in Nat /\ k - 7 \notin 1 .. Len(data) /\ k + 1 \notin 1 .. Len(prefix) /\ k < n
    BY <1>1, <1>8
  <2>2. QED BY <1>3, <1>8, <2>1
<1>9. QED BY <1>5, <1>6, <1>7, <1>8 DEF Fills

\* The whole message: header, data, padding, checksum and end.
LEMMA MessageIs ==
    ASSUME NEW buf \in [SysExBuf -> Nat], NEW n \in Nat,
           NEW prefix, Header(prefix), NEW data, Numbers(data), NEW at \in Nat,
           8 + Len(data) <= at, at <= n, at <= 72,
           NEW w, FilledWith(w, buf, n, prefix, data),
           NEW v, NEW m, ClosedInto(v, m, w, at)
    PROVE  /\ v \in [SysExBuf -> Nat] /\ TakenIf(m, SevenBit(data))
           /\ Contents(m, prefix, data, at)
<1>0. /\ prefix \in Seq(Nat) /\ 1 <= Len(prefix) /\ Len(prefix) <= 8
      /\ prefix[1] = 240 /\ \A k \in 2 .. Len(prefix) : prefix[k] < 128
      /\ data \in Seq(Nat)
  BY DEF Header, Numbers
<1>1. w \in [SysExBuf -> Nat] /\ Fills(w, n, prefix, data)
  BY <1>0, Filled
<1>2. Len(prefix) \in Nat /\ Len(data) \in Nat /\ 1 <= Len(prefix) /\ Len(prefix) <= 8
  BY <1>0
<1>3. ASSUME NEW k \in Nat, k < at PROVE k \in SysExBuf
  BY <1>3, InBuf
<1>4. ASSUME NEW k \in 1 .. Len(prefix) PROVE w[k - 1] = prefix[k]
  <2>1. k - 1 \in Nat /\ k - 1 < at
    BY <1>2
  <2>2. k - 1 \in SysExBuf
    BY <1>3, <2>1
  <2>3. QED BY <1>1, <2>2 DEF Fills
<1>5. ASSUME NEW k \in 1 .. Len(data) PROVE w[k + 7] = data[k]
  <2>1. k + 7 \in Nat /\ k + 7 < at
    BY <1>2
  <2>2. k + 7 \in SysExBuf
    BY <1>3, <2>1
  <2>3. QED BY <1>1, <2>2 DEF Fills
<1>6. ASSUME NEW k \in Len(prefix) .. at - 1, k \notin 8 .. 7 + Len(data) PROVE w[k] = 0
  <2>1. k \in Nat /\ k < at /\ k \in Len(prefix) .. n - 1
    BY <1>2
  <2>2. k \in SysExBuf
    BY <1>3, <2>1
  <2>3. QED BY <1>1, <1>6, <2>1, <2>2 DEF Fills
<1>7. w[0] = 240
  <2>1. 1 \in 1 .. Len(prefix) /\ 1 - 1 = 0
    BY <1>2
  <2>2. QED BY <1>0, <1>4, <2>1
<1>8. ASSUME SevenBit(data), NEW k \in 1 .. at - 1 PROVE w[k] < 128
  <2>1. CASE k < Len(prefix)
    <3>1. k + 1 \in 2 .. Len(prefix) /\ k + 1 \in 1 .. Len(prefix) /\ k + 1 - 1 = k
      BY <1>2, <2>1
    <3>2. w[k] = prefix[k + 1] /\ prefix[k + 1] < 128
      BY <1>0, <1>4, <3>1
    <3>3. QED BY <3>2
  <2>2. CASE k \in 8 .. 7 + Len(data)
    <3>1. k - 7 \in 1 .. Len(data) /\ k - 7 + 7 = k
      BY <1>2, <2>2
    <3>2. w[k] = data[k - 7] /\ data[k - 7] < 128
      <4>1. \A i \in 1 .. Len(data) : data[i] < 128
        BY <1>0, <1>8 DEF SevenBit
      <4>2. PICK i \in 1 .. Len(data) : i = k - 7 /\ i + 7 = k
        BY <3>1
      <4>3. w[i + 7] = data[i] /\ data[i] < 128
        BY <1>5, <4>1
      <4>4. QED BY <4>2, <4>3
    <3>3. QED BY <3>2
  <2>3. CASE k >= Len(prefix) /\ k \notin 8 .. 7 + Len(data)
    <3>1. k \in Len(prefix) .. at - 1
      BY <1>2, <2>3
    <3>2. w[k] = 0
      BY <1>6, <2>3, <3>1
    <3>3. QED BY <3>2
  <2>4. QED BY <1>2, <2>1, <2>2, <2>3
<1>9. ASSUME Closable(w, at), NEW k \in DOMAIN data PROVE data[k] < 128
  <2>1. k \in 1 .. Len(data) /\ k + 7 \in 1 .. at - 1
    <3>1. DOMAIN data = 1 .. Len(data)
      BY <1>0
    <3>2. k \in 1 .. Len(data)
      BY <3>1
    <3>3. QED BY <1>2, <3>2
  <2>2. w[k + 7] = data[k] /\ w[k + 7] < 128
    BY <1>5, <1>9, <2>1 DEF Closable
  <2>3. QED BY <2>2
<1>10. Closable(w, at) <=> SevenBit(data)
  BY <1>8, <1>9 DEF Closable, SevenBit
<1>11. /\ TakenIf(m, SevenBit(data)) /\ m \in Seq(Nat) /\ Len(m) = at + 2
      /\ v \in [SysExBuf -> Nat]
      /\ \A k \in 1 .. at : m[k] = w[k - 1]
  <2>1. 8 <= at
    BY <1>2
  <2>3. w \in [SysExBuf -> Nat]
    BY <1>1
  <2>4. v \in [SysExBuf -> Nat] /\ TakenIf(m, Closable(w, at)) /\ m \in Seq(Nat)
        /\ Len(m) = at + 2 /\ Carries(m, w, at)
    BY <1>7, <2>1, <2>3, ClosedMessage
  <2>5. QED BY <1>10, <2>4, Zenon DEF Carries, TakenIf
<1>12. ASSUME NEW k \in 1 .. Len(prefix) PROVE m[k] = prefix[k]
  <2>1. k \in 1 .. at
    BY <1>2
  <2>2. QED BY <1>4, <1>11, <2>1
<1>13. ASSUME NEW k \in 1 .. Len(data) PROVE m[k + 8] = data[k]
  <2>1. k + 8 \in 1 .. at /\ k + 8 - 1 = k + 7
    BY <1>2
  <2>2. QED BY <1>5, <1>11, <2>1
<1>14. ASSUME NEW k \in 1 .. at,
              k \in Len(prefix) + 1 .. 8 \/ k \in 9 + Len(data) .. at
       PROVE  m[k] = 0
  <2>1. k - 1 \in Len(prefix) .. at - 1 /\ k - 1 \notin 8 .. 7 + Len(data)
    BY <1>2, <1>14
  <2>2. w[k - 1] = 0
    BY <1>6, <2>1
  <2>3. QED BY <1>11, <2>2
<1>15. /\ \A k \in Len(prefix) + 1 .. 8 : k \in 1 .. at
       /\ \A k \in 9 + Len(data) .. at : k \in 1 .. at
  BY <1>2
<1>16. \A k \in Len(prefix) + 1 .. 8 : m[k] = 0
  BY <1>14, <1>15
<1>17. \A k \in 9 + Len(data) .. at : m[k] = 0
  BY <1>14, <1>15
<1>18. (\A k \in 1 .. Len(prefix) : m[k] = prefix[k]) /\ \A k \in 1 .. Len(data) : m[k + 8] = data[k]
  BY <1>12, <1>13
<1>19. QED BY <1>11, <1>16, <1>17, <1>18, Zenon DEF Contents

LEMMA Headers ==
    /\ Header(Mt32Prefix) /\ Len(Mt32Prefix) = 6 /\ Mt32Prefix[4] = 22
    /\ Header(Sc55Prefix) /\ Len(Sc55Prefix) = 6 /\ Sc55Prefix[4] = 69
    /\ Header(PicturePrefix) /\ Len(PicturePrefix) = 7 /\ PicturePrefix[4] = 69
    /\ PicturePrefix[7] = 1
<1>1. ASSUME NEW k \in 2 .. 6 PROVE Mt32Prefix[k] < 128 /\ Sc55Prefix[k] < 128
  <2>1. k = 2 \/ k = 3 \/ k = 4 \/ k = 5 \/ k = 6
    OBVIOUS
  <2>2. QED BY <2>1 DEF Mt32Prefix, Sc55Prefix
<1>2. /\ Mt32Prefix \in Seq(Nat) /\ Len(Mt32Prefix) = 6 /\ Mt32Prefix[4] = 22
      /\ Mt32Prefix[1] = 240
      /\ Sc55Prefix \in Seq(Nat) /\ Len(Sc55Prefix) = 6 /\ Sc55Prefix[4] = 69
      /\ Sc55Prefix[1] = 240
  BY DEF Mt32Prefix, Sc55Prefix
<1>3. /\ PicturePrefix \in Seq(Nat) /\ Len(PicturePrefix) = 7 /\ PicturePrefix[7] = 1
      /\ PicturePrefix[1] = 240 /\ PicturePrefix[4] = 69
  BY DEF PicturePrefix
<1>4. ASSUME NEW k \in 2 .. 7 PROVE PicturePrefix[k] < 128
  <2>1. k = 2 \/ k = 3 \/ k = 4 \/ k = 5 \/ k = 6 \/ k = 7
    OBVIOUS
  <2>2. QED BY <2>1 DEF PicturePrefix
<1>5. Header(Mt32Prefix) /\ Header(Sc55Prefix)
  BY <1>1, <1>2 DEF Header
<1>6. Header(PicturePrefix) /\ PicturePrefix[4] = 69
  BY <1>2, <1>3, <1>4 DEF Header
<1>7. QED BY <1>2, <1>3, <1>5, <1>6

\* A text for an MT-32.
LEMMA Mt32Message ==
    ASSUME NEW buf \in [SysExBuf -> Nat], NEW text, Numbers(text), Len(text) <= 20
    PROVE  /\ Mt32Display(buf, text) \in [SysExBuf -> Nat]
           /\ TakenIf(BytesAt(Mt32Display(buf, text), 0, 30), SevenBit(text))
           /\ Contents(BytesAt(Mt32Display(buf, text), 0, 30), Mt32Prefix, text, 28)
<1>1. PICK n \in Nat : n = 30
  OBVIOUS
<1>2. PICK at \in Nat : at = 28
  OBVIOUS
<1>3. Len(text) \in Nat
  BY DEF Numbers
<1>4. 8 + Len(text) <= at /\ at <= n /\ at <= 72 /\ at + 2 = 30
  BY <1>1, <1>2, <1>3
<1>5. PICK w : FilledWith(w, buf, n, Mt32Prefix, text)
  BY DEF FilledWith
<1>6. PICK v, m : ClosedInto(v, m, w, at)
  BY DEF ClosedInto
<1>7. v \in [SysExBuf -> Nat] /\ TakenIf(m, SevenBit(text)) /\ Contents(m, Mt32Prefix, text, at)
  BY <1>4, <1>5, <1>6, Headers, MessageIs
<1>8. v = Mt32Display(buf, text) /\ m = BytesAt(v, 0, 30)
  BY <1>1, <1>2, <1>4, <1>5, <1>6 DEF Mt32Display, FilledWith, ClosedInto
<1>9. QED BY <1>2, <1>7, <1>8

\* A text for an SC-55.
LEMMA Sc55Message ==
    ASSUME NEW buf \in [SysExBuf -> Nat], NEW text, Numbers(text), Len(text) <= 32
    PROVE  /\ Sc55Display(buf, text) \in [SysExBuf -> Nat]
           /\ TakenIf(BytesAt(Sc55Display(buf, text), 0, Len(text) + 10), SevenBit(text))
           /\ Contents(BytesAt(Sc55Display(buf, text), 0, Len(text) + 10),
                       Sc55Prefix, text, 8 + Len(text))
<1>1. PICK n \in Nat : n = 42
  OBVIOUS
<1>2. Len(text) \in Nat
  BY DEF Numbers
<1>3. PICK at \in Nat : at = 8 + Len(text)
  BY <1>2
<1>4. 8 + Len(text) <= at /\ at <= n /\ at <= 72 /\ at + 2 = Len(text) + 10
  BY <1>1, <1>2, <1>3
<1>5. PICK w : FilledWith(w, buf, n, Sc55Prefix, text)
  BY DEF FilledWith
<1>6. PICK v, m : ClosedInto(v, m, w, at)
  BY DEF ClosedInto
<1>7. v \in [SysExBuf -> Nat] /\ TakenIf(m, SevenBit(text)) /\ Contents(m, Sc55Prefix, text, at)
  BY <1>4, <1>5, <1>6, Headers, MessageIs
<1>8. v = Sc55Display(buf, text) /\ m = BytesAt(v, 0, Len(text) + 10)
  BY <1>1, <1>3, <1>4, <1>5, <1>6 DEF Sc55Display, FilledWith, ClosedInto
<1>9. QED BY <1>3, <1>7, <1>8

-----------------------------------------------------------------------------
(* Pictures. *)

IsByte(x)      == x \in Nat /\ x <= 255
Row(row)     == IsByte(row[1]) /\ IsByte(row[2])
Picture(rows) == \A y \in 0 .. 15 : Row(rows[y])

\* What the sixteen pixels of two bytes become: five, five, five and one.
LEMMA ColumnsAre ==
    ASSUME NEW row, Row(row), NEW c, c = Columns(row)
    PROVE  /\ c[1] \in Nat /\ c[1] <= 31 /\ c[2] \in Nat /\ c[2] <= 31
           /\ c[3] \in Nat /\ c[3] <= 31 /\ (c[4] = 0 \/ c[4] = 16)
<1>1. PICK a \in Nat : a = row[1] /\ a <= 255
  BY DEF Row, IsByte
<1>2. PICK b \in Nat : b = row[2] /\ b <= 255
  BY DEF Row, IsByte
<1>3. c = <<a \div 8, (a % 8) * 4 + b \div 64, (b \div 2) % 32, (b % 2) * 16>>
  BY <1>1, <1>2 DEF Columns
<1>4. a \div 8 \in Nat /\ a \div 8 <= 31
  BY <1>1
<1>5. (a % 8) * 4 + b \div 64 \in Nat /\ (a % 8) * 4 + b \div 64 <= 31
  BY <1>2
<1>6. (b \div 2) % 32 \in Nat /\ (b \div 2) % 32 <= 31
  OBVIOUS
<1>7. (b % 2) * 16 = 0 \/ (b % 2) * 16 = 16
  OBVIOUS
<1>8. /\ c[1] = a \div 8 /\ c[2] = (a % 8) * 4 + b \div 64
      /\ c[3] = (b \div 2) % 32 /\ c[4] = (b % 2) * 16
  BY <1>3
<1>9. QED BY <1>4, <1>5, <1>6, <1>7, <1>8

\* The picture is inverted within its pixels.
LEMMA InvertedAre ==
    ASSUME NEW row, Row(row), NEW c, c = Columns(row), NEW d, d = Inverted(c)
    PROVE  /\ d[1] = 31 - c[1] /\ d[2] = 31 - c[2] /\ d[3] = 31 - c[3] /\ d[4] = 16 - c[4]
           /\ d[1] \in Nat /\ d[1] <= 31 /\ d[2] \in Nat /\ d[2] <= 31
           /\ d[3] \in Nat /\ d[3] <= 31 /\ (d[4] = 0 \/ d[4] = 16)
<1>1. /\ c[1] \in Nat /\ c[1] <= 31 /\ c[2] \in Nat /\ c[2] <= 31
      /\ c[3] \in Nat /\ c[3] <= 31 /\ (c[4] = 0 \/ c[4] = 16)
  BY ColumnsAre
<1>2. d[1] = 31 - c[1] /\ d[2] = 31 - c[2] /\ d[3] = 31 - c[3] /\ d[4] = 16 - c[4]
  BY DEF Inverted
<1>3. QED BY <1>1, <1>2

ColumnsOf(rows, negative) ==
    [y \in 0 .. 15 |-> IF negative THEN Inverted(Columns(rows[y])) ELSE Columns(rows[y])]

LEMMA ColumnBytes ==
    ASSUME NEW rows, Picture(rows), NEW negative \in BOOLEAN, NEW y \in 0 .. 15, NEW i \in 1 .. 4
    PROVE  /\ ColumnsOf(rows, negative)[y][i] \in Nat
           /\ ColumnsOf(rows, negative)[y][i] < 128
<1>1. PICK row : row = rows[y] /\ Row(row)
  BY DEF Picture
<1>2. PICK c : c = Columns(row)
  OBVIOUS
<1>3. PICK d : d = Inverted(c)
  OBVIOUS
<1>4. i = 1 \/ i = 2 \/ i = 3 \/ i = 4
  OBVIOUS
<1>5. c[i] \in Nat /\ c[i] < 128
  BY <1>1, <1>2, <1>4, ColumnsAre
<1>6. d[i] \in Nat /\ d[i] < 128
  BY <1>1, <1>2, <1>3, <1>4, InvertedAre
<1>7. ColumnsOf(rows, negative)[y] = IF negative THEN d ELSE c
  BY <1>1, <1>2, <1>3 DEF ColumnsOf
<1>8. QED BY <1>5, <1>6, <1>7

\* Sixteen bytes for the first column, sixteen for the second, ...
ColumnData(rows, negative) ==
    [k \in 1 .. 64 |-> ColumnsOf(rows, negative)[(k - 1) % 16][(k - 1) \div 16 + 1]]

LEMMA ColumnDataIs ==
    ASSUME NEW rows, Picture(rows), NEW negative \in BOOLEAN,
           NEW data, data = ColumnData(rows, negative)
    PROVE  /\ Numbers(data) /\ SevenBit(data) /\ Len(data) = 64
           /\ \A x \in 0 .. 3, y \in 0 .. 15 :
                 data[1 + 16 * x + y] = ColumnsOf(rows, negative)[y][x + 1]
<1>1. PICK n \in Nat : n = 64
  OBVIOUS
<1>2. PICK cols : cols = ColumnsOf(rows, negative)
  OBVIOUS
<1>3. data = [k \in 1 .. n |-> cols[(k - 1) % 16][(k - 1) \div 16 + 1]]
  BY <1>1, <1>2 DEF ColumnData
<1>4. ASSUME NEW k \in 1 .. n
      PROVE  data[k] \in Nat /\ data[k] < 128
  <2>1. PICK y \in 0 .. 15 : y = (k - 1) % 16
    OBVIOUS
  <2>2. PICK i \in 1 .. 4 : i = (k - 1) \div 16 + 1
    <3>1. k - 1 \in Nat /\ k - 1 <= 63
      BY <1>1
    <3>2. (k - 1) \div 16 + 1 \in 1 .. 4
      BY <3>1
    <3>3. QED BY <3>2
  <2>3. data[k] = cols[y][i]
    BY <1>3, <2>1, <2>2
  <2>4. QED BY <1>2, <2>3, ColumnBytes
<1>5. data \in Seq(Nat) /\ Len(data) = n
  <2>1. data = [k \in 1 .. n |-> data[k]]
    BY <1>3
  <2>2. data \in [1 .. n -> Nat]
    BY <1>4, <2>1
  <2>3. QED BY <2>2, SeqOf
<1>6. Numbers(data) /\ SevenBit(data)
  <2>1. DOMAIN data = 1 .. n
    BY <1>5
  <2>2. QED BY <1>4, <1>5, <2>1 DEF Numbers, SevenBit
<1>7. ASSUME NEW x \in 0 .. 3, NEW y \in 0 .. 15
      PROVE  data[1 + 16 * x + y] = cols[y][x + 1]
  <2>1. PICK k \in 1 .. n : k = 1 + 16 * x + y
    <3>1. 1 + 16 * x + y \in 1 .. n
      BY <1>1
    <3>2. QED BY <3>1
  <2>2. (k - 1) % 16 = y /\ (k - 1) \div 16 = x
    BY <2>1
  <2>3. data[k] = cols[(k - 1) % 16][(k - 1) \div 16 + 1]
    BY <1>3
  <2>4. QED BY <2>1, <2>2, <2>3
<1>8. QED BY <1>1, <1>2, <1>5, <1>6, <1>7

LEMMA PictureMessage ==
    ASSUME NEW buf \in [SysExBuf -> Nat], NEW rows, Picture(rows), NEW negative \in BOOLEAN
    PROVE  /\ PictureDisplay(buf, rows, negative) \in [SysExBuf -> Nat]
           /\ TakenIf(BytesAt(PictureDisplay(buf, rows, negative), 0, 74), TRUE)
           /\ Contents(BytesAt(PictureDisplay(buf, rows, negative), 0, 74),
                       PicturePrefix, ColumnData(rows, negative), 72)
<1>1. PICK n \in Nat : n = 74
  OBVIOUS
<1>2. PICK at \in Nat : at = 72
  OBVIOUS
<1>3. PICK data : data = ColumnData(rows, negative)
  OBVIOUS
<1>4. Numbers(data) /\ SevenBit(data) /\ Len(data) = 64
  BY <1>3, ColumnDataIs
<1>5. 8 + Len(data) <= at /\ at <= n /\ at <= 72 /\ at + 2 = 74
  BY <1>1, <1>2, <1>4
<1>6. PICK w : FilledWith(w, buf, n, PicturePrefix, data)
  BY DEF FilledWith
<1>7. PICK v, m : ClosedInto(v, m, w, at)
  BY DEF ClosedInto
<1>8. v \in [SysExBuf -> Nat] /\ TakenIf(m, TRUE) /\ Contents(m, PicturePrefix, data, at)
  <2>1. v \in [SysExBuf -> Nat] /\ TakenIf(m, SevenBit(data)) /\ Contents(m, PicturePrefix, data, at)
    BY <1>4, <1>5, <1>6, <1>7, Headers, MessageIs
  <2>2. QED BY <1>4, <2>1, Zenon DEF TakenIf
<1>9. v = Closed(Copied(Copied(Cleared(buf, 74), 0, PicturePrefix), 8, data), 72)
  BY <1>1, <1>2, <1>6, <1>7 DEF FilledWith, ClosedInto
<1>10. v = PictureDisplay(buf, rows, negative) /\ m = BytesAt(v, 0, 74)
  <2>1. m = BytesAt(v, 0, 74)
    BY <1>2, <1>5, <1>7 DEF ClosedInto
  <2>2. v = PictureDisplay(buf, rows, negative)
    BY <1>3, <1>9 DEF PictureDisplay, ColumnData, ColumnsOf
  <2>3. QED BY <2>1, <2>2
<1>11. QED BY <1>2, <1>3, <1>8, <1>10

\* The rows of a bitmap: two of four bytes each, from the last.
IsFile(file) == file \in Seq(Nat) /\ \A k \in 1 .. Len(file) : IsByte(file[k])

UpsideDown(rows, fbuf) ==
    \A y \in 0 .. 15, i \in 1 .. 2 : rows[y][i] = fbuf[4 * (15 - y) + i]

LEMMA BitmapRows ==
    ASSUME NEW fbuf, IsFile(fbuf), Len(fbuf) = 64
    PROVE  Picture(RowsOfBitmap(fbuf)) /\ UpsideDown(RowsOfBitmap(fbuf), fbuf)
<1>1. PICK n \in Nat : n = 64
  OBVIOUS
<1>2. fbuf \in Seq(Nat) /\ n = Len(fbuf) /\ \A k \in 1 .. n : IsByte(fbuf[k])
  BY <1>1 DEF IsFile
<1>3. PICK rows : rows = RowsOfBitmap(fbuf)
  OBVIOUS
<1>4. ASSUME NEW y \in 0 .. 15, NEW i \in 1 .. 2
      PROVE  rows[y][i] = fbuf[4 * (15 - y) + i] /\ IsByte(rows[y][i])
  <2>1. PICK j \in 0 .. n : j = 4 * (15 - y) /\ j + 2 <= n
    <3>1. 4 * (15 - y) \in 0 .. n /\ 4 * (15 - y) + 2 <= n
      BY <1>1
    <3>2. QED BY <3>1
  <2>2. rows[y] = SubSeq(fbuf, j + 1, j + 2)
    BY <1>3, <2>1 DEF RowsOfBitmap
  <2>3. SubSeq(fbuf, j + 1, j + 2)[i] = fbuf[j + i]
    <3>1. /\ j + 1 \in 1 .. Len(fbuf) + 1 /\ j + 2 \in j + 1 - 1 .. Len(fbuf)
          /\ i \in 1 .. (j + 2) - (j + 1) + 1 /\ (j + 1) + i - 1 = j + i
      BY <1>2, <2>1
    <3>2. SubSeq(fbuf, j + 1, j + 2)[i] = fbuf[(j + 1) + i - 1]
      BY <1>2, <3>1
    <3>3. QED BY <3>1, <3>2
  <2>4. j + i \in 1 .. n
    BY <2>1
  <2>5. QED BY <1>2, <2>1, <2>2, <2>3, <2>4
<1>5. Picture(rows)
  <2>1. ASSUME NEW y \in 0 .. 15 PROVE IsByte(rows[y][1]) /\ IsByte(rows[y][2])
    <3>1. 1 \in 1 .. 2 /\ 2 \in 1 .. 2
      OBVIOUS
    <3>2. QED BY <1>4, <3>1
  <2>2. QED BY <2>1 DEF Picture, Row
<1>6. UpsideDown(rows, fbuf)
  BY <1>4 DEF UpsideDown
<1>7. QED BY <1>3, <1>5, <1>6

\* What is read of a usable bitmap.
PixelsOf(file, n, rest) ==
    [k \in 1 .. 64 |-> IF k <= n THEN file[file[11] + k] ELSE rest]

LEMMA PixelsRead ==
    ASSUME NEW file, IsFile(file), Len(file) > 10, Len(file) - file[11] >= 64,
           NEW n \in Nat, NEW rest, IsByte(rest)
    PROVE  IsFile(PixelsOf(file, n, rest)) /\ Len(PixelsOf(file, n, rest)) = 64
<1>1. file \in Seq(Nat) /\ Len(file) \in Nat /\ \A k \in 1 .. Len(file) : IsByte(file[k])
  BY DEF IsFile
<1>2. PICK full \in Nat : full = 64
  OBVIOUS
<1>3. PICK first \in Nat : first = file[11] /\ first + full <= Len(file)
  <2>1. 11 \in 1 .. Len(file)
    BY <1>1
  <2>2. file[11] \in Nat
    BY <1>1, <2>1 DEF IsByte
  <2>3. file[11] + full <= Len(file)
    BY <1>1, <1>2, <2>2
  <2>4. QED BY <2>2, <2>3
<1>4. PICK fbuf : fbuf = PixelsOf(file, n, rest)
  OBVIOUS
<1>5. fbuf = [k \in 1 .. full |-> IF k <= n THEN file[first + k] ELSE rest]
  BY <1>2, <1>3, <1>4 DEF PixelsOf
<1>6. ASSUME NEW k \in 1 .. full PROVE IsByte(fbuf[k])
  <2>1. PICK len \in Nat : len = Len(file)
    BY <1>1
  <2>2. first + k \in 1 .. len
    <3>1. first + full <= len
      BY <1>3, <2>1
    <3>2. QED BY <3>1
  <2>3. IsByte(file[first + k])
    BY <1>1, <2>1, <2>2
  <2>4. fbuf[k] = IF k <= n THEN file[first + k] ELSE rest
    BY <1>5
  <2>5. QED BY <2>3, <2>4
<1>7. fbuf \in Seq(Nat) /\ Len(fbuf) = full
  <2>1. fbuf = [k \in 1 .. full |-> fbuf[k]]
    BY <1>5
  <2>2. fbuf \in [1 .. full -> Nat]
    BY <1>6, <2>1 DEF IsByte
  <2>3. QED BY <2>2, SeqOf
<1>8. IsFile(fbuf)
  BY <1>6, <1>7 DEF IsFile
<1>9. QED BY <1>2, <1>4, <1>7, <1>8

\* The rows of a text.
LEMMA FontBytes ==
    ASSUME NEW c \in Nat, c <= 95, NEW j \in 0 .. 7
    PROVE  IsByte(miniwi_data[c \div 2][j])
<1>1. PICK h \in 0 .. 47 : h = c \div 2
  <2>1. c \div 2 \in 0 .. 47
    OBVIOUS
  <2>2. QED BY <2>1
<1>2. miniwi_data[h][j] \in 0 .. 255
  <2>1. miniwi_data[h] \in [0 .. 7 -> 0 .. 255]
    BY FontAssumption, Zenon
  <2>2. QED BY <2>1, Zenon
<1>3. miniwi_data[h][j] \in Nat /\ miniwi_data[h][j] <= 255
  BY <1>2
<1>4. QED BY <1>1, <1>3 DEF IsByte

\* A character of the font as the number of its glyph.
LEMMA InFontIs ==
    ASSUME NEW x \in InFont
    PROVE  x \in Nat /\ x - 32 \in Nat /\ x - 32 <= 95
  BY DEF InFont

LEMMA Halves ==
    ASSUME NEW p, IsByte(p)
    PROVE  p % 16 \in Nat /\ p % 16 <= 15 /\ p \div 16 \in Nat /\ p \div 16 <= 15
<1>1. p \in Nat /\ p <= 255
  BY DEF IsByte
<1>2. QED BY <1>1

LEMMA NibbleIs ==
    ASSUME NEW text, NEW i, NEW j \in 0 .. 7
    PROVE  Nibble(text, i, j) \in Nat /\ Nibble(text, i, j) <= 15
<1>1. CASE i > Len(text) \/ text[i] \notin InFont
  <2>1. Nibble(text, i, j) = 0
    BY <1>1 DEF Nibble
  <2>2. QED BY <2>1
<1>2. CASE ~(i > Len(text)) /\ text[i] \in InFont
  <2>1. PICK c \in Nat : c = text[i] - 32 /\ c <= 95
    BY <1>2, InFontIs
  <2>2. PICK pair : pair = miniwi_data[c \div 2][j]
    OBVIOUS
  <2>3. IsByte(pair)
    BY <2>1, <2>2, FontBytes
  <2>4. Nibble(text, i, j) = IF c % 2 = 1 THEN pair % 16 ELSE pair \div 16
    BY <1>2, <2>1, <2>2 DEF Nibble
  <2>5. QED BY <2>3, <2>4, Halves
<1>3. QED BY <1>1, <1>2

\* A byte of a row has two characters.
TwoPerByte(rows, text) ==
    \A y \in 0 .. 15, i \in 1 .. 2 :
       rows[y][i] = 16 * Nibble(text, 4 * (y \div 8) + 2 * i - 1, y % 8)
                       + Nibble(text, 4 * (y \div 8) + 2 * i, y % 8)

LEMMA TextRows ==
    ASSUME NEW text
    PROVE  Picture(RowsOfText(text)) /\ TwoPerByte(RowsOfText(text), text)
<1>1. PICK rows : rows = RowsOfText(text)
  OBVIOUS
<1>2. ASSUME NEW y \in 0 .. 15, NEW i \in 1 .. 2
      PROVE  /\ rows[y][i] = 16 * Nibble(text, 4 * (y \div 8) + 2 * i - 1, y % 8)
                                + Nibble(text, 4 * (y \div 8) + 2 * i, y % 8)
             /\ IsByte(rows[y][i])
  <2>1. PICK q \in Nat : q = 4 * (y \div 8)
    <3>1. 4 * (y \div 8) \in Nat
      OBVIOUS
    <3>2. QED BY <3>1
  <2>2. PICK j \in 0 .. 7 : j = y % 8
    OBVIOUS
  <2>3. rows[y] = <<16 * Nibble(text, q + 1, j) + Nibble(text, q + 1 + 1, j),
                    16 * Nibble(text, q + 1 + 2, j) + Nibble(text, q + 1 + 2 + 1, j)>>
    BY <1>1, <2>1, <2>2 DEF RowsOfText
  <2>4. PICK a, b : a = q + 2 * i - 1 /\ b = q + 2 * i
    OBVIOUS
  <2>5. rows[y][i] = 16 * Nibble(text, a, j) + Nibble(text, b, j)
    <3>1. CASE i = 1
      <4>1. a = q + 1 /\ b = q + 1 + 1
        BY <2>4, <3>1
      <4>2. QED BY <2>3, <3>1, <4>1
    <3>2. CASE i = 2
      <4>1. a = q + 1 + 2 /\ b = q + 1 + 2 + 1
        BY <2>4, <3>2
      <4>2. QED BY <2>3, <3>2, <4>1
    <3>3. QED BY <3>1, <3>2
  <2>6. PICK h \in Nat, l \in Nat : h = Nibble(text, a, j) /\ l = Nibble(text, b, j) /\ h <= 15 /\ l <= 15
    BY NibbleIs
  <2>7. 16 * h + l \in Nat /\ 16 * h + l <= 255
    BY <2>6
  <2>8. QED BY <2>1, <2>2, <2>4, <2>5, <2>6, <2>7 DEF IsByte
<1>3. Picture(rows)
  <2>1. ASSUME NEW y \in 0 .. 15 PROVE IsByte(rows[y][1]) /\ IsByte(rows[y][2])
    <3>1. 1 \in 1 .. 2 /\ 2 \in 1 .. 2
      OBVIOUS
    <3>2. QED BY <1>2, <3>1
  <2>2. QED BY <2>1 DEF Picture, Row
<1>4. TwoPerByte(rows, text)
  BY <1>2 DEF TwoPerByte
<1>5. QED BY <1>1, <1>3, <1>4

-----------------------------------------------------------------------------
(* What is asked for, and what of it is sent. *)

IsText(s) == s \in Seq(Nat) /\ \A k \in 1 .. Len(s) : s[k] \in Nat /\ 1 <= s[k] /\ s[k] <= 255

LEMMA TextIs ==
    ASSUME NEW s \in Text
    PROVE  IsText(s)
<1>1. PICK codes : codes = 1 .. 255
  OBVIOUS
<1>2. codes \subseteq Nat /\ \A x \in codes : x \in Nat /\ 1 <= x /\ x <= 255
  BY <1>1
<1>3. s \in Seq(codes)
  BY <1>1 DEF Text
<1>4. s \in Seq(Nat) /\ \A k \in 1 .. Len(s) : s[k] \in codes
  BY <1>2, <1>3, ElementsOf
<1>5. QED BY <1>2, <1>4 DEF IsText

LEMMA FileIs ==
    ASSUME NEW s \in Seq(0 .. 255)
    PROVE  IsFile(s)
<1>1. PICK bytes : bytes = 0 .. 255
  OBVIOUS
<1>2. bytes \subseteq Nat /\ \A x \in bytes : IsByte(x)
  BY <1>1 DEF IsByte
<1>3. s \in Seq(bytes)
  BY <1>1
<1>4. s \in Seq(Nat) /\ \A k \in 1 .. Len(s) : s[k] \in bytes
  BY <1>2, <1>3, ElementsOf
<1>5. QED BY <1>2, <1>4 DEF IsFile

LEMMA AskIs ==
    ASSUME NEW a \in Asks
    PROVE  /\ IsText(a.mt32) /\ IsText(a.sc55) /\ IsText(a.btxt) /\ a.negative \in BOOLEAN
           /\ a.bitmap # NoFile /\ a.bitmap # Unreadable => IsFile(a.bitmap)
<1>1. PICK bytes : bytes = 0 .. 255
  OBVIOUS
<1>2. a \in [mt32 : Text, sc55 : Text, btxt : Text, negative : BOOLEAN,
             bitmap : {NoFile, Unreadable} \cup Seq(bytes)]
  BY <1>1, AsksAssumption
<1>3. /\ a.mt32 \in Text /\ a.sc55 \in Text /\ a.btxt \in Text /\ a.negative \in BOOLEAN
      /\ a.bitmap = NoFile \/ a.bitmap = Unreadable \/ a.bitmap \in Seq(bytes)
  BY <1>2
<1>4. a.bitmap \in Seq(bytes) => IsFile(a.bitmap)
  BY <1>1, FileIs
<1>5. QED BY <1>3, <1>4, TextIs

LEMMA FittingIs ==
    ASSUME NEW s, IsText(s), NEW room \in Nat
    PROVE  /\ Numbers(Fitting(s, room)) /\ IsText(Fitting(s, room))
           /\ Len(Fitting(s, room)) <= room /\ Len(Fitting(s, room)) <= Len(s)
           /\ Len(s) <= room => Len(Fitting(s, room)) = Len(s)
           /\ Len(s) > room => Len(Fitting(s, room)) = room
           /\ \A k \in 1 .. Len(Fitting(s, room)) : Fitting(s, room)[k] = s[k]
<1>1. /\ s \in Seq(Nat) /\ Len(s) \in Nat
      /\ \A k \in 1 .. Len(s) : s[k] \in Nat /\ 1 <= s[k] /\ s[k] <= 255
  BY DEF IsText
<1>2. PICK n \in Nat : n = (IF Len(s) < room THEN Len(s) ELSE room)
  BY <1>1
<1>3. PICK f : f = Fitting(s, room)
  OBVIOUS
<1>4. /\ n <= Len(s) /\ n <= room /\ (Len(s) <= room => n = Len(s))
      /\ (Len(s) > room => n = room)
  BY <1>1, <1>2
<1>5. f = SubSeq(s, 1, n)
  BY <1>2, <1>3 DEF Fitting
<1>6. f \in Seq(Nat) /\ Len(f) = n /\ \A k \in 1 .. n : f[k] = s[k]
  <2>1. \A k \in 1 .. n : s[k] \in Nat
    <3>1. \A k \in 1 .. n : k \in 1 .. Len(s)
      BY <1>1, <1>4
    <3>2. QED BY <1>1, <3>1
  <2>2. /\ f \in Seq(Nat) /\ Len(f) = (IF 1 <= n THEN n - 1 + 1 ELSE 0)
        /\ \A k \in 1 .. n - 1 + 1 : f[k] = s[1 + k - 1]
    <3>1. 1 \in Int /\ n \in Int
      OBVIOUS
    <3>2. QED BY <1>5, <2>1, <3>1, SubSeqProperties
  <2>3. (1 <= n => n - 1 + 1 = n) /\ (~(1 <= n) => n = 0)
        /\ \A k \in 1 .. n : k \in 1 .. n - 1 + 1 /\ 1 + k - 1 = k
    OBVIOUS
  <2>4. QED BY <2>2, <2>3
<1>7. \A k \in 1 .. n : k \in 1 .. Len(s)
  BY <1>1, <1>4
<1>8. ASSUME NEW k \in 1 .. Len(f)
      PROVE  f[k] \in Nat /\ 1 <= f[k] /\ f[k] <= 255
  <2>1. k \in 1 .. n
    BY <1>6
  <2>2. k \in 1 .. Len(s)
    BY <1>7, <2>1
  <2>3. s[k] \in Nat /\ 1 <= s[k] /\ s[k] <= 255
    BY <1>1, <2>2
  <2>4. f[k] = s[k]
    BY <1>6, <2>1
  <2>5. QED BY <2>3, <2>4
<1>9. Numbers(f) /\ IsText(f)
  BY <1>6, <1>8 DEF Numbers, IsText
<1>10. QED BY <1>3, <1>4, <1>6, <1>9

-----------------------------------------------------------------------------
(* The buffer, faulty medium or not. *)

Messages == Seq(Nat)
BufferInv ==
    /\ ask \in Asks /\ faulty \in BOOLEAN
    /\ sysexbuf \in [SysExBuf -> Nat]
    /\ sent \in Seq(Messages)

LEMMA OneMore ==
    ASSUME NEW S, NEW s \in Seq(S), NEW x \in S
    PROVE  Append(s, x) \in Seq(S)
  OBVIOUS

\* The rows a bitmap is shown from.
LEMMA BitmapPicture ==
    ASSUME NEW a \in Asks, a.bitmap # NoFile, Usable(a.bitmap),
           NEW n \in Nat, NEW rest \in Leftovers
    PROVE  /\ IsFile(a.bitmap) /\ Len(a.bitmap) > 10
           /\ Len(a.bitmap) - a.bitmap[11] >= 64
           /\ IsFile(PixelsOf(a.bitmap, n, rest)) /\ Len(PixelsOf(a.bitmap, n, rest)) = 64
           /\ Picture(RowsOfBitmap(PixelsOf(a.bitmap, n, rest)))
<1>1. PICK file : file = a.bitmap
  OBVIOUS
<1>2. file # Unreadable /\ Len(file) > 10 /\ Len(file) - file[11] >= 64
  BY <1>1 DEF Usable, PixOffset
<1>3. IsFile(file)
  BY <1>1, <1>2, AskIs
<1>4. IsByte(rest)
  <2>1. rest \in 0 .. 255
    BY LeftoversAssumption
  <2>2. QED BY <2>1 DEF IsByte
<1>5. IsFile(PixelsOf(file, n, rest)) /\ Len(PixelsOf(file, n, rest)) = 64
  BY <1>2, <1>3, <1>4, PixelsRead
<1>6. QED BY <1>1, <1>2, <1>3, <1>5, BitmapRows

LEMMA ReadCounts ==
    ASSUME NEW n \in {64} \cup (IF faulty THEN ShortReads ELSE {})
    PROVE  n \in Nat /\ (~faulty => n = 64)
<1>1. n = 64 \/ n \in ShortReads
  OBVIOUS
<1>2. n \in Nat
  <2>1. n \in 2 .. 63 => n \in Nat
    OBVIOUS
  <2>2. QED BY <1>1, <2>1, LeftoversAssumption
<1>3. QED BY <1>2

LEMMA BufferInvInit == Init => BufferInv
<1>1. SUFFICES ASSUME Init PROVE BufferInv
  OBVIOUS
<1>2. sysexbuf = [k \in SysExBuf |-> 0] /\ sent = <<>> /\ ask \in Asks /\ faulty \in BOOLEAN
  BY <1>1 DEF Init
<1>3. sysexbuf \in [SysExBuf -> Nat] /\ sent \in Seq(Messages)
  BY <1>2
<1>4. QED BY <1>2, <1>3 DEF BufferInv

\* One step for each of the four messages.
LEMMA SendsOne ==
    ASSUME BufferInv, ask' = ask, faulty' = faulty,
           NEW v \in [SysExBuf -> Nat], NEW m, m \in Seq(Nat),
           sysexbuf' = v, sent' = Append(sent, m)
    PROVE  BufferInv'
<1>1. m \in Messages
  BY DEF Messages
<1>2. sent \in Seq(Messages)
  BY DEF BufferInv
<1>3. Append(sent, m) \in Seq(Messages)
  BY <1>1, <1>2, OneMore
<1>4. QED BY <1>3 DEF BufferInv

LEMMA Mt32Step == BufferInv /\ ShowMt32Text => BufferInv'
<1>1. SUFFICES ASSUME BufferInv, ShowMt32Text PROVE BufferInv'
  OBVIOUS
<1>2. PICK text : text = mt32_text
  OBVIOUS
<1>3. Numbers(text) /\ Len(text) <= 20
  <2>1. IsText(ask.mt32) /\ 20 \in Nat
    BY <1>1, AskIs DEF BufferInv
  <2>2. QED BY <1>2, <2>1, FittingIs DEF mt32_text
<1>4. PICK v : v = Mt32Display(sysexbuf, text)
  OBVIOUS
<1>5. PICK m : m = BytesAt(v, 0, 30)
  OBVIOUS
<1>6. v \in [SysExBuf -> Nat] /\ m \in Seq(Nat)
  <2>1. sysexbuf \in [SysExBuf -> Nat]
    BY <1>1 DEF BufferInv
  <2>2. QED BY <1>3, <1>4, <1>5, <2>1, Mt32Message DEF Contents
<1>7. ask' = ask /\ faulty' = faulty /\ sysexbuf' = v /\ sent' = Append(sent, m)
  BY <1>1, <1>2, <1>4, <1>5 DEF ShowMt32Text, Send
<1>8. QED BY <1>1, <1>6, <1>7, SendsOne

LEMMA Sc55Step == BufferInv /\ ShowSc55Text => BufferInv'
<1>1. SUFFICES ASSUME BufferInv, ShowSc55Text PROVE BufferInv'
  OBVIOUS
<1>2. PICK text : text = sc55_text
  OBVIOUS
<1>3. Numbers(text) /\ Len(text) <= 32
  <2>1. IsText(ask.sc55) /\ 32 \in Nat
    BY <1>1, AskIs DEF BufferInv
  <2>2. QED BY <1>2, <2>1, FittingIs DEF sc55_text
<1>4. PICK v : v = Sc55Display(sysexbuf, text)
  OBVIOUS
<1>5. PICK m : m = BytesAt(v, 0, Len(text) + 10)
  OBVIOUS
<1>6. v \in [SysExBuf -> Nat] /\ m \in Seq(Nat)
  <2>1. sysexbuf \in [SysExBuf -> Nat]
    BY <1>1 DEF BufferInv
  <2>2. QED BY <1>3, <1>4, <1>5, <2>1, Sc55Message DEF Contents
<1>7. ask' = ask /\ faulty' = faulty /\ sysexbuf' = v /\ sent' = Append(sent, m)
  BY <1>1, <1>2, <1>4, <1>5 DEF ShowSc55Text, Send
<1>8. QED BY <1>1, <1>6, <1>7, SendsOne

LEMMA BitmapStep == BufferInv /\ ShowBitmap => BufferInv'
<1>1. SUFFICES ASSUME BufferInv, ShowBitmap PROVE BufferInv'
  OBVIOUS
<1>2. PICK n \in {64} \cup (IF faulty THEN ShortReads ELSE {}), rest \in Leftovers :
         sysexbuf' = PictureDisplay(sysexbuf, RowsOfBitmap(ReadPixels(n, rest)), ask.negative)
  BY <1>1 DEF ShowBitmap
<1>3. PICK rows : rows = RowsOfBitmap(ReadPixels(n, rest))
  OBVIOUS
<1>4. Picture(rows) /\ ask.negative \in BOOLEAN
  <2>1. ask \in Asks /\ ask.bitmap # NoFile /\ Usable(ask.bitmap)
    BY <1>1 DEF ShowBitmap, BufferInv
  <2>2. n \in Nat
    BY ReadCounts
  <2>3. ReadPixels(n, rest) = PixelsOf(ask.bitmap, n, rest)
    BY DEF ReadPixels, PixelsOf, PixOffset
  <2>4. QED BY <1>3, <2>1, <2>2, <2>3, BitmapPicture, AskIs
<1>5. PICK negative \in BOOLEAN : negative = ask.negative
  BY <1>4
<1>6. PICK v : v = PictureDisplay(sysexbuf, rows, negative)
  OBVIOUS
<1>7. PICK m : m = BytesAt(v, 0, 74)
  OBVIOUS
<1>8. v \in [SysExBuf -> Nat] /\ m \in Seq(Nat)
  <2>1. sysexbuf \in [SysExBuf -> Nat]
    BY <1>1 DEF BufferInv
  <2>2. /\ v \in [SysExBuf -> Nat]
        /\ Contents(m, PicturePrefix, ColumnData(rows, negative), 72)
    BY <1>4, <1>6, <1>7, <2>1, PictureMessage
  <2>3. m \in Seq(Nat)
    BY <2>2 DEF Contents
  <2>4. QED BY <2>2, <2>3
<1>9. ask' = ask /\ faulty' = faulty /\ sysexbuf' = v /\ sent' = Append(sent, m)
  BY <1>1, <1>2, <1>3, <1>5, <1>6, <1>7 DEF ShowBitmap, Send
<1>10. QED BY <1>1, <1>8, <1>9, SendsOne

LEMMA BitmapTextStep == BufferInv /\ ShowBitmapText => BufferInv'
<1>1. SUFFICES ASSUME BufferInv, ShowBitmapText PROVE BufferInv'
  OBVIOUS
<1>2. PICK rows : rows = RowsOfText(sc55_pictxt)
  OBVIOUS
<1>3. Picture(rows)
  BY <1>2, TextRows
<1>4. PICK negative \in BOOLEAN : negative = ask.negative
  <2>1. ask.negative \in BOOLEAN
    BY <1>1, AskIs DEF BufferInv
  <2>2. QED BY <2>1
<1>5. PICK v : v = PictureDisplay(sysexbuf, rows, negative)
  OBVIOUS
<1>6. PICK m : m = BytesAt(v, 0, 74)
  OBVIOUS
<1>7. v \in [SysExBuf -> Nat] /\ m \in Seq(Nat)
  <2>1. sysexbuf \in [SysExBuf -> Nat]
    BY <1>1 DEF BufferInv
  <2>2. /\ v \in [SysExBuf -> Nat]
        /\ Contents(m, PicturePrefix, ColumnData(rows, negative), 72)
    BY <1>3, <1>5, <1>6, <2>1, PictureMessage
  <2>3. m \in Seq(Nat)
    BY <2>2 DEF Contents
  <2>4. QED BY <2>2, <2>3
<1>8. ask' = ask /\ faulty' = faulty /\ sysexbuf' = v /\ sent' = Append(sent, m)
  BY <1>1, <1>2, <1>4, <1>5, <1>6 DEF ShowBitmapText, Send
<1>9. QED BY <1>1, <1>7, <1>8, SendsOne

LEMMA AbortStep == BufferInv /\ Abort => BufferInv'
<1>1. SUFFICES ASSUME BufferInv, Abort PROVE BufferInv'
  OBVIOUS
<1>2. PICK v : v = Copied(Cleared(sysexbuf, 74), 0, PicturePrefix)
  OBVIOUS
<1>3. v \in [SysExBuf -> Nat]
  <2>1. PICK w : FilledWith(w, sysexbuf, 74, PicturePrefix, <<>>)
    BY DEF FilledWith
  <2>2. w = v
    BY <1>2, <2>1 DEF FilledWith, Copied
  <2>3. w \in [SysExBuf -> Nat]
    <3>1. PICK n \in Nat : n = 74
      OBVIOUS
    <3>2. sysexbuf \in [SysExBuf -> Nat] /\ <<>> \in Seq(Nat)
          /\ PicturePrefix \in Seq(Nat) /\ Len(PicturePrefix) <= 8
      BY <1>1, Headers DEF BufferInv, Header
    <3>3. QED BY <2>1, <3>1, <3>2, Filled
  <2>4. QED BY <2>2, <2>3
<1>4. ask' = ask /\ faulty' = faulty /\ sysexbuf' = v /\ sent' = sent
  BY <1>1, <1>2 DEF Abort
<1>5. QED BY <1>1, <1>3, <1>4 DEF BufferInv

LEMMA BufferInvNext == BufferInv /\ [Next]_vars => BufferInv'
<1>1. SUFFICES ASSUME BufferInv, [Next]_vars PROVE BufferInv'
  OBVIOUS
<1>2. CASE Skip \/ UNCHANGED vars
  <2>1. ask' = ask /\ faulty' = faulty /\ sysexbuf' = sysexbuf /\ sent' = sent
    BY <1>2 DEF Skip, vars
  <2>2. QED BY <1>1, <2>1 DEF BufferInv
<1>3. CASE ShowMt32Text \/ ShowSc55Text \/ ShowBitmap \/ Abort \/ ShowBitmapText
  BY <1>1, <1>3, Mt32Step, Sc55Step, BitmapStep, AbortStep, BitmapTextStep
<1>4. QED BY <1>1, <1>2, <1>3 DEF Next

-----------------------------------------------------------------------------
(* Bits and pixels. *)

LEMMA BitIs ==
    ASSUME NEW x \in Int
    PROVE  /\ Bit(x, 0) <=> (x \div 1) % 2 = 1
           /\ Bit(x, 1) <=> (x \div 2) % 2 = 1
           /\ Bit(x, 2) <=> (x \div 4) % 2 = 1
           /\ Bit(x, 3) <=> (x \div 8) % 2 = 1
           /\ Bit(x, 4) <=> (x \div 16) % 2 = 1
           /\ Bit(x, 5) <=> (x \div 32) % 2 = 1
           /\ Bit(x, 6) <=> (x \div 64) % 2 = 1
           /\ Bit(x, 7) <=> (x \div 128) % 2 = 1
  BY DEF Bit, Weight

\* The place of pixel x of a row, in its two bytes and in its four columns.
LEMMA PixelPlaces ==
    ASSUME NEW x \in 0 .. 15
    PROVE  \/ x = 0 /\ x \div 5 + 1 = 1 /\ 4 - (x % 5) = 4 /\ x \div 8 + 1 = 1 /\ 7 - (x % 8) = 7
           \/ x = 1 /\ x \div 5 + 1 = 1 /\ 4 - (x % 5) = 3 /\ x \div 8 + 1 = 1 /\ 7 - (x % 8) = 6
           \/ x = 2 /\ x \div 5 + 1 = 1 /\ 4 - (x % 5) = 2 /\ x \div 8 + 1 = 1 /\ 7 - (x % 8) = 5
           \/ x = 3 /\ x \div 5 + 1 = 1 /\ 4 - (x % 5) = 1 /\ x \div 8 + 1 = 1 /\ 7 - (x % 8) = 4
           \/ x = 4 /\ x \div 5 + 1 = 1 /\ 4 - (x % 5) = 0 /\ x \div 8 + 1 = 1 /\ 7 - (x % 8) = 3
           \/ x = 5 /\ x \div 5 + 1 = 2 /\ 4 - (x % 5) = 4 /\ x \div 8 + 1 = 1 /\ 7 - (x % 8) = 2
           \/ x = 6 /\ x \div 5 + 1 = 2 /\ 4 - (x % 5) = 3 /\ x \div 8 + 1 = 1 /\ 7 - (x % 8) = 1
           \/ x = 7 /\ x \div 5 + 1 = 2 /\ 4 - (x % 5) = 2 /\ x \div 8 + 1 = 1 /\ 7 - (x % 8) = 0
           \/ x = 8 /\ x \div 5 + 1 = 2 /\ 4 - (x % 5) = 1 /\ x \div 8 + 1 = 2 /\ 7 - (x % 8) = 7
           \/ x = 9 /\ x \div 5 + 1 = 2 /\ 4 - (x % 5) = 0 /\ x \div 8 + 1 = 2 /\ 7 - (x % 8) = 6
           \/ x = 10 /\ x \div 5 + 1 = 3 /\ 4 - (x % 5) = 4 /\ x \div 8 + 1 = 2 /\ 7 - (x % 8) = 5
           \/ x = 11 /\ x \div 5 + 1 = 3 /\ 4 - (x % 5) = 3 /\ x \div 8 + 1 = 2 /\ 7 - (x % 8) = 4
           \/ x = 12 /\ x \div 5 + 1 = 3 /\ 4 - (x % 5) = 2 /\ x \div 8 + 1 = 2 /\ 7 - (x % 8) = 3
           \/ x = 13 /\ x \div 5 + 1 = 3 /\ 4 - (x % 5) = 1 /\ x \div 8 + 1 = 2 /\ 7 - (x % 8) = 2
           \/ x = 14 /\ x \div 5 + 1 = 3 /\ 4 - (x % 5) = 0 /\ x \div 8 + 1 = 2 /\ 7 - (x % 8) = 1
           \/ x = 15 /\ x \div 5 + 1 = 4 /\ 4 - (x % 5) = 4 /\ x \div 8 + 1 = 2 /\ 7 - (x % 8) = 0
<1>1. \/ x = 0 \/ x = 1 \/ x = 2 \/ x = 3 \/ x = 4 \/ x = 5 \/ x = 6 \/ x = 7
      \/ x = 8 \/ x = 9 \/ x = 10 \/ x = 11 \/ x = 12 \/ x = 13 \/ x = 14 \/ x = 15
  OBVIOUS
<1>2. QED BY <1>1

\* The bits of a column are those of the bytes it comes from.
LEMMA FirstColumn ==
    ASSUME NEW a \in Nat, a <= 255,
           NEW y \in Int, y = a \div 8
    PROVE  /\ Bit(y, 4) <=> Bit(a, 7)
           /\ Bit(y, 3) <=> Bit(a, 6)
           /\ Bit(y, 2) <=> Bit(a, 5)
           /\ Bit(y, 1) <=> Bit(a, 4)
           /\ Bit(y, 0) <=> Bit(a, 3)
<1>1. (y \div 16) % 2 = (a \div 128) % 2
  OBVIOUS
<1>2. (y \div 8) % 2 = (a \div 64) % 2
  OBVIOUS
<1>3. (y \div 4) % 2 = (a \div 32) % 2
  OBVIOUS
<1>4. (y \div 2) % 2 = (a \div 16) % 2
  OBVIOUS
<1>5. (y \div 1) % 2 = (a \div 8) % 2
  OBVIOUS
<1>6. /\ Bit(y, 4) <=> (y \div 16) % 2 = 1
      /\ Bit(y, 3) <=> (y \div 8) % 2 = 1
      /\ Bit(y, 2) <=> (y \div 4) % 2 = 1
      /\ Bit(y, 1) <=> (y \div 2) % 2 = 1
      /\ Bit(y, 0) <=> (y \div 1) % 2 = 1
  BY BitIs
<1>7. /\ Bit(a, 7) <=> (a \div 128) % 2 = 1
      /\ Bit(a, 6) <=> (a \div 64) % 2 = 1
      /\ Bit(a, 5) <=> (a \div 32) % 2 = 1
      /\ Bit(a, 4) <=> (a \div 16) % 2 = 1
      /\ Bit(a, 3) <=> (a \div 8) % 2 = 1
  BY BitIs
<1>8. QED BY <1>1, <1>2, <1>3, <1>4, <1>5, <1>6, <1>7

\* See FirstColumn.
LEMMA SecondColumn ==
    ASSUME NEW a \in Nat, a <= 255, NEW b \in Nat, b <= 255,
           NEW y \in Int, y = (a % 8) * 4 + b \div 64
    PROVE  /\ Bit(y, 4) <=> Bit(a, 2)
           /\ Bit(y, 3) <=> Bit(a, 1)
           /\ Bit(y, 2) <=> Bit(a, 0)
           /\ Bit(y, 1) <=> Bit(b, 7)
           /\ Bit(y, 0) <=> Bit(b, 6)
<1>1. (y \div 16) % 2 = (a \div 4) % 2
  OBVIOUS
<1>2. (y \div 8) % 2 = (a \div 2) % 2
  OBVIOUS
<1>3. (y \div 4) % 2 = (a \div 1) % 2
  OBVIOUS
<1>4. (y \div 2) % 2 = (b \div 128) % 2
  OBVIOUS
<1>5. (y \div 1) % 2 = (b \div 64) % 2
  OBVIOUS
<1>6. /\ Bit(y, 4) <=> (y \div 16) % 2 = 1
      /\ Bit(y, 3) <=> (y \div 8) % 2 = 1
      /\ Bit(y, 2) <=> (y \div 4) % 2 = 1
      /\ Bit(y, 1) <=> (y \div 2) % 2 = 1
      /\ Bit(y, 0) <=> (y \div 1) % 2 = 1
  BY BitIs
<1>7. /\ Bit(a, 2) <=> (a \div 4) % 2 = 1
      /\ Bit(a, 1) <=> (a \div 2) % 2 = 1
      /\ Bit(a, 0) <=> (a \div 1) % 2 = 1
      /\ Bit(b, 7) <=> (b \div 128) % 2 = 1
      /\ Bit(b, 6) <=> (b \div 64) % 2 = 1
  BY BitIs
<1>8. QED BY <1>1, <1>2, <1>3, <1>4, <1>5, <1>6, <1>7

\* See FirstColumn.
LEMMA ThirdColumn ==
    ASSUME NEW b \in Nat, b <= 255,
           NEW y \in Int, y = (b \div 2) % 32
    PROVE  /\ Bit(y, 4) <=> Bit(b, 5)
           /\ Bit(y, 3) <=> Bit(b, 4)
           /\ Bit(y, 2) <=> Bit(b, 3)
           /\ Bit(y, 1) <=> Bit(b, 2)
           /\ Bit(y, 0) <=> Bit(b, 1)
<1>1. (y \div 16) % 2 = (b \div 32) % 2
  OBVIOUS
<1>2. (y \div 8) % 2 = (b \div 16) % 2
  OBVIOUS
<1>3. (y \div 4) % 2 = (b \div 8) % 2
  OBVIOUS
<1>4. (y \div 2) % 2 = (b \div 4) % 2
  OBVIOUS
<1>5. (y \div 1) % 2 = (b \div 2) % 2
  OBVIOUS
<1>6. /\ Bit(y, 4) <=> (y \div 16) % 2 = 1
      /\ Bit(y, 3) <=> (y \div 8) % 2 = 1
      /\ Bit(y, 2) <=> (y \div 4) % 2 = 1
      /\ Bit(y, 1) <=> (y \div 2) % 2 = 1
      /\ Bit(y, 0) <=> (y \div 1) % 2 = 1
  BY BitIs
<1>7. /\ Bit(b, 5) <=> (b \div 32) % 2 = 1
      /\ Bit(b, 4) <=> (b \div 16) % 2 = 1
      /\ Bit(b, 3) <=> (b \div 8) % 2 = 1
      /\ Bit(b, 2) <=> (b \div 4) % 2 = 1
      /\ Bit(b, 1) <=> (b \div 2) % 2 = 1
  BY BitIs
<1>8. QED BY <1>1, <1>2, <1>3, <1>4, <1>5, <1>6, <1>7

\* See FirstColumn.
LEMMA LastColumn ==
    ASSUME NEW b \in Nat, b <= 255,
           NEW y \in Int, y = (b % 2) * 16
    PROVE  /\ Bit(y, 4) <=> Bit(b, 0)
<1>1. (y \div 16) % 2 = (b \div 1) % 2
  OBVIOUS
<1>2. /\ Bit(y, 4) <=> (y \div 16) % 2 = 1
  BY BitIs
<1>3. /\ Bit(b, 0) <=> (b \div 1) % 2 = 1
  BY BitIs
<1>4. QED BY <1>1, <1>2, <1>3

\* The bits of what is inverted are the opposite.
LEMMA InvertedBits ==
    ASSUME NEW c \in Nat, c <= 31, NEW y \in Int, y = 31 - c
    PROVE  /\ Bit(y, 0) <=> ~Bit(c, 0)
           /\ Bit(y, 1) <=> ~Bit(c, 1)
           /\ Bit(y, 2) <=> ~Bit(c, 2)
           /\ Bit(y, 3) <=> ~Bit(c, 3)
           /\ Bit(y, 4) <=> ~Bit(c, 4)
<1>1. (y \div 1) % 2 = 1 <=> ~((c \div 1) % 2 = 1)
  OBVIOUS
<1>2. (y \div 2) % 2 = 1 <=> ~((c \div 2) % 2 = 1)
  OBVIOUS
<1>3. (y \div 4) % 2 = 1 <=> ~((c \div 4) % 2 = 1)
  OBVIOUS
<1>4. (y \div 8) % 2 = 1 <=> ~((c \div 8) % 2 = 1)
  OBVIOUS
<1>5. (y \div 16) % 2 = 1 <=> ~((c \div 16) % 2 = 1)
  OBVIOUS
<1>6. /\ Bit(y, 0) <=> (y \div 1) % 2 = 1
      /\ Bit(y, 1) <=> (y \div 2) % 2 = 1
      /\ Bit(y, 2) <=> (y \div 4) % 2 = 1
      /\ Bit(y, 3) <=> (y \div 8) % 2 = 1
      /\ Bit(y, 4) <=> (y \div 16) % 2 = 1
  BY BitIs
<1>7. /\ Bit(c, 0) <=> (c \div 1) % 2 = 1
      /\ Bit(c, 1) <=> (c \div 2) % 2 = 1
      /\ Bit(c, 2) <=> (c \div 4) % 2 = 1
      /\ Bit(c, 3) <=> (c \div 8) % 2 = 1
      /\ Bit(c, 4) <=> (c \div 16) % 2 = 1
  BY BitIs
<1>8. QED BY <1>1, <1>2, <1>3, <1>4, <1>5, <1>6, <1>7

LEMMA InvertedLastBit ==
    ASSUME NEW c \in Nat, c = 0 \/ c = 16, NEW y \in Int, y = 16 - c
    PROVE  Bit(y, 4) <=> ~Bit(c, 4)
<1>1. (y \div 16) % 2 = 1 <=> ~((c \div 16) % 2 = 1)
  OBVIOUS
<1>2. Bit(y, 4) <=> (y \div 16) % 2 = 1
  BY BitIs
<1>3. Bit(c, 4) <=> (c \div 16) % 2 = 1
  BY BitIs
<1>4. QED BY <1>1, <1>2, <1>3

LEMMA ColumnPixel ==
    ASSUME NEW row, Row(row), NEW x \in 0 .. 15
    PROVE  Bit(Columns(row)[x \div 5 + 1], 4 - (x % 5)) <=> Bit(row[x \div 8 + 1], 7 - (x % 8))
<1>1. PICK a \in Nat : a = row[1] /\ a <= 255
  BY DEF Row, IsByte
<1>2. PICK b \in Nat : b = row[2] /\ b <= 255
  BY DEF Row, IsByte
<1>3. PICK c : c = Columns(row)
  OBVIOUS
<1>4. /\ c[1] = a \div 8 /\ c[2] = (a % 8) * 4 + b \div 64
      /\ c[3] = (b \div 2) % 32 /\ c[4] = (b % 2) * 16
  BY <1>1, <1>2, <1>3 DEF Columns
<1>5. c[1] \in Int /\ c[2] \in Int /\ c[3] \in Int /\ c[4] \in Int
  BY <1>4
<1>6. /\ Bit(c[1], 4) <=> Bit(a, 7)
      /\ Bit(c[1], 3) <=> Bit(a, 6)
      /\ Bit(c[1], 2) <=> Bit(a, 5)
      /\ Bit(c[1], 1) <=> Bit(a, 4)
      /\ Bit(c[1], 0) <=> Bit(a, 3)
  BY <1>1, <1>4, <1>5, FirstColumn
<1>7. /\ Bit(c[2], 4) <=> Bit(a, 2)
      /\ Bit(c[2], 3) <=> Bit(a, 1)
      /\ Bit(c[2], 2) <=> Bit(a, 0)
      /\ Bit(c[2], 1) <=> Bit(b, 7)
      /\ Bit(c[2], 0) <=> Bit(b, 6)
  <2>1. c[2] = (a % 8) * 4 + b \div 64 /\ c[2] \in Int /\ a <= 255 /\ b <= 255
    BY <1>1, <1>2, <1>4, <1>5
  <2>2. QED BY <2>1, SecondColumn, Zenon
<1>8. /\ Bit(c[3], 4) <=> Bit(b, 5)
      /\ Bit(c[3], 3) <=> Bit(b, 4)
      /\ Bit(c[3], 2) <=> Bit(b, 3)
      /\ Bit(c[3], 1) <=> Bit(b, 2)
      /\ Bit(c[3], 0) <=> Bit(b, 1)
  BY <1>2, <1>4, <1>5, ThirdColumn
<1>9. Bit(c[4], 4) <=> Bit(b, 0)
  BY <1>2, <1>4, <1>5, LastColumn
<1>10. Bit(c[x \div 5 + 1], 4 - (x % 5)) <=> Bit(row[x \div 8 + 1], 7 - (x % 8))
  BY <1>1, <1>2, <1>6, <1>7, <1>8, <1>9, PixelPlaces
<1>11. QED BY <1>3, <1>10

LEMMA InvertedPixel ==
    ASSUME NEW row, Row(row), NEW x \in 0 .. 15
    PROVE  Bit(Inverted(Columns(row))[x \div 5 + 1], 4 - (x % 5))
              <=> ~Bit(row[x \div 8 + 1], 7 - (x % 8))
<1>1. PICK c : c = Columns(row)
  OBVIOUS
<1>2. PICK d : d = Inverted(c)
  OBVIOUS
<1>3. /\ c[1] \in Nat /\ c[1] <= 31 /\ c[2] \in Nat /\ c[2] <= 31
      /\ c[3] \in Nat /\ c[3] <= 31 /\ (c[4] = 0 \/ c[4] = 16)
  BY <1>1, ColumnsAre
<1>4. d[1] = 31 - c[1] /\ d[2] = 31 - c[2] /\ d[3] = 31 - c[3] /\ d[4] = 16 - c[4]
  BY <1>1, <1>2, InvertedAre
<1>5. ASSUME NEW y \in Nat, y <= 31, NEW z \in Int, z = 31 - y, NEW k \in 0 .. 4
      PROVE  Bit(z, k) <=> ~Bit(y, k)
  <2>1. k = 0 \/ k = 1 \/ k = 2 \/ k = 3 \/ k = 4
    OBVIOUS
  <2>2. QED BY <1>5, <2>1, InvertedBits
<1>6. Bit(d[4], 4) <=> ~Bit(c[4], 4)
  <2>1. c[4] \in Nat /\ d[4] \in Int
    BY <1>3, <1>4
  <2>2. QED BY <1>3, <1>4, <2>1, InvertedLastBit
<1>7. PICK i, k : i = x \div 5 + 1 /\ k = 4 - (x % 5)
  OBVIOUS
<1>8. (i \in 1 .. 3 /\ k \in 0 .. 4) \/ (i = 4 /\ k = 4)
  BY <1>7, PixelPlaces
<1>9. Bit(d[i], k) <=> ~Bit(c[i], k)
  <2>1. CASE i = 4 /\ k = 4
    BY <1>6, <2>1
  <2>2. CASE i \in 1 .. 3 /\ k \in 0 .. 4
    <3>1. c[i] \in Nat /\ c[i] <= 31 /\ d[i] = 31 - c[i]
      BY <1>3, <1>4, <2>2
    <3>2. d[i] \in Int
      BY <3>1
    <3>3. QED BY <1>5, <2>2, <3>1, <3>2
  <2>3. QED BY <1>8, <2>1, <2>2
<1>10. QED BY <1>1, <1>2, <1>7, <1>9, ColumnPixel

-----------------------------------------------------------------------------
(* What the displays show of the messages. *)

\* The texts are behind the header, as long as they are.
LEMMA Mt32Shown ==
    ASSUME NEW s, IsText(s), NEW m, Contents(m, Mt32Prefix, Fitting(s, 20), 28)
    PROVE  Content(m) = [on |-> "mt32", what |-> Padded(s)]
<1>1. PICK n \in Nat : n = 20
  OBVIOUS
<1>2. PICK text : text = Fitting(s, n)
  OBVIOUS
<1>3. /\ s \in Seq(Nat) /\ text \in Seq(Nat) /\ Len(text) \in Nat /\ Len(text) <= n
      /\ Len(s) \in Nat /\ (Len(s) <= n => Len(text) = Len(s)) /\ (Len(s) > n => Len(text) = n)
      /\ \A k \in 1 .. Len(text) : text[k] = s[k]
  <2>1. Numbers(text) /\ s \in Seq(Nat)
    BY <1>2, FittingIs DEF IsText
  <2>2. QED BY <1>2, <2>1, FittingIs DEF Numbers
<1>4. PICK at \in Nat : at = 28 /\ Contents(m, Mt32Prefix, text, at)
  BY <1>1, <1>2
<1>5. /\ m \in Seq(Nat) /\ Len(m) = at + 2
      /\ \A k \in 1 .. Len(Mt32Prefix) : m[k] = Mt32Prefix[k]
      /\ \A k \in 1 .. Len(text) : m[k + 8] = text[k]
      /\ \A k \in 9 + Len(text) .. at : m[k] = 0
  BY <1>4, Zenon DEF Contents
<1>6. m[4] = 22
  <2>1. 4 \in 1 .. Len(Mt32Prefix)
    BY Headers
  <2>2. QED BY <1>5, <2>1, Headers
<1>7. PICK t : t = [k \in 1 .. n |-> IF k <= Len(s) THEN s[k] ELSE 0]
  OBVIOUS
<1>8. ASSUME NEW k \in 1 .. n
      PROVE  t[k] = m[k + 8] /\ t[k] \in Nat
  <2>1. PICK l \in Nat, z \in Nat : l = Len(text) /\ z = Len(s)
    BY <1>3
  <2>2. t[k] = IF k <= z THEN s[k] ELSE 0
    BY <1>7, <2>1
  <2>3. (z <= n => l = z) /\ (z > n => l = n)
    BY <1>3, <2>1
  <2>4. CASE k <= l
    <3>1. k \in 1 .. l /\ k <= z
      BY <2>1, <2>3, <2>4
    <3>2. text[k] = s[k] /\ m[k + 8] = text[k]
      BY <1>3, <1>5, <2>1, <3>1
    <3>3. text[k] \in Nat
      BY <1>3, <2>1, <3>1
    <3>4. QED BY <2>2, <3>1, <3>2, <3>3
  <2>5. CASE ~(k <= l)
    <3>1. k + 8 \in 9 + l .. at
      BY <1>1, <1>4, <2>1, <2>5
    <3>2. ~(k <= z)
      BY <2>1, <2>3, <2>5
    <3>3. m[k + 8] = 0
      BY <1>5, <2>1, <3>1
    <3>4. QED BY <2>2, <3>2, <3>3
  <2>6. QED BY <2>4, <2>5
<1>9. t \in Seq(Nat) /\ Len(t) = n
  <2>1. t = [k \in 1 .. n |-> t[k]]
    BY <1>7
  <2>2. t \in [1 .. n -> Nat]
    BY <1>8, <2>1
  <2>3. QED BY <2>2, SeqOf
<1>10. SubSeq(m, 9, at) = t
  <2>1. /\ 9 \in 1 .. Len(m) + 1 /\ at \in 9 - 1 .. Len(m) /\ Len(t) = at - 9 + 1
        /\ \A k \in 1 .. at - 9 + 1 : k \in 1 .. n /\ 9 + k - 1 = k + 8
    BY <1>1, <1>4, <1>5, <1>9
  <2>2. \A k \in 1 .. at - 9 + 1 : t[k] = m[9 + k - 1]
    BY <1>8, <2>1
  <2>3. QED BY <1>5, <1>9, <2>1, <2>2, PartIs
<1>11. t = Padded(s)
  BY <1>1, <1>7 DEF Padded
<1>12. QED BY <1>4, <1>6, <1>10, <1>11 DEF Content

LEMMA Sc55Shown ==
    ASSUME NEW text, Numbers(text), NEW m, Contents(m, Sc55Prefix, text, 8 + Len(text))
    PROVE  Content(m) = [on |-> "sc55", what |-> text]
<1>1. text \in Seq(Nat) /\ Len(text) \in Nat
  BY DEF Numbers
<1>2. PICK at \in Nat : at = 8 + Len(text)
  BY <1>1
<1>3. /\ m \in Seq(Nat) /\ Len(m) = at + 2
      /\ \A k \in 1 .. Len(Sc55Prefix) : m[k] = Sc55Prefix[k]
      /\ \A k \in 1 .. Len(text) : m[k + 8] = text[k]
      /\ \A k \in Len(Sc55Prefix) + 1 .. 8 : m[k] = 0
  <2>1. Contents(m, Sc55Prefix, text, at)
    BY <1>2
  <2>2. QED BY <2>1, Zenon DEF Contents
<1>4. m[4] = 69 /\ m[7] = 0
  <2>1. 4 \in 1 .. Len(Sc55Prefix) /\ 7 \in Len(Sc55Prefix) + 1 .. 8
    BY Headers
  <2>2. QED BY <1>3, <2>1, Headers
<1>5. SubSeq(m, 9, at) = text
  <2>1. /\ 9 \in 1 .. Len(m) + 1 /\ at \in 9 - 1 .. Len(m) /\ Len(text) = at - 9 + 1
        /\ \A k \in 1 .. at - 9 + 1 : k \in 1 .. Len(text) /\ 9 + k - 1 = k + 8
    BY <1>1, <1>2, <1>3
  <2>2. \A k \in 1 .. at - 9 + 1 : text[k] = m[9 + k - 1]
    BY <1>3, <2>1
  <2>3. QED BY <1>1, <1>3, <2>1, <2>2, PartIs
<1>6. SubSeq(m, 9, Len(m) - 2) = text
  <2>1. Len(m) - 2 = at
    BY <1>2, <1>3
  <2>2. QED BY <1>5, <2>1
<1>7. ~(m[4] = 22) /\ ~(m[4] = 69 /\ m[7] = 1)
  BY <1>4
<1>8. QED BY <1>4, <1>6, <1>7, Zenon DEF Content

\* A picture has a pixel where a bit of its rows is set, or is not.
LitIn(rows, p) == Bit(rows[p[2]][p[1] \div 8 + 1], 7 - (p[1] % 8))

LEMMA PixelShown ==
    ASSUME NEW rows, Picture(rows), NEW negative \in BOOLEAN,
           NEW m, Contents(m, PicturePrefix, ColumnData(rows, negative), 72),
           NEW p \in Pixels
    PROVE  Bit(m[9 + 16 * (p[1] \div 5) + p[2]], 4 - (p[1] % 5)) = (LitIn(rows, p) # negative)
<1>1. PICK data : data = ColumnData(rows, negative)
  OBVIOUS
<1>2. PICK x \in 0 .. 15, y \in 0 .. 15 : x = p[1] /\ y = p[2]
  BY DEF Pixels
<1>3. PICK c \in 0 .. 3 : c = x \div 5
  <2>1. x \div 5 \in 0 .. 3
    BY <1>2
  <2>2. QED BY <2>1
<1>4. PICK k : k = 1 + 16 * c + y
  OBVIOUS
<1>5. k \in 1 .. 64 /\ k + 8 = 9 + 16 * c + y
  BY <1>4
<1>6. m[k + 8] = data[k]
  <2>1. Len(data) = 64
    BY <1>1, ColumnDataIs
  <2>2. \A i \in 1 .. Len(data) : m[i + 8] = data[i]
    BY <1>1, Zenon DEF Contents
  <2>3. QED BY <1>5, <2>1, <2>2
<1>7. data[k] = ColumnsOf(rows, negative)[y][c + 1]
  BY <1>1, <1>4, ColumnDataIs
<1>8. PICK row : row = rows[y] /\ Row(row)
  BY DEF Picture
<1>9. ColumnsOf(rows, negative)[y] = IF negative THEN Inverted(Columns(row)) ELSE Columns(row)
  BY <1>8 DEF ColumnsOf
<1>10. LitIn(rows, p) <=> Bit(row[x \div 8 + 1], 7 - (x % 8))
  BY <1>2, <1>8 DEF LitIn
<1>11. m[9 + 16 * (x \div 5) + y] = ColumnsOf(rows, negative)[y][x \div 5 + 1]
  BY <1>3, <1>5, <1>6, <1>7
<1>12. CASE negative
  <2>1. m[9 + 16 * (x \div 5) + y] = Inverted(Columns(row))[x \div 5 + 1]
    BY <1>9, <1>11, <1>12
  <2>2. Bit(m[9 + 16 * (x \div 5) + y], 4 - (x % 5)) <=> ~LitIn(rows, p)
    BY <1>8, <1>10, <2>1, InvertedPixel
  <2>3. QED BY <1>2, <1>12, <2>2 DEF Bit, LitIn
<1>13. CASE ~negative
  <2>1. m[9 + 16 * (x \div 5) + y] = Columns(row)[x \div 5 + 1]
    BY <1>9, <1>11, <1>13
  <2>2. Bit(m[9 + 16 * (x \div 5) + y], 4 - (x % 5)) <=> LitIn(rows, p)
    BY <1>8, <1>10, <2>1, ColumnPixel
  <2>3. QED BY <1>2, <1>13, <2>2 DEF Bit, LitIn
<1>14. QED BY <1>12, <1>13

LEMMA PictureShown ==
    ASSUME NEW rows, Picture(rows), NEW negative \in BOOLEAN,
           NEW m, Contents(m, PicturePrefix, ColumnData(rows, negative), 72)
    PROVE  Content(m) = [on |-> "sc55 picture",
                         what |-> {p \in Pixels : LitIn(rows, p) # negative}]
<1>1. \A k \in 1 .. Len(PicturePrefix) : m[k] = PicturePrefix[k]
  BY Zenon DEF Contents
<1>2. m[4] = 69 /\ m[7] = 1
  <2>1. 4 \in 1 .. Len(PicturePrefix) /\ 7 \in 1 .. Len(PicturePrefix)
    BY Headers
  <2>2. QED BY <1>1, <2>1, Headers
<1>3. Lit(m) = {p \in Pixels : LitIn(rows, p) # negative}
  <2>1. \A p \in Pixels :
           Bit(m[9 + 16 * (p[1] \div 5) + p[2]], 4 - (p[1] % 5)) = (LitIn(rows, p) # negative)
    BY PixelShown
  <2>2. QED BY <2>1 DEF Lit
<1>4. QED BY <1>2, <1>3 DEF Content

-----------------------------------------------------------------------------
(* The pixels of a bitmap and of a text. *)

\* The lowest byte of an offset below 256 is the offset.
LEMMA OffsetIs ==
    ASSUME NEW file, IsFile(file), Len(file) >= 14
    PROVE  /\ Offset(file) \in Nat /\ file[11] \in Nat /\ file[11] <= Offset(file)
           /\ Offset(file) < 256 => Offset(file) = file[11]
<1>1. Len(file) \in Nat /\ \A k \in 1 .. Len(file) : file[k] \in Nat
  BY DEF IsFile, IsByte
<1>2. 11 \in 1 .. Len(file) /\ 12 \in 1 .. Len(file) /\ 13 \in 1 .. Len(file)
      /\ 14 \in 1 .. Len(file)
  BY <1>1
<1>3. PICK b1 \in Nat, b2 \in Nat, b3 \in Nat, b4 \in Nat :
         b1 = file[11] /\ b2 = file[12] /\ b3 = file[13] /\ b4 = file[14]
  BY <1>1, <1>2
<1>4. Offset(file) = b1 + 256 * (b2 + 256 * (b3 + 256 * b4))
  BY <1>3 DEF Offset
<1>5. PICK high \in Nat : high = b2 + 256 * (b3 + 256 * b4)
  OBVIOUS
<1>6. Offset(file) = b1 + 256 * high
  BY <1>4, <1>5
<1>7. /\ b1 + 256 * high \in Nat /\ b1 <= b1 + 256 * high
      /\ b1 + 256 * high < 256 => b1 + 256 * high = b1
  OBVIOUS
<1>8. QED BY <1>3, <1>6, <1>7

\* All of a bitmap was read.
LEMMA BitmapPixel ==
    ASSUME NEW a \in Asks, a.bitmap # NoFile, Usable(a.bitmap), NEW rest \in Leftovers,
           Offset(a.bitmap) < 256, NEW p \in Pixels
    PROVE  LitIn(RowsOfBitmap(PixelsOf(a.bitmap, 64, rest)), p) = InBitmap(a.bitmap, p)
<1>1. PICK file : file = a.bitmap
  OBVIOUS
<1>2. PICK fbuf : fbuf = PixelsOf(file, 64, rest)
  OBVIOUS
<1>3. PICK rows : rows = RowsOfBitmap(fbuf)
  OBVIOUS
<1>4. IsFile(file) /\ Len(file) > 10 /\ IsFile(fbuf) /\ Len(fbuf) = 64
  <2>1. 64 \in Nat
    OBVIOUS
  <2>2. QED BY <1>1, <1>2, <2>1, BitmapPicture
<1>5. PICK first \in Nat : first = file[11]
  <2>1. 11 \in 1 .. Len(file)
    BY <1>4 DEF IsFile
  <2>2. IsByte(file[11])
    BY <1>4, <2>1 DEF IsFile
  <2>3. QED BY <2>2 DEF IsByte
<1>6. PICK x \in 0 .. 15, y \in 0 .. 15 : x = p[1] /\ y = p[2]
  BY DEF Pixels
<1>7. PICK i \in 1 .. 2 : i = x \div 8 + 1
  <2>1. x \div 8 + 1 \in 1 .. 2
    BY <1>6
  <2>2. QED BY <2>1
<1>8. rows[y][i] = fbuf[4 * (15 - y) + i]
  <2>1. UpsideDown(rows, fbuf)
    BY <1>3, <1>4, BitmapRows
  <2>2. QED BY <2>1 DEF UpsideDown
<1>9. PICK k \in 1 .. 64 : k = 4 * (15 - y) + i
  <2>1. 4 * (15 - y) + i \in 1 .. 64
    OBVIOUS
  <2>2. QED BY <2>1
<1>10. fbuf[k] = file[first + k]
  <2>1. k <= 64
    BY <1>9
  <2>2. QED BY <1>2, <1>5, <1>9, <2>1, Zenon DEF PixelsOf
<1>11. first + k = first + 4 * (15 - y) + x \div 8 + 1
  BY <1>7, <1>9
<1>12. PICK offset : offset = Offset(file) /\ offset = first
  <2>1. /\ Len(file) \in Nat /\ Len(file) - file[11] >= 64 /\ file[11] \in Nat
    <3>1. 64 \in Nat
      OBVIOUS
    <3>2. Len(file) - file[11] >= 64
      <4>1. Len(a.bitmap) - a.bitmap[11] >= 64
        BY <3>1, BitmapPicture
      <4>2. QED BY <1>1, <4>1
    <3>3. Len(file) \in Nat
      BY <1>4 DEF IsFile
    <3>4. file[11] \in Nat
      BY <1>5
    <3>5. QED BY <3>2, <3>3, <3>4
  <2>2. Len(file) >= 14
    BY <2>1
  <2>3. QED BY <1>1, <1>4, <1>5, <2>2, OffsetIs
<1>13. rows[y][x \div 8 + 1] = file[offset + 4 * (15 - y) + x \div 8 + 1]
  BY <1>7, <1>8, <1>9, <1>10, <1>11, <1>12, Zenon
<1>14. LitIn(rows, p) = Bit(rows[y][x \div 8 + 1], 7 - (x % 8))
  BY <1>6, Zenon DEF LitIn
<1>15. InBitmap(file, p) = Bit(file[offset + 4 * (15 - y) + x \div 8 + 1], 7 - (x % 8))
  BY <1>6, <1>12, Zenon DEF InBitmap
<1>16. LitIn(rows, p) = InBitmap(file, p)
  BY <1>13, <1>14, <1>15, Zenon
<1>17. QED BY <1>1, <1>2, <1>3, <1>16

\* The bits of a byte of two halves, and of its halves.
Halved(b, h, l) ==
  /\ Bit(b, 7) <=> Bit(h, 3)
  /\ Bit(b, 6) <=> Bit(h, 2)
  /\ Bit(b, 5) <=> Bit(h, 1)
  /\ Bit(b, 4) <=> Bit(h, 0)
  /\ Bit(b, 3) <=> Bit(l, 3)
  /\ Bit(b, 2) <=> Bit(l, 2)
  /\ Bit(b, 1) <=> Bit(l, 1)
  /\ Bit(b, 0) <=> Bit(l, 0)

LEMMA TwoHalves ==
    ASSUME NEW h \in Nat, h <= 15, NEW l \in Nat, l <= 15, NEW b \in Int, b = 16 * h + l
    PROVE  Halved(b, h, l)
<1>1. (b \div 128) % 2 = (h \div 8) % 2
  OBVIOUS
<1>2. (b \div 64) % 2 = (h \div 4) % 2
  OBVIOUS
<1>3. (b \div 32) % 2 = (h \div 2) % 2
  OBVIOUS
<1>4. (b \div 16) % 2 = (h \div 1) % 2
  OBVIOUS
<1>5. (b \div 8) % 2 = (l \div 8) % 2
  OBVIOUS
<1>6. (b \div 4) % 2 = (l \div 4) % 2
  OBVIOUS
<1>7. (b \div 2) % 2 = (l \div 2) % 2
  OBVIOUS
<1>8. (b \div 1) % 2 = (l \div 1) % 2
  OBVIOUS
<1>9. /\ Bit(b, 7) <=> (b \div 128) % 2 = 1
      /\ Bit(b, 6) <=> (b \div 64) % 2 = 1
      /\ Bit(b, 5) <=> (b \div 32) % 2 = 1
      /\ Bit(b, 4) <=> (b \div 16) % 2 = 1
      /\ Bit(b, 3) <=> (b \div 8) % 2 = 1
      /\ Bit(b, 2) <=> (b \div 4) % 2 = 1
      /\ Bit(b, 1) <=> (b \div 2) % 2 = 1
      /\ Bit(b, 0) <=> (b \div 1) % 2 = 1
  BY BitIs
<1>10. /\ Bit(h, 3) <=> (h \div 8) % 2 = 1
       /\ Bit(h, 2) <=> (h \div 4) % 2 = 1
       /\ Bit(h, 1) <=> (h \div 2) % 2 = 1
       /\ Bit(h, 0) <=> (h \div 1) % 2 = 1
  BY BitIs
<1>11. /\ Bit(l, 3) <=> (l \div 8) % 2 = 1
       /\ Bit(l, 2) <=> (l \div 4) % 2 = 1
       /\ Bit(l, 1) <=> (l \div 2) % 2 = 1
       /\ Bit(l, 0) <=> (l \div 1) % 2 = 1
  BY BitIs
<1>12. QED BY <1>1, <1>2, <1>3, <1>4, <1>5, <1>6, <1>7, <1>8, <1>9, <1>10, <1>11 DEF Halved

LEMMA HalfBits ==
    ASSUME NEW b, IsByte(b), NEW k \in 0 .. 3
    PROVE  /\ Bit(b % 16, k) <=> Bit(b, k)
           /\ Bit(b \div 16, k) <=> Bit(b, k + 4)
<1>1. PICK h \in Nat, l \in Nat :
         h = b \div 16 /\ h <= 15 /\ l = b % 16 /\ l <= 15 /\ b \in Int /\ b = 16 * h + l
  BY DEF IsByte
<1>2. Halved(b, h, l)
  <2>1. h <= 15 /\ l <= 15 /\ b \in Int /\ b = 16 * h + l
    BY <1>1
  <2>2. QED BY <2>1, TwoHalves
<1>3. \/ k = 0 /\ k + 4 = 4
      \/ k = 1 /\ k + 4 = 5
      \/ k = 2 /\ k + 4 = 6
      \/ k = 3 /\ k + 4 = 7
  OBVIOUS
<1>4. (Bit(l, k) <=> Bit(b, k)) /\ (Bit(h, k) <=> Bit(b, k + 4))
  BY <1>2, <1>3 DEF Halved
<1>5. QED BY <1>1, <1>4

\* Pixel k of the four a character has in a row.
LEMMA NibblePixel ==
    ASSUME NEW text, IsText(text), NEW i \in Nat, 1 <= i, NEW j \in 0 .. 7, NEW k \in 0 .. 3
    PROVE  Bit(Nibble(text, i, j), 3 - k) <=>
              /\ i <= Len(text) /\ text[i] \in InFont
              /\ Bit(miniwi_data[(text[i] - 32) \div 2][j], (IF text[i] % 2 = 0 THEN 7 ELSE 3) - k)
<1>1. PICK len \in Nat : len = Len(text)
  BY DEF IsText
<1>2. PICK z \in 0 .. 3 : z = 3 - k /\ z + 4 = 7 - k
  <2>1. 3 - k \in 0 .. 3 /\ (3 - k) + 4 = 7 - k
    OBVIOUS
  <2>2. QED BY <2>1
<1>3. CASE i > Len(text) \/ text[i] \notin InFont
  <2>1. Nibble(text, i, j) = 0
    BY <1>3 DEF Nibble
  <2>2. ~Bit(0, z)
    <3>1. z = 0 \/ z = 1 \/ z = 2 \/ z = 3
      BY <1>2
    <3>2. /\ (0 \div 1) % 2 = 0 /\ (0 \div 2) % 2 = 0
          /\ (0 \div 4) % 2 = 0 /\ (0 \div 8) % 2 = 0
      OBVIOUS
    <3>3. QED BY <3>1, <3>2 DEF Bit, Weight
  <2>3. i > len => ~(i <= len)
    OBVIOUS
  <2>4. QED BY <1>1, <1>2, <1>3, <2>1, <2>2, <2>3
<1>4. CASE ~(i > Len(text)) /\ text[i] \in InFont
  <2>1. PICK t \in Nat : t = text[i] /\ t - 32 \in Nat /\ t - 32 <= 95
    BY <1>4, InFontIs
  <2>2. PICK c \in Nat : c = t - 32 /\ c <= 95
    BY <2>1
  <2>3. PICK pair : pair = miniwi_data[c \div 2][j]
    OBVIOUS
  <2>4. IsByte(pair)
    BY <2>2, <2>3, FontBytes
  <2>5. Nibble(text, i, j) = IF c % 2 = 1 THEN pair % 16 ELSE pair \div 16
    BY <1>4, <2>1, <2>2, <2>3 DEF Nibble
  <2>6. c % 2 = 1 <=> ~(t % 2 = 0)
    BY <2>2
  <2>7. (Bit(pair % 16, z) <=> Bit(pair, z)) /\ (Bit(pair \div 16, z) <=> Bit(pair, z + 4))
    BY <2>4, HalfBits
  <2>8. i <= len
    BY <1>1, <1>4
  <2>9. (IF t % 2 = 0 THEN 7 ELSE 3) - k = IF t % 2 = 0 THEN z + 4 ELSE z
    BY <1>2
  <2>10. Bit(Nibble(text, i, j), z) <=> Bit(pair, (IF t % 2 = 0 THEN 7 ELSE 3) - k)
    BY <2>5, <2>6, <2>7, <2>9
  <2>11. QED BY <1>1, <1>2, <1>4, <2>1, <2>2, <2>3, <2>8, <2>10
<1>5. QED BY <1>3, <1>4

\* Of a text the first eight characters are shown.
LEMMA TextPixel ==
    ASSUME NEW s, IsText(s), NEW p \in Pixels
    PROVE  LitIn(RowsOfText(Fitting(s, 8)), p) = InText(s, p)
<1>1. PICK room \in Nat : room = 8
  OBVIOUS
<1>2. PICK text : text = Fitting(s, room)
  OBVIOUS
<1>3. PICK len \in Nat, n \in Nat :
         /\ len = Len(text) /\ n = Len(s) /\ IsText(text)
         /\ (n <= room => len = n) /\ (n > room => len = room)
         /\ \A k \in 1 .. len : text[k] = s[k]
  <2>1. /\ IsText(text) /\ (Len(s) <= room => Len(text) = Len(s))
        /\ (Len(s) > room => Len(text) = room)
        /\ \A k \in 1 .. Len(text) : text[k] = s[k]
    BY <1>2, FittingIs
  <2>2. Len(text) \in Nat /\ Len(s) \in Nat
    BY <2>1 DEF IsText
  <2>3. QED BY <2>1, <2>2
<1>4. PICK rows : rows = RowsOfText(text)
  OBVIOUS
<1>5. PICK x \in 0 .. 15, y \in 0 .. 15 : x = p[1] /\ y = p[2]
  BY DEF Pixels
<1>6. PICK i \in 1 .. 2, j \in 0 .. 7, k \in 0 .. 3 :
         i = x \div 8 + 1 /\ j = y % 8 /\ k = x % 4
  <2>1. x \div 8 + 1 \in 1 .. 2 /\ y % 8 \in 0 .. 7 /\ x % 4 \in 0 .. 3
    BY <1>5
  <2>2. QED BY <2>1
<1>7. PICK c \in Nat : c = 1 + x \div 4 + 4 * (y \div 8) /\ 1 <= c /\ c <= room
  <2>1. x \div 4 \in 0 .. 3
    OBVIOUS
  <2>2. y \div 8 \in 0 .. 1
    OBVIOUS
  <2>3. PICK u \in 0 .. 3, v \in 0 .. 1 : u = x \div 4 /\ v = y \div 8
    BY <2>1, <2>2
  <2>4. 1 + u + 4 * v \in Nat /\ 1 <= 1 + u + 4 * v /\ 1 + u + 4 * v <= room
    BY <1>1
  <2>5. QED BY <2>3, <2>4
<1>8. PICK h, l : /\ h = Nibble(text, 4 * (y \div 8) + 2 * i - 1, j)
                  /\ l = Nibble(text, 4 * (y \div 8) + 2 * i, j)
  OBVIOUS
<1>9. PICK b \in Int : b = rows[y][i] /\ b = 16 * h + l /\ h \in Nat /\ h <= 15 /\ l \in Nat /\ l <= 15
  <2>1. h \in Nat /\ h <= 15 /\ l \in Nat /\ l <= 15
    BY <1>8, NibbleIs
  <2>2. TwoPerByte(rows, text)
    BY <1>4, TextRows
  <2>3. rows[y][i] = 16 * h + l
    BY <1>6, <1>8, <2>2 DEF TwoPerByte
  <2>4. QED BY <2>1, <2>3
<1>10. /\ Bit(b, 7) <=> Bit(h, 3)
       /\ Bit(b, 6) <=> Bit(h, 2)
       /\ Bit(b, 5) <=> Bit(h, 1)
       /\ Bit(b, 4) <=> Bit(h, 0)
       /\ Bit(b, 3) <=> Bit(l, 3)
       /\ Bit(b, 2) <=> Bit(l, 2)
       /\ Bit(b, 1) <=> Bit(l, 1)
       /\ Bit(b, 0) <=> Bit(l, 0)
  <2>1. Halved(b, h, l)
    BY <1>9, TwoHalves
  <2>2. QED BY <2>1 DEF Halved
<1>11. Bit(b, 7 - (x % 8)) <=> Bit(Nibble(text, c, j), 3 - k)
  <2>1. CASE x % 8 < 4
    <3>1. c = 4 * (y \div 8) + 2 * i - 1
      BY <1>6, <1>7, <2>1
    <3>2. \/ 7 - (x % 8) = 7 /\ 3 - k = 3
          \/ 7 - (x % 8) = 6 /\ 3 - k = 2
          \/ 7 - (x % 8) = 5 /\ 3 - k = 1
          \/ 7 - (x % 8) = 4 /\ 3 - k = 0
      BY <1>6, <2>1
    <3>3. Nibble(text, c, j) = h
      BY <1>8, <3>1
    <3>4. QED BY <1>10, <3>2, <3>3
  <2>2. CASE ~(x % 8 < 4)
    <3>1. c = 4 * (y \div 8) + 2 * i
      BY <1>6, <1>7, <2>2
    <3>2. \/ 7 - (x % 8) = 3 /\ 3 - k = 3
          \/ 7 - (x % 8) = 2 /\ 3 - k = 2
          \/ 7 - (x % 8) = 1 /\ 3 - k = 1
          \/ 7 - (x % 8) = 0 /\ 3 - k = 0
      BY <1>6, <2>2
    <3>3. Nibble(text, c, j) = l
      BY <1>8, <3>1
    <3>4. QED BY <1>10, <3>2, <3>3
  <2>3. QED BY <2>1, <2>2
<1>12. LitIn(rows, p) <=> Bit(Nibble(text, c, j), 3 - k)
  BY <1>5, <1>6, <1>9, <1>11, Zenon DEF LitIn
<1>13. Bit(Nibble(text, c, j), 3 - k) <=>
          /\ c <= Len(text) /\ text[c] \in InFont
          /\ Bit(miniwi_data[(text[c] - 32) \div 2][j], (IF text[c] % 2 = 0 THEN 7 ELSE 3) - k)
  BY <1>3, <1>7, NibblePixel
<1>14. InText(s, p) <=>
          /\ c <= Len(s) /\ s[c] \in InFont
          /\ Bit(miniwi_data[(s[c] - 32) \div 2][j], (IF s[c] % 2 = 0 THEN 7 ELSE 3) - k)
  BY <1>5, <1>6, <1>7, Zenon DEF InText
<1>15. (c <= len <=> c <= n) /\ (c <= len => text[c] = s[c])
  BY <1>3, <1>7
<1>16. LitIn(rows, p) <=> InText(s, p)
  BY <1>3, <1>12, <1>13, <1>14, <1>15, Zenon
<1>17. LitIn(rows, p) = InText(s, p)
  BY <1>16 DEF LitIn, InText, Bit
<1>18. QED BY <1>1, <1>2, <1>4, <1>17

-----------------------------------------------------------------------------
(* What has been shown at each stage. *)

\* A message carries what was asked for, but for a bitmap the medium or the offset of
\* which is in the way, and the displays take it if it is sendable.
Clear(f, a, s) == s = "sc55-bmp" => ~f /\ Offset(a.bitmap) < 256
Right(a, f, m, s) ==
    /\ Clear(f, a, s) => Content(m) = Asked(a, s)
    /\ Taken(m) <=> Sendable(a, s, m)
Shows(a, f, ms, ws) ==
    Len(ms) = Len(ws) /\ \A k \in 1 .. Len(ws) : Right(a, f, ms[k], ws[k])

LEMMA RightIs ==
    ASSUME NEW a, NEW f, NEW m, NEW s, NEW inside, TakenIf(m, inside),
           inside <=> SevenBit(TextOf(a, s)),
           Clear(f, a, s) => Content(m) = Asked(a, s)
    PROVE  Right(a, f, m, s)
<1>1. Sendable(a, s, m) <=> SevenBit(TextOf(a, s)) /\ ~AddsTo128(m)
  BY DEF Sendable, AddsTo128
<1>2. Taken(m) <=> Sendable(a, s, m)
  BY <1>1, Zenon DEF TakenIf
<1>3. QED BY <1>2, Zenon DEF Right

\* Only the texts can hold what is not of seven bits.
LEMMA TextsAre ==
    ASSUME NEW a
    PROVE  /\ TextOf(a, "mt32-txt") = Fitting(a.mt32, 20)
           /\ TextOf(a, "sc55-txt") = Fitting(a.sc55, 32)
           /\ SevenBit(TextOf(a, "sc55-bmp")) /\ SevenBit(TextOf(a, "sc55-btxt"))
  BY DEF TextOf, SevenBit

SoFar(a, s) ==
    CASE s = "mt32-txt"               -> <<>>
      [] s = "sc55-txt"               -> If(a.mt32 # <<>>, "mt32-txt")
      [] s \in {"sc55-bmp", "aborted"} ->
            If(a.mt32 # <<>>, "mt32-txt") \o If(a.sc55 # <<>>, "sc55-txt")
      [] s = "sc55-btxt"              ->
            If(a.mt32 # <<>>, "mt32-txt") \o If(a.sc55 # <<>>, "sc55-txt") \o
            If(a.bitmap # NoFile, "sc55-bmp")
      [] s = "done"                   -> Wanted(a)
Messaged == {"mt32-txt", "sc55-txt", "sc55-bmp", "sc55-btxt"}
IsStart(u, v) == Len(u) <= Len(v) /\ \A k \in 1 .. Len(u) : v[k] = u[k]

ShownInv ==
    /\ BufferInv
    /\ stage \in {"mt32-txt", "sc55-txt", "sc55-bmp", "sc55-btxt", "done", "aborted"}
    /\ stage = "aborted" => ask.bitmap # NoFile /\ (faulty \/ ~Good(ask.bitmap))
    /\ Shows(ask, faulty, sent, SoFar(ask, stage))

\* A sequence with one more element, or with none.
Grown(q, s, x) == /\ Len(s) \in Nat /\ Len(q) = Len(s) + 1 /\ q[Len(s) + 1] = x
                  /\ \A k \in 1 .. Len(s) : q[k] = s[k]

LEMMA AppendIs ==
    ASSUME NEW S, NEW s \in Seq(S), NEW x \in S
    PROVE  Append(s, x) \in Seq(S) /\ Grown(Append(s, x), s, x)
  BY DEF Grown

LEMMA JoinedIs ==
    ASSUME NEW S, NEW s \in Seq(S), NEW x \in S
    PROVE  s \o <<x>> = Append(s, x) /\ s \o <<>> = s /\ <<>> \o <<x>> = <<x>>
  OBVIOUS

\* A stage shows what is wanted of it.
Adds(u, v, wanted, s) ==
    /\ v \in Seq(Messaged) /\ IsStart(u, v)
    /\ wanted => v = Append(u, s)
    /\ ~wanted => v = u

LEMMA AddsIs ==
    ASSUME NEW u \in Seq(Messaged), NEW s \in Messaged, NEW wanted \in BOOLEAN
    PROVE  Adds(u, u \o If(wanted, s), wanted, s)
<1>1. CASE wanted = TRUE
  <2>1. PICK v : v = Append(u, s)
    OBVIOUS
  <2>2. u \o If(wanted, s) = v
    BY <1>1, <2>1, JoinedIs DEF If
  <2>3. v \in Seq(Messaged) /\ Grown(v, u, s)
    BY <2>1, AppendIs
  <2>4. IsStart(u, v)
    BY <2>3 DEF IsStart, Grown
  <2>5. QED BY <1>1, <2>1, <2>2, <2>3, <2>4 DEF Adds
<1>2. CASE wanted = FALSE
  <2>1. u \o If(wanted, s) = u
    BY <1>2, JoinedIs DEF If
  <2>2. Len(u) \in Nat
    OBVIOUS
  <2>3. IsStart(u, u)
    BY <2>2 DEF IsStart
  <2>4. QED BY <1>2, <2>1, <2>3 DEF Adds
<1>3. QED BY <1>1, <1>2

\* What has been shown so far, stage by stage.
LEMMA SoFarIs ==
    ASSUME NEW a
    PROVE  /\ SoFar(a, "mt32-txt") = <<>>
           /\ Adds(SoFar(a, "mt32-txt"), SoFar(a, "sc55-txt"), a.mt32 # <<>>, "mt32-txt")
           /\ Adds(SoFar(a, "sc55-txt"), SoFar(a, "sc55-bmp"), a.sc55 # <<>>, "sc55-txt")
           /\ Adds(SoFar(a, "sc55-bmp"), SoFar(a, "sc55-btxt"), a.bitmap # NoFile, "sc55-bmp")
           /\ Adds(SoFar(a, "sc55-btxt"), SoFar(a, "done"), a.btxt # <<>>, "sc55-btxt")
           /\ SoFar(a, "aborted") = SoFar(a, "sc55-bmp")
           /\ SoFar(a, "done") = Wanted(a)
<1> DEFINE none   == SoFar(a, "mt32-txt")
           first  == SoFar(a, "sc55-txt")
           second == SoFar(a, "sc55-bmp")
           third  == SoFar(a, "sc55-btxt")
           all    == SoFar(a, "done")
<1>1. none = <<>>
  BY DEF SoFar
<1>2. first = none \o If(a.mt32 # <<>>, "mt32-txt")
  <2>1. first = If(a.mt32 # <<>>, "mt32-txt")
    BY DEF SoFar
  <2>2. PICK w : w = If(a.mt32 # <<>>, "mt32-txt")
    OBVIOUS
  <2>3. w = <<"mt32-txt">> \/ w = <<>>
    BY <2>2 DEF If
  <2>4. <<>> \o w = w
    <3>1. "mt32-txt" \in Messaged /\ <<>> \in Seq(Messaged)
      BY DEF Messaged
    <3>2. <<>> \o <<"mt32-txt">> = <<"mt32-txt">> /\ <<>> \o <<>> = <<>>
      BY <3>1, JoinedIs
    <3>3. QED BY <2>3, <3>2
  <2>5. QED BY <1>1, <2>1, <2>2, <2>4, Zenon
<1>3. second = If(a.mt32 # <<>>, "mt32-txt") \o If(a.sc55 # <<>>, "sc55-txt")
  BY DEF SoFar
<1>4. third = If(a.mt32 # <<>>, "mt32-txt") \o If(a.sc55 # <<>>, "sc55-txt")
                 \o If(a.bitmap # NoFile, "sc55-bmp")
  BY DEF SoFar
<1>5. all = Wanted(a) /\ SoFar(a, "aborted") = second
  BY DEF SoFar
<1>6. first = If(a.mt32 # <<>>, "mt32-txt")
  BY DEF SoFar
<1>7. second = first \o If(a.sc55 # <<>>, "sc55-txt")
  BY <1>3, <1>6, Zenon
<1>8. third = second \o If(a.bitmap # NoFile, "sc55-bmp")
  BY <1>3, <1>4, Zenon
<1>9. all = third \o If(a.btxt # <<>>, "sc55-btxt")
  BY <1>4, <1>5, Zenon DEF Wanted
<1> HIDE DEF none, first, second, third, all
<1>10. /\ (a.mt32 # <<>>) \in BOOLEAN /\ (a.sc55 # <<>>) \in BOOLEAN
       /\ (a.bitmap # NoFile) \in BOOLEAN /\ (a.btxt # <<>>) \in BOOLEAN
       /\ "mt32-txt" \in Messaged /\ "sc55-txt" \in Messaged
       /\ "sc55-bmp" \in Messaged /\ "sc55-btxt" \in Messaged
  BY Zenon DEF Messaged
<1>11. none \in Seq(Messaged)
  BY <1>1
<1>12. Adds(none, first, a.mt32 # <<>>, "mt32-txt") /\ first \in Seq(Messaged)
  BY <1>2, <1>10, <1>11, AddsIs, Zenon DEF Adds
<1>13. Adds(first, second, a.sc55 # <<>>, "sc55-txt") /\ second \in Seq(Messaged)
  BY <1>7, <1>10, <1>12, AddsIs, Zenon DEF Adds
<1>14. Adds(second, third, a.bitmap # NoFile, "sc55-bmp") /\ third \in Seq(Messaged)
  BY <1>8, <1>10, <1>13, AddsIs, Zenon DEF Adds
<1>15. Adds(third, all, a.btxt # <<>>, "sc55-btxt")
  BY <1>9, <1>10, <1>14, AddsIs, Zenon
<1>16. QED BY <1>1, <1>5, <1>12, <1>13, <1>14, <1>15 DEF none, first, second, third, all

LEMMA StartOfStart ==
    ASSUME NEW u \in Seq(Messaged), NEW v \in Seq(Messaged), NEW w \in Seq(Messaged),
           IsStart(u, v), IsStart(v, w)
    PROVE  IsStart(u, w)
<1>1. PICK i \in Nat, j \in Nat, k \in Nat : i = Len(u) /\ j = Len(v) /\ k = Len(w)
  OBVIOUS
<1>2. /\ i <= j /\ \A n \in 1 .. i : v[n] = u[n]
      /\ j <= k /\ \A n \in 1 .. j : w[n] = v[n]
  BY <1>1 DEF IsStart
<1>3. i <= k /\ \A n \in 1 .. i : n \in 1 .. j
  BY <1>2
<1>4. \A n \in 1 .. i : w[n] = u[n]
  BY <1>2, <1>3
<1>5. QED BY <1>1, <1>3, <1>4 DEF IsStart

\* It is always the beginning of what is wanted.
LEMMA Starts ==
    ASSUME NEW a,
           NEW s \in {"mt32-txt", "sc55-txt", "sc55-bmp", "sc55-btxt", "done", "aborted"}
    PROVE  SoFar(a, s) \in Seq(Messaged) /\ IsStart(SoFar(a, s), Wanted(a))
<1>1. PICK none : none = SoFar(a, "mt32-txt")
  OBVIOUS
<1>2. PICK first : first = SoFar(a, "sc55-txt")
  OBVIOUS
<1>3. PICK second : second = SoFar(a, "sc55-bmp")
  OBVIOUS
<1>4. PICK third : third = SoFar(a, "sc55-btxt")
  OBVIOUS
<1>5. PICK all : all = SoFar(a, "done")
  OBVIOUS
<1>6. none \in Seq(Messaged)
  <2>1. none = <<>>
    BY <1>1, SoFarIs
  <2>2. QED BY <2>1
<1>7. /\ first \in Seq(Messaged) /\ IsStart(none, first)
      /\ second \in Seq(Messaged) /\ IsStart(first, second)
      /\ third \in Seq(Messaged) /\ IsStart(second, third)
      /\ all \in Seq(Messaged) /\ IsStart(third, all)
  BY <1>1, <1>2, <1>3, <1>4, <1>5, SoFarIs DEF Adds
<1>8. IsStart(all, all)
  BY <1>7 DEF IsStart
<1>9. IsStart(second, all)
  BY <1>7, StartOfStart
<1>10. IsStart(first, all)
  BY <1>7, <1>9, StartOfStart
<1>11. IsStart(none, all)
  BY <1>6, <1>7, <1>10, StartOfStart
<1>12. Wanted(a) = all /\ SoFar(a, "aborted") = second
  BY <1>3, <1>5, SoFarIs
<1>13. QED BY <1>1, <1>2, <1>3, <1>4, <1>5, <1>6, <1>7, <1>8, <1>9, <1>10, <1>11, <1>12

\* One message more.
LEMMA ShowsMore ==
    ASSUME NEW a, NEW f, NEW ms \in Seq(Messages), NEW ws \in Seq(Messaged),
           Shows(a, f, ms, ws),
           NEW m \in Messages, NEW s \in Messaged, Right(a, f, m, s)
    PROVE  Shows(a, f, Append(ms, m), Append(ws, s))
<1>1. PICK n \in Nat : n = Len(ms) /\ n = Len(ws)
  BY DEF Shows
<1>2. PICK q : q = Append(ms, m)
  OBVIOUS
<1>3. Len(q) = n + 1 /\ q[n + 1] = m /\ \A k \in 1 .. n : q[k] = ms[k]
  <2>1. Grown(q, ms, m)
    BY <1>2, AppendIs
  <2>2. QED BY <1>1, <2>1 DEF Grown
<1>4. PICK t : t = Append(ws, s)
  OBVIOUS
<1>5. Len(t) = n + 1 /\ t[n + 1] = s /\ \A k \in 1 .. n : t[k] = ws[k]
  <2>1. Grown(t, ws, s)
    BY <1>4, AppendIs
  <2>2. QED BY <1>1, <2>1 DEF Grown
<1>6. \A k \in 1 .. n : Right(a, f, ms[k], ws[k])
  BY <1>1 DEF Shows
<1>7. ASSUME NEW k \in 1 .. n + 1
      PROVE  Right(a, f, q[k], t[k])
  <2>1. CASE k = n + 1
    BY <1>3, <1>5, <2>1
  <2>2. CASE k # n + 1
    <3>1. k \in 1 .. n
      BY <2>2
    <3>2. QED BY <1>3, <1>5, <1>6, <3>1
  <2>3. QED BY <2>1, <2>2
<1>8. Shows(a, f, q, t)
  <2>1. \A k \in 1 .. Len(t) : Right(a, f, q[k], t[k])
    BY <1>5, <1>7
  <2>2. QED BY <1>3, <1>5, <2>1, Zenon DEF Shows
<1>9. QED BY <1>2, <1>4, <1>8

-----------------------------------------------------------------------------
(* What is shown is what was asked for. *)

LEMMA FittingEmpty ==
    ASSUME NEW s, IsText(s), NEW room \in Nat, room >= 1
    PROVE  Fitting(s, room) = <<>> <=> s = <<>>
<1>1. PICK f : f = Fitting(s, room)
  OBVIOUS
<1>2. PICK n \in Nat, l \in Nat : n = Len(s) /\ l = Len(f)
  <2>1. Len(s) \in Nat /\ Len(f) \in Nat
    BY <1>1, FittingIs DEF IsText
  <2>2. QED BY <2>1
<1>3. (n <= room => l = n) /\ (n > room => l = room)
  BY <1>1, <1>2, FittingIs
<1>4. l = 0 <=> n = 0
  BY <1>3
<1>5. s \in Seq(Nat) /\ f \in Seq(Nat)
  BY <1>1, FittingIs DEF IsText
<1>6. (s = <<>> <=> n = 0) /\ (f = <<>> <=> l = 0)
  BY <1>2, <1>5
<1>7. QED BY <1>1, <1>4, <1>6

LEMMA ShownInvInit == Init => ShownInv
<1>1. SUFFICES ASSUME Init PROVE ShownInv
  OBVIOUS
<1>2. stage = "mt32-txt" /\ sent = <<>>
  BY <1>1 DEF Init
<1>3. Shows(ask, faulty, sent, SoFar(ask, stage))
  <2>1. SoFar(ask, stage) = <<>>
    BY <1>2, SoFarIs
  <2>2. QED BY <1>2, <2>1 DEF Shows
<1>4. QED BY <1>1, <1>2, <1>3, BufferInvInit DEF ShownInv

\* A step that sends a message, and one that does not.
LEMMA MoreShown ==
    ASSUME ShownInv, BufferInv', ask' = ask, faulty' = faulty,
           NEW m \in Messages, sent' = Append(sent, m),
           NEW s \in Messaged, Right(ask, faulty, m, s),
           NEW to \in {"sc55-txt", "sc55-bmp", "sc55-btxt", "done"}, stage' = to,
           SoFar(ask, to) = Append(SoFar(ask, stage), s)
    PROVE  ShownInv'
<1>1. SoFar(ask, stage) \in Seq(Messaged) /\ sent \in Seq(Messages)
  BY Starts DEF ShownInv, BufferInv
<1>2. Shows(ask, faulty, Append(sent, m), SoFar(ask, to))
  <2>1. Shows(ask, faulty, sent, SoFar(ask, stage))
    BY DEF ShownInv
  <2>2. Shows(ask, faulty, Append(sent, m), Append(SoFar(ask, stage), s))
    BY <1>1, <2>1, ShowsMore
  <2>3. QED BY <2>2
<1>3. QED BY <1>2 DEF ShownInv

LEMMA NoneShown ==
    ASSUME ShownInv, BufferInv', ask' = ask, faulty' = faulty, sent' = sent,
           NEW to \in {"mt32-txt", "sc55-txt", "sc55-bmp", "sc55-btxt", "done", "aborted"},
           stage' = to, SoFar(ask, to) = SoFar(ask, stage),
           to = "aborted" => ask.bitmap # NoFile /\ (faulty \/ ~Good(ask.bitmap))
    PROVE  ShownInv'
  BY DEF ShownInv

LEMMA Mt32ShownStep == ShownInv /\ ShowMt32Text => ShownInv'
<1>1. SUFFICES ASSUME ShownInv, ShowMt32Text PROVE ShownInv'
  OBVIOUS
<1>2. /\ stage = "mt32-txt" /\ stage' = "sc55-txt" /\ ask' = ask /\ faulty' = faulty
      /\ mt32_text # <<>>
  BY <1>1 DEF ShowMt32Text, Stage
<1>3. BufferInv /\ BufferInv'
  BY <1>1, Mt32Step DEF ShownInv
<1>4. IsText(ask.mt32) /\ sysexbuf \in [SysExBuf -> Nat]
  BY <1>3, AskIs DEF BufferInv
<1>5. PICK text : text = Fitting(ask.mt32, 20)
  OBVIOUS
<1>6. Numbers(text) /\ Len(text) <= 20
  <2>1. 20 \in Nat
    OBVIOUS
  <2>2. QED BY <1>4, <1>5, <2>1, FittingIs
<1>7. PICK m : m = BytesAt(Mt32Display(sysexbuf, text), 0, 30)
  OBVIOUS
<1>8. TakenIf(m, SevenBit(text)) /\ Contents(m, Mt32Prefix, text, 28)
  BY <1>4, <1>6, <1>7, Mt32Message
<1>9. m \in Messages
  BY <1>8 DEF Messages, Contents
<1>10. Right(ask, faulty, m, "mt32-txt")
  <2>1. Content(m) = [on |-> "mt32", what |-> Padded(ask.mt32)]
    BY <1>4, <1>5, <1>8, Mt32Shown
  <2>2. Content(m) = Asked(ask, "mt32-txt")
    BY <2>1 DEF Asked
  <2>3. SevenBit(text) <=> SevenBit(TextOf(ask, "mt32-txt"))
    BY <1>5, TextsAre
  <2>4. QED BY <1>8, <2>2, <2>3, RightIs
<1>11. sent' = Append(sent, m)
  BY <1>1, <1>5, <1>7 DEF ShowMt32Text, Send, mt32_text
<1>12. ask.mt32 # <<>>
  <2>1. 20 \in Nat /\ 20 >= 1
    OBVIOUS
  <2>2. QED BY <1>2, <1>4, <2>1, FittingEmpty DEF mt32_text
<1>13. SoFar(ask, "sc55-txt") = Append(SoFar(ask, stage), "mt32-txt")
  BY <1>2, <1>12, SoFarIs DEF Adds
<1>14. QED BY <1>1, <1>2, <1>3, <1>9, <1>10, <1>11, <1>13, MoreShown DEF Messaged

LEMMA Sc55ShownStep == ShownInv /\ ShowSc55Text => ShownInv'
<1>1. SUFFICES ASSUME ShownInv, ShowSc55Text PROVE ShownInv'
  OBVIOUS
<1>2. /\ stage = "sc55-txt" /\ stage' = "sc55-bmp" /\ ask' = ask /\ faulty' = faulty
      /\ sc55_text # <<>>
  BY <1>1 DEF ShowSc55Text, Stage
<1>3. BufferInv /\ BufferInv'
  BY <1>1, Sc55Step DEF ShownInv
<1>4. IsText(ask.sc55) /\ sysexbuf \in [SysExBuf -> Nat]
  BY <1>3, AskIs DEF BufferInv
<1>5. PICK text : text = Fitting(ask.sc55, 32)
  OBVIOUS
<1>6. Numbers(text) /\ Len(text) <= 32
  <2>1. 32 \in Nat
    OBVIOUS
  <2>2. QED BY <1>4, <1>5, <2>1, FittingIs
<1>7. PICK m : m = BytesAt(Sc55Display(sysexbuf, text), 0, Len(text) + 10)
  OBVIOUS
<1>8. TakenIf(m, SevenBit(text)) /\ Contents(m, Sc55Prefix, text, 8 + Len(text))
  BY <1>4, <1>6, <1>7, Sc55Message
<1>9. m \in Messages
  BY <1>8 DEF Messages, Contents
<1>10. Right(ask, faulty, m, "sc55-txt")
  <2>1. Content(m) = [on |-> "sc55", what |-> text]
    BY <1>6, <1>8, Sc55Shown
  <2>2. Content(m) = Asked(ask, "sc55-txt")
    BY <1>5, <2>1 DEF Asked
  <2>3. SevenBit(text) <=> SevenBit(TextOf(ask, "sc55-txt"))
    BY <1>5, TextsAre
  <2>4. QED BY <1>8, <2>2, <2>3, RightIs
<1>11. sent' = Append(sent, m)
  BY <1>1, <1>5, <1>7 DEF ShowSc55Text, Send, sc55_text
<1>12. ask.sc55 # <<>>
  <2>1. 32 \in Nat /\ 32 >= 1
    OBVIOUS
  <2>2. QED BY <1>2, <1>4, <2>1, FittingEmpty DEF sc55_text
<1>13. SoFar(ask, "sc55-bmp") = Append(SoFar(ask, stage), "sc55-txt")
  BY <1>2, <1>12, SoFarIs DEF Adds
<1>14. QED BY <1>1, <1>2, <1>3, <1>9, <1>10, <1>11, <1>13, MoreShown DEF Messaged

LEMMA BitmapShownStep == ShownInv /\ ShowBitmap => ShownInv'
<1>1. SUFFICES ASSUME ShownInv, ShowBitmap PROVE ShownInv'
  OBVIOUS
<1>2. /\ stage = "sc55-bmp" /\ stage' = "sc55-btxt" /\ ask' = ask /\ faulty' = faulty
      /\ ask.bitmap # NoFile /\ Usable(ask.bitmap)
  BY <1>1 DEF ShowBitmap, Stage
<1>3. BufferInv /\ BufferInv'
  BY <1>1, BitmapStep DEF ShownInv
<1>4. ask \in Asks /\ ask.negative \in BOOLEAN /\ sysexbuf \in [SysExBuf -> Nat]
  BY <1>3, AskIs DEF BufferInv
<1>5. PICK n \in {64} \cup (IF faulty THEN ShortReads ELSE {}), rest \in Leftovers :
         sysexbuf' = PictureDisplay(sysexbuf, RowsOfBitmap(ReadPixels(n, rest)), ask.negative)
  BY <1>1 DEF ShowBitmap
<1>6. n \in Nat /\ (~faulty => n = 64)
  BY ReadCounts
<1>7. PICK rows : rows = RowsOfBitmap(PixelsOf(ask.bitmap, n, rest))
  OBVIOUS
<1>8. Picture(rows)
  BY <1>2, <1>4, <1>6, <1>7, BitmapPicture
<1>9. PICK m : m = BytesAt(PictureDisplay(sysexbuf, rows, ask.negative), 0, 74)
  OBVIOUS
<1>10. TakenIf(m, TRUE) /\ Contents(m, PicturePrefix, ColumnData(rows, ask.negative), 72)
  BY <1>4, <1>8, <1>9, PictureMessage
<1>11. m \in Messages
  BY <1>10 DEF Messages, Contents
<1>12. ASSUME ~faulty, Offset(ask.bitmap) < 256 PROVE Content(m) = Asked(ask, "sc55-bmp")
  <2>1. Content(m) = [on |-> "sc55 picture",
                      what |-> {p \in Pixels : LitIn(rows, p) # ask.negative}]
    BY <1>4, <1>8, <1>10, PictureShown
  <2>2. rows = RowsOfBitmap(PixelsOf(ask.bitmap, 64, rest))
    BY <1>6, <1>7, <1>12
  <2>3. \A p \in Pixels : LitIn(rows, p) = InBitmap(ask.bitmap, p)
    BY <1>2, <1>4, <1>12, <2>2, BitmapPixel
  <2>4. {p \in Pixels : LitIn(rows, p) # ask.negative}
           = {p \in Pixels : InBitmap(ask.bitmap, p) # ask.negative}
    BY <2>3
  <2>5. QED BY <2>1, <2>4 DEF Asked
<1>13. sent' = Append(sent, m)
  <2>1. sysexbuf' = PictureDisplay(sysexbuf, rows, ask.negative)
    BY <1>5, <1>7 DEF ReadPixels, PixelsOf, PixOffset
  <2>2. sent' = Append(sent, BytesAt(sysexbuf', 0, 74))
    BY <1>1 DEF ShowBitmap, Send
  <2>3. QED BY <1>9, <2>1, <2>2
<1>14. SoFar(ask, "sc55-btxt") = Append(SoFar(ask, stage), "sc55-bmp")
  BY <1>2, SoFarIs DEF Adds
<1>15. Right(ask, faulty, m, "sc55-bmp")
  <2>1. TRUE <=> SevenBit(TextOf(ask, "sc55-bmp"))
    BY TextsAre
  <2>2. Clear(faulty, ask, "sc55-bmp") => Content(m) = Asked(ask, "sc55-bmp")
    BY <1>12 DEF Clear
  <2>3. QED BY <1>10, <2>1, <2>2, RightIs
<1>16. QED BY <1>1, <1>2, <1>3, <1>11, <1>13, <1>14, <1>15, MoreShown DEF Messaged

LEMMA BitmapTextShownStep == ShownInv /\ ShowBitmapText => ShownInv'
<1>1. SUFFICES ASSUME ShownInv, ShowBitmapText PROVE ShownInv'
  OBVIOUS
<1>2. /\ stage = "sc55-btxt" /\ stage' = "done" /\ ask' = ask /\ faulty' = faulty
      /\ sc55_pictxt # <<>>
  BY <1>1 DEF ShowBitmapText, Stage
<1>3. BufferInv /\ BufferInv'
  BY <1>1, BitmapTextStep DEF ShownInv
<1>4. IsText(ask.btxt) /\ ask.negative \in BOOLEAN /\ sysexbuf \in [SysExBuf -> Nat]
  BY <1>3, AskIs DEF BufferInv
<1>5. PICK rows : rows = RowsOfText(Fitting(ask.btxt, 8))
  OBVIOUS
<1>6. Picture(rows)
  BY <1>5, TextRows
<1>7. PICK m : m = BytesAt(PictureDisplay(sysexbuf, rows, ask.negative), 0, 74)
  OBVIOUS
<1>8. TakenIf(m, TRUE) /\ Contents(m, PicturePrefix, ColumnData(rows, ask.negative), 72)
  BY <1>4, <1>6, <1>7, PictureMessage
<1>9. m \in Messages
  BY <1>8 DEF Messages, Contents
<1>10. Right(ask, faulty, m, "sc55-btxt")
  <2>1. Content(m) = [on |-> "sc55 picture",
                      what |-> {p \in Pixels : LitIn(rows, p) # ask.negative}]
    BY <1>4, <1>6, <1>8, PictureShown
  <2>2. \A p \in Pixels : LitIn(rows, p) = InText(ask.btxt, p)
    BY <1>4, <1>5, TextPixel
  <2>3. {p \in Pixels : LitIn(rows, p) # ask.negative}
           = {p \in Pixels : InText(ask.btxt, p) # ask.negative}
    BY <2>2
  <2>4. Content(m) = Asked(ask, "sc55-btxt")
    BY <2>1, <2>3 DEF Asked
  <2>5. TRUE <=> SevenBit(TextOf(ask, "sc55-btxt"))
    BY TextsAre
  <2>6. QED BY <1>8, <2>4, <2>5, RightIs
<1>11. sent' = Append(sent, m)
  BY <1>1, <1>5, <1>7 DEF ShowBitmapText, Send, sc55_pictxt
<1>12. ask.btxt # <<>>
  <2>1. 8 \in Nat /\ 8 >= 1
    OBVIOUS
  <2>2. QED BY <1>2, <1>4, <2>1, FittingEmpty DEF sc55_pictxt
<1>13. SoFar(ask, "done") = Append(SoFar(ask, stage), "sc55-btxt")
  BY <1>2, <1>12, SoFarIs DEF Adds
<1>14. QED BY <1>1, <1>2, <1>3, <1>9, <1>10, <1>11, <1>13, MoreShown DEF Messaged

\* The program stops at no good bitmap.
LEMMA GoodIsUsable ==
    ASSUME NEW file, IsFile(file), Good(file)
    PROVE  Usable(file)
<1>1. /\ file # Unreadable /\ Len(file) >= 14 /\ SubSeq(file, 1, 2) = <<66, 77>>
      /\ Len(file) >= Offset(file) + 64
  BY DEF Good
<1>2. Offset(file) \in Nat /\ file[11] \in Nat /\ file[11] <= Offset(file) /\ Len(file) \in Nat
  BY <1>1, OffsetIs DEF IsFile
<1>3. Len(file) > 10 /\ Len(file) - file[11] >= 64
  BY <1>1, <1>2
<1>4. QED BY <1>1, <1>3 DEF Usable, PixOffset

LEMMA AbortShownStep == ShownInv /\ Abort => ShownInv'
<1>1. SUFFICES ASSUME ShownInv, Abort PROVE ShownInv'
  OBVIOUS
<1>2. /\ stage = "sc55-bmp" /\ stage' = "aborted" /\ ask' = ask /\ faulty' = faulty
      /\ sent' = sent /\ ask.bitmap # NoFile
  BY <1>1 DEF Abort, Stage
<1>3. BufferInv'
  BY <1>1, AbortStep DEF ShownInv
<1>4. SoFar(ask, "aborted") = SoFar(ask, stage)
  BY <1>2, SoFarIs
<1>5. faulty \/ ~Good(ask.bitmap)
  <2>1. SUFFICES ASSUME Good(ask.bitmap) PROVE Usable(ask.bitmap)
    BY <1>1 DEF Abort
  <2>2. IsFile(ask.bitmap)
    <3>1. ask.bitmap # Unreadable /\ ask \in Asks
      BY <1>1, <2>1 DEF Good, ShownInv, BufferInv
    <3>2. QED BY <1>2, <3>1, AskIs
  <2>3. QED BY <2>1, <2>2, GoodIsUsable
<1>6. QED BY <1>1, <1>2, <1>3, <1>4, <1>5, NoneShown

LEMMA SkipShownStep == ShownInv /\ Skip => ShownInv'
<1>1. SUFFICES ASSUME ShownInv, Skip PROVE ShownInv'
  OBVIOUS
<1>2. ask' = ask /\ faulty' = faulty /\ sent' = sent
  BY <1>1 DEF Skip
<1>3. BufferInv /\ BufferInv'
  BY <1>1, BufferInvNext DEF ShownInv, Next
<1>4. IsText(ask.mt32) /\ IsText(ask.sc55) /\ IsText(ask.btxt)
  BY <1>3, AskIs DEF BufferInv
<1>5. /\ mt32_text = <<>> <=> ask.mt32 = <<>>
      /\ sc55_text = <<>> <=> ask.sc55 = <<>>
      /\ sc55_pictxt = <<>> <=> ask.btxt = <<>>
  <2>1. 20 \in Nat /\ 20 >= 1 /\ 32 \in Nat /\ 32 >= 1 /\ 8 \in Nat /\ 8 >= 1
    OBVIOUS
  <2>2. QED BY <1>4, <2>1, FittingEmpty DEF mt32_text, sc55_text, sc55_pictxt
<1>6. PICK to \in {"sc55-txt", "sc55-bmp", "sc55-btxt", "done"} :
         stage' = to /\ SoFar(ask, to) = SoFar(ask, stage)
  <2>1. CASE Stage("mt32-txt", "sc55-txt") /\ mt32_text = <<>>
    BY <1>5, <2>1, SoFarIs DEF Stage, Adds
  <2>2. CASE Stage("sc55-txt", "sc55-bmp") /\ sc55_text = <<>>
    BY <1>5, <2>2, SoFarIs DEF Stage, Adds
  <2>3. CASE Stage("sc55-bmp", "sc55-btxt") /\ ask.bitmap = NoFile
    BY <2>3, SoFarIs DEF Stage, Adds
  <2>4. CASE Stage("sc55-btxt", "done") /\ sc55_pictxt = <<>>
    BY <1>5, <2>4, SoFarIs DEF Stage, Adds
  <2>5. QED BY <1>1, <2>1, <2>2, <2>3, <2>4 DEF Skip
<1>7. QED BY <1>1, <1>2, <1>3, <1>6, NoneShown

LEMMA ShownInvNext == ShownInv /\ [Next]_vars => ShownInv'
<1>1. SUFFICES ASSUME ShownInv, [Next]_vars PROVE ShownInv'
  OBVIOUS
<1>2. CASE UNCHANGED vars
  BY <1>1, <1>2 DEF vars, ShownInv, BufferInv
<1>3. CASE Next
  BY <1>1, <1>3, Mt32ShownStep, Sc55ShownStep, BitmapShownStep, BitmapTextShownStep,
     AbortShownStep, SkipShownStep DEF Next
<1>4. QED BY <1>1, <1>2, <1>3

LEMMA ShownInvRight ==
    ShownInv => /\ \A k \in DOMAIN sent : Right(ask, faulty, sent[k], Wanted(ask)[k])
                /\ stage = "done" => Len(sent) = Len(Wanted(ask))
                /\ stage = "aborted" => Wanted(ask)[Len(sent) + 1] = "sc55-bmp"
<1>1. SUFFICES ASSUME ShownInv PROVE
         /\ \A k \in DOMAIN sent : Right(ask, faulty, sent[k], Wanted(ask)[k])
         /\ stage = "done" => Len(sent) = Len(Wanted(ask))
         /\ stage = "aborted" => Wanted(ask)[Len(sent) + 1] = "sc55-bmp"
  OBVIOUS
<1>2. PICK u : u = SoFar(ask, stage)
  OBVIOUS
<1>3. PICK w : w = Wanted(ask)
  OBVIOUS
<1>4. u \in Seq(Messaged) /\ IsStart(u, w) /\ sent \in Seq(Messages)
  BY <1>1, <1>2, <1>3, Starts DEF ShownInv, BufferInv
<1>5. Len(sent) = Len(u) /\ \A k \in 1 .. Len(u) : Right(ask, faulty, sent[k], u[k])
  BY <1>1, <1>2, Zenon DEF ShownInv, Shows
<1>6. DOMAIN sent = 1 .. Len(u)
  BY <1>4, <1>5
<1>7. ASSUME NEW k \in DOMAIN sent
      PROVE  Right(ask, faulty, sent[k], w[k])
  <2>1. k \in 1 .. Len(u)
    BY <1>6, <1>7
  <2>2. w[k] = u[k]
    BY <1>4, <2>1, Zenon DEF IsStart
  <2>3. QED BY <1>5, <2>1, <2>2
<1>8. stage = "done" => Len(sent) = Len(w)
  BY <1>2, <1>3, <1>5, SoFarIs
<1>9. ASSUME stage = "aborted" PROVE w[Len(sent) + 1] = "sc55-bmp"
  <2>1. PICK v : v = SoFar(ask, "sc55-btxt")
    OBVIOUS
  <2>2. v = Append(u, "sc55-bmp")
    <3>1. ask.bitmap # NoFile
      BY <1>1, <1>9 DEF ShownInv
    <3>2. u = SoFar(ask, "sc55-bmp")
      BY <1>2, <1>9, SoFarIs
    <3>3. QED BY <2>1, <3>1, <3>2, SoFarIs DEF Adds
  <2>3. Grown(v, u, "sc55-bmp")
    <3>1. "sc55-bmp" \in Messaged
      BY DEF Messaged
    <3>2. QED BY <1>4, <2>2, <3>1, AppendIs
  <2>4. IsStart(v, w)
    BY <1>3, <2>1, Starts
  <2>5. Len(u) + 1 \in 1 .. Len(v) /\ v[Len(u) + 1] = "sc55-bmp"
    BY <2>3 DEF Grown
  <2>6. w[Len(u) + 1] = v[Len(u) + 1]
    BY <2>4, <2>5, Zenon DEF IsStart
  <2>7. QED BY <1>5, <2>5, <2>6
<1>10. QED BY <1>3, <1>7, <1>8, <1>9

LEMMA ShownInvDrops == ShownInv => DropsOnlyUnsendable
<1>1. SUFFICES ASSUME ShownInv, NEW k \in DOMAIN sent
               PROVE  Taken(sent[k]) <=> Sendable(ask, Wanted(ask)[k], sent[k])
  BY DEF DropsOnlyUnsendable
<1>2. QED BY <1>1, ShownInvRight, Zenon DEF Right

LEMMA ShownInvShows == ShownInv => ShowsWhatWasAsked
<1>1. SUFFICES ASSUME ShownInv PROVE ShowsWhatWasAsked
  OBVIOUS
<1>2. ASSUME NEW k \in DOMAIN sent, NEW s, s = Wanted(ask)[k], CanShow(ask, s)
      PROVE  Shown(sent[k]) = IF Sendable(ask, s, sent[k]) THEN Asked(ask, s) ELSE Nothing
  <2>1. Right(ask, faulty, sent[k], s)
    BY <1>1, <1>2, ShownInvRight
  <2>2. Clear(faulty, ask, s)
    BY <1>2, Zenon DEF CanShow, Clear
  <2>3. Content(sent[k]) = Asked(ask, s) /\ (Taken(sent[k]) <=> Sendable(ask, s, sent[k]))
    BY <2>1, <2>2, Zenon DEF Right
  <2>4. QED BY <2>3, Zenon DEF Shown
<1>3. stage = "aborted" => faulty \/ ~Good(ask.bitmap)
  BY <1>1 DEF ShownInv
<1>4. QED BY <1>1, <1>2, <1>3, ShownInvRight DEF ShowsWhatWasAsked

LEMMA AlwaysShownInv == Spec => []ShownInv
  BY ShownInvInit, ShownInvNext, PTL DEF Spec

\* Whatever the text, the bitmap and the font are and however reading the bitmap
\* fails, the displays drop a message exactly if its text has characters of eight bits
\* or its checksum comes out as 128 (mt32-pi.c:447-615).
THEOREM AlwaysDropsOnlyUnsendable == Spec => []DropsOnlyUnsendable
  BY AlwaysShownInv, ShownInvDrops, PTL

\* Whatever is asked for and whatever the font: the displays show it, if a message can
\* carry it, and nothing else, in order, the pictures pixel by pixel, but for a bitmap
\* whose medium fails or whose pixels begin behind the first 255 bytes; and the program
\* stops early only at a bitmap that is not good or whose medium fails
\* (mt32-pi.c:340-375, 447-606).
THEOREM AlwaysShowsWhatWasAsked == Spec => []ShowsWhatWasAsked
  BY AlwaysShownInv, ShownInvShows, PTL
=============================================================================
