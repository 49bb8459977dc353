------------------------------- MODULE GetOpt -------------------------------
(***************************************************************************)
(* getopt_long() of common_src/getopt.c as main() calls it: again and      *)
(* again, until it returns -1 or main ends the program.  It goes through   *)
(* argv once, and moves the operands it has passed behind the options it   *)
(* has read since, block by block and as late as it can.                   *)
(*                                                                         *)
(* argv[0] is left out, so argv[k] is the program's; argc is Len(argv)+1.  *)
(***************************************************************************)
EXTENDS OptionWords

CONSTANT CommandLines   \* what argv may be

IsSequence(s) == s \in Seq({s[k] : k \in DOMAIN s})

ASSUME CommandLinesAssumption ==
    \A words \in CommandLines : IsSequence(words)

VARIABLES argv,
          posixly_correct,  \* is it in the environment?
          optind, place,
          nonopt_start,     \* the block of operands passed, up to nonopt_end,
          nonopt_end,       \* or up to optind while no option followed it
          got,              \* what was returned: [opt, arg]
          status,           \* "reading", "end" (-1) or "usage"
          line              \* argv as it was

blockVars == <<nonopt_start, nonopt_end>>
vars == <<argv, posixly_correct, optind, place, blockVars, got, status, line>>

NoIndex == -1

-----------------------------------------------------------------------------
(* gcd() and permute_args() *)

\* Euclid. Mutant: it gives up after the first division.
GcdOnce(a, b) == IF a % b = 0 THEN b ELSE a % b
Gcd(a, b) ==
    LET gcd[p \in Nat \X (Nat \ {0})] ==
            LET c == p[1] % p[2] IN IF c = 0 THEN p[2] ELSE gcd[<<p[2], c>>]
    IN  gcd[<<a, b>>]

\* The inner loop goes round one cycle: the word at each position on its way moves
\* to the next. As many cycles as the blocks have common divisors cover them both.
NextPos(pos, panonopt_start, panonopt_end, opt_end) ==
    IF pos >= panonopt_end THEN pos - (panonopt_end - panonopt_start)
    ELSE pos + (opt_end - panonopt_end)
Cycle(cstart, panonopt_start, panonopt_end, opt_end) ==
    LET pos[j \in Nat] ==
            IF j = 0 THEN cstart
            ELSE NextPos(pos[j - 1], panonopt_start, panonopt_end, opt_end)
    IN  pos
SourceOf(k, panonopt_start, panonopt_end, opt_end) ==
    LET ncycle   == Gcd(panonopt_end - panonopt_start, opt_end - panonopt_end)
        cyclelen == (opt_end - panonopt_start) \div ncycle
        pos(i)   == Cycle(panonopt_end + i, panonopt_start, panonopt_end, opt_end)
        Steps    == {w \in (0 .. ncycle - 1) \X (1 .. cyclelen) : pos(w[1])[w[2]] = k}
        step     == CHOOSE w \in Steps : TRUE
    IN  IF Steps = {} THEN k ELSE pos(step[1])[step[2] - 1]

PermuteArgs(panonopt_start, panonopt_end, opt_end, nargv) ==
    [k \in DOMAIN nargv |-> nargv[SourceOf(k, panonopt_start, panonopt_end, opt_end)]]

-----------------------------------------------------------------------------
(* getopt_internal() *)

Init ==
    /\ argv \in CommandLines /\ line = argv
    /\ posixly_correct \in BOOLEAN
    /\ optind = 1 /\ place = EMSG
    /\ nonopt_start = NoIndex /\ nonopt_end = NoIndex
    /\ got = <<>> /\ status = "reading"

\* At "start:", with the next word to look at.
AtWord == status = "reading" /\ place = EMSG /\ optind <= Len(argv)

\* An option ends the block of operands before it. Mutant: if there is none, too.
EndOfNoBlock(end) == IF place = EMSG /\ nonopt_end = NoIndex THEN end ELSE nonopt_end
EndOfBlock(end) ==
    IF place = EMSG /\ nonopt_start # NoIndex /\ nonopt_end = NoIndex
    THEN end ELSE nonopt_end

\* Return -1: what was read stands in front of index opt_end, and the block of
\* operands is moved there.
EndBehind(opt_end, end) ==
    /\ IF end # NoIndex
       THEN /\ argv' = PermuteArgs(nonopt_start, end, opt_end, argv)
            /\ optind' = opt_end - (end - nonopt_start)
       ELSE /\ optind' = IF nonopt_start # NoIndex THEN nonopt_start ELSE opt_end
            /\ UNCHANGED argv
    /\ nonopt_start' = NoIndex /\ nonopt_end' = NoIndex
    /\ status' = "end"
    /\ UNCHANGED <<place, posixly_correct, got, line>>

EndOfVector ==
    /\ status = "reading" /\ place = EMSG /\ optind > Len(argv)
    /\ EndBehind(optind, nonopt_end)

DashDash ==
    /\ AtWord /\ argv[optind] = DoubleDash
    /\ EndBehind(optind + 1, EndOfBlock(optind))

\* POSIX: stop at the first operand.
StopAtNonOption ==
    /\ AtWord /\ ~IsOption(argv[optind]) /\ posixly_correct
    /\ status' = "end"
    /\ UNCHANGED <<argv, posixly_correct, optind, place, blockVars, got, line>>

\* The first of a block, one more of it, or the first behind options: then the
\* block before them is moved up to here. Mutants: it is forgotten; optind stays.
SkipForgets ==
    /\ AtWord /\ ~IsOption(argv[optind]) /\ ~posixly_correct
    /\ nonopt_start' = IF nonopt_start = NoIndex \/ nonopt_end # NoIndex
                       THEN optind ELSE nonopt_start
    /\ nonopt_end' = NoIndex /\ optind' = optind + 1
    /\ UNCHANGED <<argv, posixly_correct, place, got, status, line>>
SkipStays ==
    /\ AtWord /\ ~IsOption(argv[optind]) /\ ~posixly_correct
    /\ nonopt_start' = optind /\ nonopt_end' = NoIndex
    /\ UNCHANGED <<argv, optind, posixly_correct, place, got, status, line>>
SkipNonOption ==
    /\ AtWord /\ ~IsOption(argv[optind]) /\ ~posixly_correct
    /\ IF nonopt_start = NoIndex
       THEN nonopt_start' = optind /\ UNCHANGED <<argv, nonopt_end>>
       ELSE IF nonopt_end # NoIndex
       THEN /\ argv' = PermuteArgs(nonopt_start, nonopt_end, optind, argv)
            /\ nonopt_start' = optind - (nonopt_end - nonopt_start)
            /\ nonopt_end' = NoIndex
       ELSE UNCHANGED <<argv, blockVars>>
    /\ optind' = optind + 1
    /\ UNCHANGED <<posixly_correct, place, got, status, line>>

\* The word at optind is left behind when nothing is left of it, with those the
\* option took.
Return(p) ==
    LET r == ReadOption(p, SubSeq(argv, optind + 1, Len(argv)))
    IN  /\ place' = r.place
        /\ optind' = IF r.place = EMSG THEN optind + 1 + r.takes ELSE optind
        /\ nonopt_end' = EndOfBlock(optind)
        /\ got' = Append(got, [opt |-> r.opt, arg |-> r.arg])
        /\ status' = IF EndsProgram(r.opt) THEN "usage" ELSE status
        /\ UNCHANGED <<argv, posixly_correct, nonopt_start, line>>

ReadWord ==
    /\ AtWord /\ IsOption(argv[optind]) /\ argv[optind] # DoubleDash
    /\ Return(Behind(argv[optind]))
ReadOn == status = "reading" /\ place # EMSG /\ Return(place)

Next == \/ EndOfVector \/ DashDash \/ StopAtNonOption \/ SkipNonOption
        \/ ReadWord \/ ReadOn

SafeSpec == Init /\ [][Next]_vars

\* A sequential program.
Spec == SafeSpec /\ WF_vars(Next)

-----------------------------------------------------------------------------
\* Ranges, and how the indices lie to each other: nothing is read or moved outside
\* argv, and no block that is exchanged is empty, for which gcd() would divide by
\* zero (getopt.c:135-178, 356-440).
BlocksInOrder ==
    /\ optind \in 1 .. Len(argv) + 1
    /\ place # EMSG => optind <= Len(argv)
    /\ nonopt_start = NoIndex => nonopt_end = NoIndex
    /\ nonopt_start # NoIndex => nonopt_start \in 1 .. optind - 1
    /\ nonopt_end # NoIndex =>
           /\ nonopt_end \in nonopt_start + 1 .. optind
           /\ place = EMSG => nonopt_end < optind

\* To main() it is as if argv were read word by word and nothing moved: the same
\* options with the same arguments in the same order, and the operands, in their
\* order, from optind on (getopt.c:128-178, 349-504).
Block ==
    IF nonopt_start = NoIndex THEN <<>>
    ELSE SubSeq(argv, nonopt_start,
                (IF nonopt_end = NoIndex THEN optind ELSE nonopt_end) - 1)
From(k) == SubSeq(argv, k, Len(argv))
ToRead == IF status = "end" THEN <<>>
          ELSE From(IF place = EMSG THEN optind ELSE optind + 1)
Passed == IF status = "end" THEN From(optind) ELSE Block
Line == INSTANCE CommandLine WITH
    todo <- ToRead, operands <- Passed, posixly <- posixly_correct
ReadsAsWritten == Line!Spec

\* When the options are over argv holds the words it held, each once: first options
\* and words behind an option, which may be its argument, then the others, both parts
\* in their old order (getopt.c:122-126, "keeping the same order of arguments in each
\* block").
OptionOrNext(k) == IsOption(line[k]) \/ (k > 1 /\ IsOption(line[k - 1]))
Sorted(from) ==
    /\ \A k \in DOMAIN from : argv[k] = line[from[k]]
    /\ \A j, k \in DOMAIN from : j < k /\ (k < optind \/ optind <= j) => from[j] < from[k]
    /\ \A k \in DOMAIN from : k < optind => OptionOrNext(from[k])
    /\ \A i \in DOMAIN line : \E k \in DOMAIN from : from[k] = i
OptionsFirst ==
    status = "end" =>
        DOMAIN argv = DOMAIN line /\ \E from \in [DOMAIN argv -> DOMAIN line] : Sorted(from)

\* A call always returns, and main's loop ends.
Terminates == <>(status # "reading")
=============================================================================
