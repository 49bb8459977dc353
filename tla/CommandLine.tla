----------------------------- MODULE CommandLine -----------------------------
(***************************************************************************)
(* How a command line reads, with nothing moved in it: word by word, the   *)
(* options in their order, the operands in theirs.  "--" ends the options; *)
(* so does the first operand if POSIXLY_CORRECT is set.                    *)
(***************************************************************************)
EXTENDS OptionWords

CONSTANT CommandLines

VARIABLES todo,         \* the words not read yet
          place,        \* what is left of the word being read
          posixly,      \* is POSIXLY_CORRECT set?
          operands,     \* those passed
          got,          \* the options
          status        \* "reading", "end" or "usage"

vars == <<todo, place, posixly, operands, got, status>>

Init ==
    /\ todo \in CommandLines /\ posixly \in BOOLEAN
    /\ place = EMSG /\ operands = <<>> /\ got = <<>> /\ status = "reading"

AtWord == status = "reading" /\ place = EMSG /\ todo # <<>>

\* The last words are operands, those passed before them.
EndWith(rest) ==
    /\ status' = "end" /\ todo' = <<>>
    /\ operands' = operands \o rest
    /\ UNCHANGED <<place, posixly, got>>

EndOfLine == status = "reading" /\ place = EMSG /\ todo = <<>> /\ EndWith(<<>>)
DashDash  == AtWord /\ Head(todo) = DoubleDash /\ EndWith(Tail(todo))
FirstOperand == AtWord /\ ~IsOption(Head(todo)) /\ posixly /\ EndWith(todo)

PassOperand ==
    /\ AtWord /\ ~IsOption(Head(todo)) /\ ~posixly
    /\ operands' = Append(operands, Head(todo)) /\ todo' = Tail(todo)
    /\ UNCHANGED <<place, posixly, got, status>>

Take(p, after) ==
    LET r == ReadOption(p, after)
    IN  /\ got' = Append(got, [opt |-> r.opt, arg |-> r.arg])
        /\ place' = r.place
        /\ todo' = SubSeq(after, 1 + r.takes, Len(after))
        /\ status' = IF EndsProgram(r.opt) THEN "usage" ELSE status
        /\ UNCHANGED <<posixly, operands>>

TakeWord ==
    /\ AtWord /\ IsOption(Head(todo)) /\ Head(todo) # DoubleDash
    /\ Take(Behind(Head(todo)), Tail(todo))
TakeNextLetter == status = "reading" /\ place # EMSG /\ Take(place, todo)

Next == \/ EndOfLine \/ DashDash \/ FirstOperand \/ PassOperand
        \/ TakeWord \/ TakeNextLetter

Spec == Init /\ [][Next]_vars
=============================================================================
