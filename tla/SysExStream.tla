----------------------------- MODULE SysExStream -----------------------------
(***************************************************************************)
(* What "-Y/--syx FILE" promises, without buffers, offsets or seeks: the   *)
(* SysEx messages of the file go out whole, in the order of the file, none *)
(* skipped and none twice, until playing ends in success or in failure.    *)
(***************************************************************************)
EXTENDS SysExBytes

CONSTANT Files      \* what the file may hold

VARIABLES file,     \* the contents of the file
          last,     \* first and last offset of the message sent last
          status    \* "playing", "success" or "failure"

vars == <<file, last, status>>

Init == file \in Files /\ last = NoMessage /\ status = "playing"

SendNext ==
    /\ status = "playing"
    /\ \E s, e \in Offsets(file) :
          /\ IsNextMessage(file, last.final + 1, s, e)
          /\ last' = [first |-> s, final |-> e]
    /\ UNCHANGED <<file, status>>

Succeed ==
    /\ status = "playing" /\ last # NoMessage
    /\ status' = "success"
    /\ UNCHANGED <<file, last>>

GiveUp ==
    /\ status = "playing"
    /\ status' = "failure"
    /\ UNCHANGED <<file, last>>

Next == SendNext \/ Succeed \/ GiveUp

Spec == Init /\ [][Next]_vars
=============================================================================
