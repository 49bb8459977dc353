---------------------------- MODULE MCSyxPlayer ----------------------------
(* Every file of at most MaxLen bytes. *)
EXTENDS SyxPlayer
CONSTANT MaxLen
AllFiles == UNION {[1 .. k -> Byte] : k \in 0 .. MaxLen}
=============================================================================
