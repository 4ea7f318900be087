----------------------------- MODULE MCConsole -----------------------------
(* Instances of Console for TLC.                                            *)
EXTENDS Console

\* Process p1 types past the end of its buffer, the others empty lines.
Lines == [p \in Proc |-> IF p = "p1" THEN INBUFSIZE + 1 ELSE 0]

=============================================================================
