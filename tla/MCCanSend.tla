----------------------------- MODULE MCCanSend -----------------------------
(* CanSend with one single-frame and one fast-packet PGN besides the       *)
(* product information.                                                    *)
EXTENDS CanSend

Frames1to3 == [p \in AllPgns |-> CASE p = "heading" -> 1 [] p = "gnss" -> 3 [] OTHER -> 2]
=============================================================================
