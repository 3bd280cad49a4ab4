--------------------------- MODULE MCAddressClaim ---------------------------
(* Two nodes, the first with two devices; NAMEs in several orders. *)
EXTENDS AddressClaim

Nodes3 == [d \in Devices |-> IF d \in {"a0", "a1"} THEN "A" ELSE d]
Places == [d \in Devices |-> IF d = "a1" THEN 1 ELSE 0]
Names == {[d \in Devices |-> CASE d = "a0" -> x[1] [] d = "a1" -> x[2] [] OTHER -> x[3]] :
            x \in {<<1, 3, 2>>, <<1, 2, 1>>, <<3, 2, 1>>}}
=============================================================================
