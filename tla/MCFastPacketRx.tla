--------------------------- MODULE MCFastPacketRx ---------------------------
(* A line with fast packets of two or three frames, one that sends fast    *)
(* packets to two destinations, and one with single frames.                *)
EXTENDS FastPacketRx

LengthsOf == [l \in Lines |-> CASE l = "gnss" -> {2, 3} [] l = "route" -> {2} [] OTHER -> {1}]
DestsOf == [l \in Lines |-> IF l = "route" THEN {1, 2} ELSE {255}]
MsgsOf == [l \in Lines |-> CASE l = "gnss" -> 3 [] l = "route" -> 2 [] OTHER -> 1]
=============================================================================
