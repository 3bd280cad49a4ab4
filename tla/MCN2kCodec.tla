----------------------------- MODULE MCN2kCodec -----------------------------
(* Every message of the library that has a Set function; no lists of its   *)
(* own were given by the program (the gateway gives none).                 *)
EXTENDS N2kCodec

AllPGNs == {c.pgn : c \in AllCodecs}
NoLists == [g \in N2kMessageGroups |-> {}]

\* An address that looks like an Escape, a time with the highest bit set.
MCHeaders == {[pri |-> 6, src |-> 16, dst |-> 255, time |-> <<1, 16, 0, 128>>],
              [pri |-> 3, src |-> 251, dst |-> 16, time |-> <<0, 0, 0, 0>>]}
=============================================================================
