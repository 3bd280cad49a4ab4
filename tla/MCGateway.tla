----------------------------- MODULE MCGateway -----------------------------
(* Gateway with datagrams of one or two sentences. *)
EXTENDS Gateway

OneOrTwo == {<<k>> : k \in Kinds} \cup {<<k, l>> : k, l \in Kinds}
=============================================================================
