----------------------------- MODULE MCPeerSync -----------------------------
(* Constants of the runs of PeerSync. *)
EXTENDS PeerSync

\* Two stores that own one entity each; the first announces it twice,
\* the second time a step back in EVENT_STAGE_ORDER.
Two_Nodes == {"a", "b"}
Two_Entities == {"x", "y"}
Two_Owner == [k \in Two_Entities |-> IF k = "x" THEN "a" ELSE "b"]
Twice_Once == [k \in Two_Entities |-> IF k = "x" THEN 2 ELSE 1]
Back == [k \in Two_Entities |-> IF k = "x" THEN <<2, 1>> ELSE <<1>>]

=============================================================================
