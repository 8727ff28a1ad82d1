---------------------------- MODULE MCSyncOutbox ----------------------------
(* Constants of the runs of SyncOutbox. *)
EXTENDS SyncOutbox

Store_Global == <<"store", "super_admin">>

\* A visit that is created, noted and acknowledged: the acknowledgement of a noted
\* one is a step back in EVENT_STAGE_ORDER.
Noted_Moves ==
    {m \in RepairMoves : m.from \in {"none", "scheduled"} /\ m.to \in {"scheduled", "acknowledged"}}

=============================================================================
