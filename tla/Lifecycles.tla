----------------------------- MODULE Lifecycles -----------------------------
(***************************************************************************)
(* The status tables of the three entities whose events the sync receivers *)
(* put in order, and EVENT_STAGE_ORDER (server/apps/sync/services.py), the *)
(* order the receivers hold them to.                                       *)
(***************************************************************************)
EXTENDS Naturals

OrderStatus == {"none", "pricing_validated", "payment_pending", "paid",
                "queued", "preparing", "ready", "picked_up",
                "refund_pending", "refunded", "canceled", "expired"}

\* ALLOWED_ORDER_TRANSITIONS; "none" is an order not yet in the database and
\* "draft" is a status create_order never gives.
Allowed ==
    [s \in OrderStatus |->
       CASE s = "pricing_validated" -> {"payment_pending", "canceled"}
         [] s = "payment_pending"   -> {"paid", "canceled"}
         [] s = "paid"              -> {"queued", "refund_pending", "canceled"}
         [] s = "queued"            -> {"preparing", "refund_pending", "canceled"}
         [] s = "preparing"         -> {"ready", "refund_pending"}
         [] s = "ready"             -> {"picked_up", "expired"}
         [] s = "refund_pending"    -> {"refunded"}
         [] OTHER                   -> {}]

OrderEvent == OrderStatus \cup {"created", "failed"}

\* EVENT_STAGE_ORDER, the order.* keys.
OrderStage ==
    [e \in OrderEvent |->
       CASE e = "created"         -> 0
         [] e = "payment_pending" -> 1
         [] e = "paid"            -> 2
         [] e = "queued"          -> 3
         [] e = "preparing"       -> 4
         [] e = "ready"           -> 5
         [] e \in {"picked_up", "expired"} -> 6
         [] e = "refund_pending"  -> 7
         [] OTHER                 -> 8]

-----------------------------------------------------------------------------
TransferStatus == {"none", "requested", "approved", "reserved", "in_transit",
                   "delivered", "received"}

\* The status each service of a transfer asks for and the one it leaves.
TransferNext ==
    [s \in TransferStatus |->
       CASE s = "none"       -> {"requested"}
         [] s = "requested"  -> {"approved"}
         [] s = "approved"   -> {"reserved"}
         [] s = "reserved"   -> {"in_transit"}
         [] s = "in_transit" -> {"delivered"}
         [] s = "delivered"  -> {"received"}
         [] OTHER            -> {}]

\* transfer.shipped is the event of the status in_transit; the others carry
\* the name of their status.
TransferEventOf(s) == IF s = "in_transit" THEN "shipped" ELSE s

TransferEvent == {TransferEventOf(s) : s \in TransferStatus \ {"none"}}

TransferStage ==
    [e \in TransferEvent |->
       CASE e = "requested" -> 0
         [] e = "approved"  -> 1
         [] e = "reserved"  -> 2
         [] e = "shipped"   -> 3
         [] e = "delivered" -> 4
         [] e = "received"  -> 5]

-----------------------------------------------------------------------------
RepairStatus == {"none", "scheduled", "acknowledged", "in_progress", "blocked",
                 "completed", "closed", "canceled"}

\* REPAIR_ASSIGNMENT_TRANSITIONS, and the creation of the assignment.
RepairAllowed ==
    [s \in RepairStatus |->
       CASE s = "none"         -> {"scheduled"}
         [] s = "scheduled"    -> {"acknowledged", "in_progress", "canceled"}
         [] s = "acknowledged" -> {"in_progress", "blocked", "canceled"}
         [] s = "in_progress"  -> {"blocked", "completed", "canceled"}
         [] s = "blocked"      -> {"acknowledged", "in_progress", "completed", "canceled"}
         [] s = "completed"    -> {"closed"}
         [] OTHER              -> {}]

\* REPAIR_STATUS_EVENT_TYPES, and create_repair_assignment's event.
RepairEventOf(s) ==
    CASE s = "scheduled"   -> "created"
      [] s = "in_progress" -> "started"
      [] OTHER             -> s

\* "updated" is the event of add_repair_assignment_note.
RepairEvent == {RepairEventOf(s) : s \in RepairStatus \ {"none"}} \cup {"updated"}

RepairStage ==
    [e \in RepairEvent |->
       CASE e = "created"      -> 0
         [] e = "acknowledged" -> 1
         [] e \in {"started", "updated"} -> 2
         [] e = "blocked"      -> 3
         [] e = "completed"    -> 4
         [] OTHER              -> 5]

-----------------------------------------------------------------------------
(* A move: the status left, the status reached, the event announced. *)

MovesOf(next, event) ==
    UNION {{[from |-> s, to |-> t, event |-> event[t]] : t \in next[s]} : s \in DOMAIN next}

\* A failed or expired payment is announced once more after the cancellation.
OrderMoves ==
    MovesOf(Allowed, [s \in OrderStatus |-> s])
      \cup {[from |-> "none", to |-> "pricing_validated", event |-> "created"],
            [from |-> "canceled", to |-> "canceled", event |-> "failed"]}

TransferMoves ==
    MovesOf(TransferNext, [s \in TransferStatus |-> TransferEventOf(s)])

\* No service cancels an assignment, so the moves to "canceled" are not taken;
\* a note may be added in any status.
RepairMoves ==
    MovesOf([s \in RepairStatus |-> RepairAllowed[s] \ {"canceled"}],
            [s \in RepairStatus |-> RepairEventOf(s)])
      \cup {[from |-> s, to |-> s, event |-> "updated"] : s \in RepairStatus \ {"none"}}

=============================================================================
