---------------------------- MODULE OrderContract ---------------------------
(***************************************************************************)
(* What the order and payment handlers promise for each order, whatever    *)
(* requests, webhooks and rollbacks it takes: the committed statuses of    *)
(* the order lifecycle, the SALE and REFUND ledger entries that go with    *)
(* them, and the units an accepted order takes from the store.  PAID and   *)
(* REFUND_PENDING exist only inside a transaction, so no step ends there.  *)
(* A request that saves a row another has changed since undoes what the    *)
(* other did (Overtake): from then on the contract promises nothing of     *)
(* where that order goes, and still everything of the others.              *)
(***************************************************************************)
EXTENDS Naturals

CONSTANTS Orders, Need, Stock

VARIABLES status, sold, refunded, stock, raced

cvars == <<status, sold, refunded, stock, raced>>

Init ==
    /\ status = [o \in Orders |-> "none"]
    /\ sold = [o \in Orders |-> FALSE]
    /\ refunded = [o \in Orders |-> FALSE]
    /\ stock = Stock
    /\ raced = {}

Move(o, from, to) == status[o] \in from /\ status' = [status EXCEPT ![o] = to]

Place(o) ==
    Move(o, {"none"}, "pricing_validated") /\ UNCHANGED <<sold, refunded, stock, raced>>

Await(o) ==
    Move(o, {"pricing_validated"}, "payment_pending") /\ UNCHANGED <<sold, refunded, stock, raced>>

Cancel(o) ==
    /\ Move(o, {"pricing_validated", "payment_pending"}, "canceled")
    /\ UNCHANGED <<sold, refunded, stock, raced>>

\* Paid and accepted at once; the store gives up the units exactly then.
Accept(o) ==
    /\ Move(o, {"payment_pending"}, "queued")
    /\ sold' = [sold EXCEPT ![o] = TRUE]
    /\ stock >= Need[o]
    /\ stock' = stock - Need[o]
    /\ UNCHANGED <<refunded, raced>>

Advance(o) ==
    /\ \/ Move(o, {"queued"}, "preparing")
       \/ Move(o, {"preparing"}, "ready")
       \/ Move(o, {"ready"}, "picked_up")
    /\ UNCHANGED <<sold, refunded, stock, raced>>

\* Only before the drink is ready, once, and the units come back.
Refund(o) ==
    /\ Move(o, {"queued", "preparing"}, "refunded")
    /\ refunded' = [refunded EXCEPT ![o] = TRUE]
    /\ stock' = stock + Need[o]
    /\ UNCHANGED <<sold, raced>>

\* A payment that arrives before the order awaits it, or after the order was
\* canceled, is only booked.
BookPayment(o) ==
    /\ status[o] \in {"pricing_validated", "canceled"}
    /\ sold' = [sold EXCEPT ![o] = TRUE]
    /\ UNCHANGED <<status, refunded, stock, raced>>

\* The entries stay, and the order's units move at most once.
Overtake(o) ==
    /\ raced' = raced \cup {o}
    /\ \E s \in {"pricing_validated", "payment_pending", "queued", "preparing", "ready",
                "picked_up", "refunded", "canceled"} : status' = [status EXCEPT ![o] = s]
    /\ sold' \in {sold, [sold EXCEPT ![o] = TRUE]}
    /\ refunded' \in {refunded, [refunded EXCEPT ![o] = TRUE]}
    /\ stock' \in {stock, stock - Need[o], stock + Need[o]} \cap Nat

Next ==
    \E o \in Orders :
        \/ Place(o)
        \/ Await(o)
        \/ Cancel(o)
        \/ Accept(o)
        \/ Advance(o)
        \/ Refund(o)
        \/ BookPayment(o)
        \/ Overtake(o)

Spec == Init /\ [][Next]_cvars

=============================================================================
