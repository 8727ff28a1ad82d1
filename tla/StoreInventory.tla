--------------------------- MODULE StoreInventory ---------------------------
(***************************************************************************)
(* The balances of one item at stores and hubs (server/apps/inventory,     *)
(* server/apps/supply_hubs): supply transfers, supplier replenishments,    *)
(* counts and corrections by hand, and the units orders take.              *)
(*                                                                         *)
(* The services of a transfer lock the transfer row, and those that take   *)
(* from a balance lock the balance too: one step each.  receive_transfer,  *)
(* receive_supplier_replenishment and adjust_store_inventory read the      *)
(* balance they add to without a lock and save the whole row: the read and *)
(* the save are two steps, and other requests act between them.            *)
(***************************************************************************)
EXTENDS Lifecycles, Integers, FiniteSetsExt

CONSTANTS
    Locations,    \* stores and supply hubs
    Stores,       \* those of them that sell, and watch their reorder threshold
    Transfers,
    Supplies,     \* supplier replenishment orders
    Requests,     \* web workers
    Source, Destination, \* of each transfer
    Asked,        \* quantity_requested of each transfer
    Supplied,     \* store and quantity of each replenishment
    Stock,        \* on hand at the start
    Threshold,    \* reorder_threshold
    Deltas,       \* corrections staff make
    MaxAdjust,    \* bound: corrections
    MaxSold       \* bound: units orders hold at a time

ASSUME PlaceAssumption == Stores \subseteq Locations
\* The rows of database tables.
ASSUME FiniteAssumption ==
    IsFiniteSet(Locations) /\ IsFiniteSet(Transfers) /\ IsFiniteSet(Supplies)
ASSUME TransferAssumption ==
    /\ Source \in [Transfers -> Locations]
    /\ Destination \in [Transfers -> Stores]
    /\ \A t \in Transfers : Source[t] # Destination[t]
    /\ Asked \in [Transfers -> Nat \ {0}]
ASSUME SupplyAssumption == Supplied \in [Supplies -> [store: Stores, quantity: Nat \ {0}]]
ASSUME StockAssumption == Stock \in [Locations -> Nat] /\ Threshold \in Nat
ASSUME BoundAssumption == Deltas \subseteq Int /\ MaxAdjust \in Nat /\ MaxSold \in Nat

VARIABLES
    balance,     \* StoreInventoryBalance and HubInventoryBalance rows
    transfer,    \* SupplyTransfer rows, with quantity_approved
    supply,      \* SupplierReplenishment rows
    alerts,      \* open RestockAlert rows of each store
    sold,        \* units of each store that orders hold
    corrected,   \* net correction of each store by hand
    adjusts,     \* number of corrections
    req,         \* the request each worker serves
    stale,       \* history: a request saved a balance, or settled a
                 \* replenishment, that had changed since it was read
    crossed      \* history: stores whose alerts were evaluated while a
                 \* correction was evaluating them

vars == <<balance, transfer, supply, alerts, sold, corrected, adjusts, req, stale, crossed>>

-----------------------------------------------------------------------------
Balance == [onHand: Nat, reserved: Nat]
TransferRow == [status: TransferStatus, approved: Nat]
SupplyStatus == {"ordered", "received", "canceled"}

Idle == [op |-> "idle"]

\* No request: who evaluates the alerts in the one step of an order.
Nobody == "nobody"
ASSUME RequestAssumption == Nobody \notin Requests

\* Requests between two of their database accesses.  row: the balance held in
\* memory; found: whether update_or_create has found an open alert.
Receiving == [op: {"receive"}, transfer: Transfers, row: Balance]
Loaded == [op: {"supply", "cancel"}, supply: Supplies]
Adding == [op: {"add"}, supply: Supplies, row: Balance]
Adjusting == [op: {"adjust"}, store: Stores, row: Balance, delta: Deltas]
Alerting == [op: {"evaluate"}, store: Stores, row: Balance]
Creating == [op: {"alert"}, store: Stores]
Request == {Idle} \cup Receiving \cup Loaded \cup Adding \cup Adjusting \cup Alerting \cup Creating

TypeOK ==
    /\ balance \in [Locations -> Balance]
    /\ transfer \in [Transfers -> TransferRow]
    /\ supply \in [Supplies -> SupplyStatus]
    /\ alerts \in [Stores -> Nat]
    /\ sold \in [Stores -> Nat]
    /\ corrected \in [Stores -> Int]
    /\ adjusts \in Nat
    /\ stale \in BOOLEAN /\ crossed \subseteq Stores
    /\ req \in [Requests -> Request]

Init ==
    /\ balance = [l \in Locations |-> [onHand |-> Stock[l], reserved |-> 0]]
    /\ transfer = [t \in Transfers |-> [status |-> "none", approved |-> 0]]
    /\ supply = [s \in Supplies |-> "ordered"]
    /\ alerts = [l \in Stores |-> IF Stock[l] <= Threshold THEN 1 ELSE 0]
    /\ sold = [l \in Stores |-> 0]
    /\ corrected = [l \in Stores |-> 0]
    /\ adjusts = 0
    /\ req = [r \in Requests |-> Idle]
    /\ stale = FALSE
    /\ crossed = {}

-----------------------------------------------------------------------------
(* Shared by the services *)

Available(l) == balance[l].onHand - balance[l].reserved

\* The check of apply_balance_change, and of the table's constraints.
Valid(onHand, reserved) == onHand >= 0 /\ reserved >= 0 /\ reserved <= onHand

\* apply_balance_change: the row in memory, changed, is saved as a whole.
Change(l, row, onHandDelta, reservedDelta) ==
    /\ Valid(row.onHand + onHandDelta, row.reserved + reservedDelta)
    /\ balance' = [balance EXCEPT ![l] =
                     [onHand |-> row.onHand + onHandDelta,
                      reserved |-> row.reserved + reservedDelta]]

Stale(l, row) == stale' = (stale \/ row # balance[l])

\* A correction of the store between its look at the alerts and its commit.
Correcting(l, r) ==
    \E s \in Requests \ {r} : req[s].op \in {"evaluate", "alert"} /\ req[s].store = l

Crossing(l, r) == crossed' = IF Correcting(l, r) THEN crossed \cup {l} ELSE crossed

\* Mutant: a shortage opens another alert each time.
Evaluate_Always(l, onHand) ==
    alerts' = [alerts EXCEPT ![l] = IF onHand > Threshold THEN 0 ELSE @ + 1]

\* evaluate_restock_alert inside a transaction that has saved the balance, and
\* so holds its row: above the threshold the open alerts are resolved, below it
\* one is found or created; two open ones make update_or_create raise.
Raises(l, onHand) == onHand <= Threshold /\ alerts[l] > 1

Evaluate(l, onHand) ==
    /\ ~Raises(l, onHand)
    /\ alerts' = [alerts EXCEPT ![l] = IF onHand > Threshold THEN 0 ELSE 1]

Start(r, request) == req[r] = Idle /\ req' = [req EXCEPT ![r] = request]
Serving(r, op) == req[r].op = op
Done(r) == req' = [req EXCEPT ![r] = Idle]

-----------------------------------------------------------------------------
(* Supply transfers *)

\* A receive request between its two steps holds the transfer row.
Locked(t) == \E r \in Requests : Serving(r, "receive") /\ req[r].transfer = t

Moves(t, from, to) ==
    /\ ~Locked(t)
    /\ transfer[t].status = from
    /\ to \in TransferNext[from]
    /\ transfer' = [transfer EXCEPT ![t].status = to]

\* create_transfer_request and request_transfer
RequestTransfer(t) ==
    /\ Moves(t, "none", "requested")
    /\ UNCHANGED <<balance, supply, alerts, sold, corrected, adjusts, req, stale, crossed>>

\* approve_transfer: no more than was requested.
ApproveTransfer(t) ==
    /\ ~Locked(t)
    /\ transfer[t].status = "requested"
    /\ \E q \in 1 .. Asked[t] :
         transfer' = [transfer EXCEPT ![t] = [status |-> "approved", approved |-> q]]
    /\ UNCHANGED <<balance, supply, alerts, sold, corrected, adjusts, req, stale, crossed>>

\* reserve_transfer_inventory, on the locked balance of the source.
ReserveTransfer(t) ==
    /\ Available(Source[t]) >= transfer[t].approved
    /\ Change(Source[t], balance[Source[t]], 0, transfer[t].approved)
    /\ Moves(t, "approved", "reserved")
    /\ UNCHANGED <<supply, alerts, sold, corrected, adjusts, req, stale, crossed>>

\* Mutant: shipped units stay reserved.
ShipTransfer_KeepsReserved(t) ==
    /\ Change(Source[t], balance[Source[t]], 0 - transfer[t].approved, 0)
    /\ Moves(t, "reserved", "in_transit")
    /\ UNCHANGED <<supply, alerts, sold, corrected, adjusts, req, stale, crossed>>

\* ship_transfer: the units leave; the source's threshold is not looked at.
ShipTransfer(t) ==
    /\ Change(Source[t], balance[Source[t]], 0 - transfer[t].approved, 0 - transfer[t].approved)
    /\ Moves(t, "reserved", "in_transit")
    /\ UNCHANGED <<supply, alerts, sold, corrected, adjusts, req, stale, crossed>>

DeliverTransfer(t) ==
    /\ Moves(t, "in_transit", "delivered")
    /\ UNCHANGED <<balance, supply, alerts, sold, corrected, adjusts, req, stale, crossed>>

\* Mutant: the transfer row is read without select_for_update.
ReceiveRead_Unlocked(r, t) ==
    /\ transfer[t].status = "delivered"
    /\ Start(r, [op |-> "receive", transfer |-> t, row |-> balance[Destination[t]]])
    /\ UNCHANGED <<balance, transfer, supply, alerts, sold, corrected, adjusts, stale, crossed>>

\* receive_transfer up to get_store_balance.  quantity_received is 0, so the
\* approved quantity is what arrives.
ReceiveRead(r, t) ==
    /\ ~Locked(t)
    /\ transfer[t].status = "delivered"
    /\ Start(r, [op |-> "receive", transfer |-> t, row |-> balance[Destination[t]]])
    /\ UNCHANGED <<balance, transfer, supply, alerts, sold, corrected, adjusts, stale, crossed>>

\* Mutant: the status is left at delivered.
ReceiveSave_Again(r) ==
    LET t == req[r].transfer
        l == Destination[t]
    IN  /\ Serving(r, "receive")
        /\ Change(l, req[r].row, transfer[t].approved, 0)
        /\ Evaluate(l, req[r].row.onHand + transfer[t].approved)
        /\ Done(r)
        /\ Stale(l, req[r].row)
        /\ Crossing(l, r)
        /\ UNCHANGED <<transfer, supply, sold, corrected, adjusts>>

\* The rest of it, and the commit.
ReceiveSave(r) ==
    LET t == req[r].transfer
        l == Destination[t]
    IN  /\ Serving(r, "receive")
        /\ Change(l, req[r].row, transfer[t].approved, 0)
        /\ Evaluate(l, req[r].row.onHand + transfer[t].approved)
        /\ transfer' = [transfer EXCEPT ![t].status = "received"]
        /\ Done(r)
        /\ Stale(l, req[r].row)
        /\ Crossing(l, r)
        /\ UNCHANGED <<supply, sold, corrected, adjusts>>

-----------------------------------------------------------------------------
(* Supplier replenishments: the view loads the row, with no lock *)

LoadSupply(r, s, op) ==
    /\ supply[s] = "ordered"
    /\ Start(r, [op |-> op, supply |-> s])
    /\ UNCHANGED <<balance, transfer, supply, alerts, sold, corrected, adjusts, stale, crossed>>

\* receive_supplier_replenishment reads the balance...
AddRead(r) ==
    /\ Serving(r, "supply")
    /\ req' = [req EXCEPT ![r] = [op |-> "add", supply |-> req[r].supply,
                                  row |-> balance[Supplied[req[r].supply].store]]]
    /\ UNCHANGED <<balance, transfer, supply, alerts, sold, corrected, adjusts, stale, crossed>>

\* ...and saves it and the replenishment.
AddSave(r) ==
    LET s == req[r].supply
        l == Supplied[s].store
    IN  /\ Serving(r, "add")
        /\ Change(l, req[r].row, Supplied[s].quantity, 0)
        /\ Evaluate(l, req[r].row.onHand + Supplied[s].quantity)
        /\ supply' = [supply EXCEPT ![s] = "received"]
        /\ Done(r)
        /\ stale' = (stale \/ req[r].row # balance[l] \/ supply[s] # "ordered")
        /\ Crossing(l, r)
        /\ UNCHANGED <<transfer, sold, corrected, adjusts>>

\* Where the alerts raise, the transaction is rolled back.
RollBack(r) ==
    /\ \/ /\ Serving(r, "receive")
          /\ LET t == req[r].transfer
             IN  Raises(Destination[t], req[r].row.onHand + transfer[t].approved)
       \/ /\ Serving(r, "add")
          /\ LET order == Supplied[req[r].supply]
             IN  Raises(order.store, req[r].row.onHand + order.quantity)
    /\ Done(r)
    /\ UNCHANGED <<balance, transfer, supply, alerts, sold, corrected, adjusts, stale, crossed>>

\* cancel_supplier_replenishment
CancelSupply(r) ==
    /\ Serving(r, "cancel")
    /\ supply' = [supply EXCEPT ![req[r].supply] = "canceled"]
    /\ Done(r)
    /\ stale' = (stale \/ supply[req[r].supply] # "ordered")
    /\ UNCHANGED <<balance, transfer, alerts, sold, corrected, adjusts, crossed>>

-----------------------------------------------------------------------------
(* Corrections: every statement of adjust_store_inventory commits by itself *)

LoadAdjust(r, l, d) ==
    /\ adjusts < MaxAdjust
    /\ adjusts' = adjusts + 1
    /\ Start(r, [op |-> "adjust", store |-> l, row |-> balance[l], delta |-> d])
    /\ UNCHANGED <<balance, transfer, supply, alerts, sold, corrected, stale, crossed>>

AdjustSave(r) ==
    LET q == req[r]
    IN  /\ Serving(r, "adjust")
        /\ \/ /\ Change(q.store, q.row, q.delta, 0)
              /\ corrected' = [corrected EXCEPT ![q.store] = @ + q.delta]
              /\ req' = [req EXCEPT ![r] = [op |-> "evaluate", store |-> q.store,
                                            row |-> balance'[q.store]]]
              /\ Stale(q.store, q.row)
           \/ /\ ~Valid(q.row.onHand + q.delta, q.row.reserved)
              /\ Done(r)
              /\ UNCHANGED <<balance, corrected, stale>>
        /\ UNCHANGED <<transfer, supply, alerts, sold, adjusts, crossed>>

\* evaluate_restock_alert, on the row this request saved: the alerts are
\* resolved, one is found (two raise), or one is about to be created.
AdjustEvaluate(r) ==
    LET q == req[r]
    IN  /\ Serving(r, "evaluate")
        /\ IF q.row.onHand <= Threshold /\ alerts[q.store] = 0
           THEN req' = [req EXCEPT ![r] = [op |-> "alert", store |-> q.store]]
           ELSE Done(r)
        /\ alerts' = [alerts EXCEPT ![q.store] = IF q.row.onHand > Threshold THEN 0 ELSE @]
        /\ Crossing(q.store, r)
        /\ UNCHANGED <<balance, transfer, supply, sold, corrected, adjusts, stale>>

\* No constraint keeps a second open alert out.
AdjustAlert(r) ==
    /\ Serving(r, "alert")
    /\ alerts' = [alerts EXCEPT ![req[r].store] = @ + 1]
    /\ Done(r)
    /\ UNCHANGED <<balance, transfer, supply, sold, corrected, adjusts, stale, crossed>>

-----------------------------------------------------------------------------
(* Orders (OrderPayment), one unit at a time, on the locked balance *)

\* reserve_order_inventory: where the alerts raise, the order's transaction fails.
Sell(l) ==
    /\ sold[l] < MaxSold
    /\ Available(l) >= 1
    /\ Change(l, balance[l], 0 - 1, 0)
    /\ Evaluate(l, balance[l].onHand - 1)
    /\ sold' = [sold EXCEPT ![l] = @ + 1]
    /\ Crossing(l, Nobody)
    /\ UNCHANGED <<transfer, supply, corrected, adjusts, req, stale>>

\* reverse_order_inventory
Return(l) ==
    /\ sold[l] > 0
    /\ Change(l, balance[l], 1, 0)
    /\ Evaluate(l, balance[l].onHand + 1)
    /\ sold' = [sold EXCEPT ![l] = @ - 1]
    /\ Crossing(l, Nobody)
    /\ UNCHANGED <<transfer, supply, corrected, adjusts, req, stale>>

-----------------------------------------------------------------------------
OnTransfer(t) ==
    \/ RequestTransfer(t)
    \/ ApproveTransfer(t)
    \/ ReserveTransfer(t)
    \/ ShipTransfer(t)
    \/ DeliverTransfer(t)

Finishing(r) ==
    \/ ReceiveSave(r)
    \/ AddRead(r)
    \/ AddSave(r)
    \/ RollBack(r)
    \/ CancelSupply(r)
    \/ AdjustSave(r)
    \/ AdjustEvaluate(r)
    \/ AdjustAlert(r)

\* A handler of one step needs a worker too.
AnyFree == \E r \in Requests : req[r] = Idle

Next ==
    \/ AnyFree /\ \E t \in Transfers : OnTransfer(t)
    \/ AnyFree /\ \E l \in Stores : Sell(l) \/ Return(l)
    \/ \E r \in Requests :
         \/ Finishing(r)
         \/ \E t \in Transfers : ReceiveRead(r, t)
         \/ \E s \in Supplies : LoadSupply(r, s, "supply") \/ LoadSupply(r, s, "cancel")
         \/ \E l \in Stores, d \in Deltas : LoadAdjust(r, l, d)

Spec == Init /\ [][Next]_vars

-----------------------------------------------------------------------------
(* Properties however the requests overlap *)

\* A transfer's row is locked, so it is received once: no second request
\* receives a transfer that is no longer delivered.
ReceivedOnce ==
    \A r \in Requests : Serving(r, "receive") =>
        /\ transfer[req[r].transfer].status = "delivered"
        /\ \A s \in Requests \ {r} :
             Serving(s, "receive") => req[s].transfer # req[r].transfer

-----------------------------------------------------------------------------
(* Properties of requests that save what they read unchanged *)

\* Units on the shelves of each location, on the road with each transfer, and
\* brought by each replenishment.
OnShelf == [l \in Locations |-> balance[l].onHand]
OnRoad ==
    [t \in Transfers |->
       IF transfer[t].status \in {"in_transit", "delivered"} THEN transfer[t].approved ELSE 0]
Brought == [s \in Supplies |-> IF supply[s] = "received" THEN Supplied[s].quantity ELSE 0]

\* Units neither appear nor vanish: what is on the shelves, on the road and
\* with customers is what there was, what suppliers brought and what was
\* corrected by hand, until a request saves a balance that another one changed
\* after it was read, or settles a replenishment a second time.
StockConserved ==
    ~stale => SumFunction(OnShelf) + SumFunction(OnRoad) + SumFunction(sold)
                = SumFunction(Stock) + SumFunction(Brought) + SumFunction(corrected)

\* What a source has reserved is what its reserved transfers were approved, until
\* a balance is saved that had changed.
PromisedBy(l) ==
    [t \in Transfers |->
       IF Source[t] = l /\ transfer[t].status = "reserved" THEN transfer[t].approved ELSE 0]

ReservedIsPromised ==
    ~stale => \A l \in Locations : balance[l].reserved = SumFunction(PromisedBy(l))

\* A store has one open alert per item at most, two would make every sale
\* below the threshold raise; unless its alerts were evaluated while a
\* correction was evaluating them.
OneOpenAlert == \A l \in Stores \ crossed : alerts[l] <= 1
=============================================================================
