----------------------- MODULE StoreInventory_Proofs ------------------------
(***************************************************************************)
(* What holds of the balances of an item for any number of locations,      *)
(* transfers, replenishments and web workers.                              *)
(***************************************************************************)
EXTENDS StoreInventory, Sums, TLAPS

-----------------------------------------------------------------------------
(* Types *)

\* What a request holds, by the step it is at.
LEMMA RequestOps ==
    ASSUME NEW q \in Request
    PROVE  /\ q.op = "receive" => q \in Receiving
           /\ q.op \in {"supply", "cancel"} => q \in Loaded
           /\ q.op = "add" => q \in Adding
           /\ q.op = "adjust" => q \in Adjusting
           /\ q.op = "evaluate" => q \in Alerting
           /\ q.op = "alert" => q \in Creating
           /\ q.op = "idle" => q = Idle
BY DEF Request, Idle, Receiving, Loaded, Adding, Adjusting, Alerting, Creating

LEMMA TypeInit == Init => TypeOK
<1> SUFFICES ASSUME Init
             PROVE  TypeOK
  OBVIOUS
<1>1. balance \in [Locations -> Balance]
  BY StockAssumption DEF Init, Balance
<1>2. transfer \in [Transfers -> TransferRow] /\ supply \in [Supplies -> SupplyStatus]
  BY DEF Init, TransferRow, TransferStatus, SupplyStatus
<1>3. alerts \in [Stores -> Nat] /\ sold \in [Stores -> Nat] /\ corrected \in [Stores -> Int]
  BY DEF Init
<1>4. req \in [Requests -> Request]
  BY DEF Init, Request
<1> QED
  BY <1>1, <1>2, <1>3, <1>4 DEF Init, TypeOK

\* A balance that passes the check of apply_balance_change is one.
LEMMA ChangeTyped ==
    ASSUME TypeOK, NEW l \in Locations, NEW row \in Balance, NEW a \in Int, NEW b \in Int,
           Change(l, row, a, b)
    PROVE  /\ balance' \in [Locations -> Balance]
           /\ balance'[l] \in Balance
BY DEF TypeOK, Change, Valid, Balance

LEMMA EvaluateTyped ==
    ASSUME TypeOK, NEW l \in Stores, NEW onHand \in Int, Evaluate(l, onHand)
    PROVE  alerts' \in [Stores -> Nat]
BY DEF TypeOK, Evaluate

LEMMA CrossingTyped ==
    ASSUME TypeOK, NEW l \in Stores, NEW r, Crossing(l, r)
    PROVE  crossed' \subseteq Stores
BY DEF TypeOK, Crossing

LEMMA RequestTyped ==
    ASSUME TypeOK, NEW r \in Requests, NEW q \in Request, req' = [req EXCEPT ![r] = q]
    PROVE  req' \in [Requests -> Request]
BY DEF TypeOK

LEMMA IdleTyped == Idle \in Request
BY DEF Request

LEMMA TransferTyped ==
    ASSUME TypeOK, NEW t \in Transfers, NEW from, NEW to \in TransferStatus, Moves(t, from, to)
    PROVE  transfer' \in [Transfers -> TransferRow]
BY DEF TypeOK, Moves, TransferRow

LEMMA TypeStep == TypeOK /\ [Next]_vars => TypeOK'
<1> SUFFICES ASSUME TypeOK, [Next]_vars
             PROVE  TypeOK'
  OBVIOUS
<1>1. ASSUME NEW t \in Transfers, OnTransfer(t)
      PROVE  TypeOK'
  <2>1. /\ UNCHANGED <<supply, alerts, sold, corrected, adjusts, req, stale, crossed>>
        /\ transfer' \in [Transfers -> TransferRow]
    <3>1. CASE ApproveTransfer(t)
      BY <3>1, TransferAssumption DEF ApproveTransfer, TypeOK, TransferRow, TransferStatus
    <3> QED
      BY <1>1, <3>1, TransferTyped
         DEF OnTransfer, RequestTransfer, ReserveTransfer, ShipTransfer, DeliverTransfer,
             TransferStatus
  <2>2. balance' \in [Locations -> Balance]
    <3>1. /\ Source[t] \in Locations /\ balance[Source[t]] \in Balance
          /\ transfer[t].approved \in Int /\ 0 - transfer[t].approved \in Int /\ 0 \in Int
      BY TransferAssumption DEF TypeOK, TransferRow
    <3>2. CASE ReserveTransfer(t)
      BY <3>1, <3>2, ChangeTyped DEF ReserveTransfer
    <3>3. CASE ShipTransfer(t)
      BY <3>1, <3>3, ChangeTyped DEF ShipTransfer
    <3> QED
      BY <1>1, <3>2, <3>3 DEF OnTransfer, RequestTransfer, ApproveTransfer, DeliverTransfer, TypeOK
  <2> QED
    BY <2>1, <2>2 DEF TypeOK
<1>2. ASSUME NEW l \in Stores, Sell(l) \/ Return(l)
      PROVE  TypeOK'
  <2>1. l \in Locations /\ balance[l] \in Balance /\ balance[l].onHand \in Int
    BY PlaceAssumption DEF TypeOK, Balance
  <2>2. balance' \in [Locations -> Balance]
    BY <1>2, <2>1, ChangeTyped DEF Sell, Return
  <2>3. alerts' \in [Stores -> Nat]
    BY <1>2, <2>1, EvaluateTyped DEF Sell, Return
  <2>4. crossed' \subseteq Stores
    BY <1>2, CrossingTyped DEF Sell, Return
  <2>5. sold' \in [Stores -> Nat]
    BY <1>2 DEF Sell, Return, TypeOK
  <2> QED
    BY <1>2, <2>2, <2>3, <2>4, <2>5 DEF Sell, Return, TypeOK
<1>3. ASSUME NEW r \in Requests, NEW t \in Transfers, ReceiveRead(r, t)
      PROVE  TypeOK'
  <2>1. [op |-> "receive", transfer |-> t, row |-> balance[Destination[t]]] \in Request
    BY TransferAssumption, PlaceAssumption DEF TypeOK, Request, Receiving
  <2>2. req' \in [Requests -> Request]
    BY <1>3, <2>1, RequestTyped DEF ReceiveRead, Start
  <2> QED
    BY <1>3, <2>2 DEF ReceiveRead, TypeOK
<1>4. ASSUME NEW r \in Requests, NEW s \in Supplies, NEW op \in {"supply", "cancel"},
             LoadSupply(r, s, op)
      PROVE  TypeOK'
  <2>1. [op |-> op, supply |-> s] \in Request
    BY DEF Request, Loaded
  <2>2. req' \in [Requests -> Request]
    BY <1>4, <2>1, RequestTyped DEF LoadSupply, Start
  <2> QED
    BY <1>4, <2>2 DEF LoadSupply, TypeOK
<1>5. ASSUME NEW r \in Requests, NEW l \in Stores, NEW d \in Deltas, LoadAdjust(r, l, d)
      PROVE  TypeOK'
  <2>1. [op |-> "adjust", store |-> l, row |-> balance[l], delta |-> d] \in Request
    BY PlaceAssumption DEF TypeOK, Request, Adjusting
  <2>2. req' \in [Requests -> Request]
    BY <1>5, <2>1, RequestTyped DEF LoadAdjust, Start
  <2> QED
    BY <1>5, <2>2 DEF LoadAdjust, TypeOK
<1>6. ASSUME NEW r \in Requests, ReceiveSave(r)
      PROVE  TypeOK'
  <2>1. PICK q \in Receiving : q = req[r]
    BY <1>6, RequestOps DEF ReceiveSave, Serving, TypeOK
  <2>2. PICK t \in Transfers, l \in Stores : t = q.transfer /\ l = Destination[t]
    BY <2>1, TransferAssumption DEF Receiving
  <2>3. q.row \in Balance /\ q.row.onHand \in Int /\ transfer[t].approved \in Int /\ l \in Locations
    BY PlaceAssumption DEF Receiving, Balance, TypeOK, TransferRow
  <2>4. balance' \in [Locations -> Balance]
    BY <1>6, <2>1, <2>2, <2>3, ChangeTyped DEF ReceiveSave
  <2>5. alerts' \in [Stores -> Nat] /\ crossed' \subseteq Stores
    BY <1>6, <2>1, <2>2, <2>3, EvaluateTyped, CrossingTyped DEF ReceiveSave
  <2>6. transfer' \in [Transfers -> TransferRow]
    BY <1>6 DEF ReceiveSave, TypeOK, TransferRow, TransferStatus
  <2>7. req' \in [Requests -> Request]
    BY <1>6, IdleTyped, RequestTyped DEF ReceiveSave, Done
  <2> QED
    BY <1>6, <2>4, <2>5, <2>6, <2>7 DEF ReceiveSave, Stale, TypeOK
<1>7. ASSUME NEW r \in Requests, AddRead(r)
      PROVE  TypeOK'
  <2>1. PICK s \in Supplies : s = req[r].supply
    BY <1>7, RequestOps DEF AddRead, Serving, TypeOK, Loaded
  <2>2. [op |-> "add", supply |-> s, row |-> balance[Supplied[s].store]] \in Request
    BY SupplyAssumption, PlaceAssumption DEF TypeOK, Request, Adding
  <2>3. req' \in [Requests -> Request]
    BY <1>7, <2>1, <2>2, RequestTyped DEF AddRead
  <2> QED
    BY <1>7, <2>3 DEF AddRead, TypeOK
<1>8. ASSUME NEW r \in Requests, AddSave(r)
      PROVE  TypeOK'
  <2>1. PICK q \in Adding : q = req[r]
    BY <1>8, RequestOps DEF AddSave, Serving, TypeOK
  <2>2. PICK s \in Supplies, l \in Stores : s = q.supply /\ l = Supplied[s].store
    BY <2>1, SupplyAssumption DEF Adding
  <2>3. q.row \in Balance /\ q.row.onHand \in Int /\ Supplied[s].quantity \in Int /\ l \in Locations
    BY SupplyAssumption, PlaceAssumption DEF Adding, Balance
  <2>4. balance' \in [Locations -> Balance]
    BY <1>8, <2>1, <2>2, <2>3, ChangeTyped DEF AddSave
  <2>5. alerts' \in [Stores -> Nat] /\ crossed' \subseteq Stores
    BY <1>8, <2>1, <2>2, <2>3, EvaluateTyped, CrossingTyped DEF AddSave
  <2>6. supply' \in [Supplies -> SupplyStatus] /\ stale' \in BOOLEAN
    BY <1>8 DEF AddSave, TypeOK, SupplyStatus
  <2>7. req' \in [Requests -> Request]
    BY <1>8, IdleTyped, RequestTyped DEF AddSave, Done
  <2> QED
    BY <1>8, <2>4, <2>5, <2>6, <2>7 DEF AddSave, TypeOK
<1>9. ASSUME NEW r \in Requests, CancelSupply(r)
      PROVE  TypeOK'
  <2>1. supply' \in [Supplies -> SupplyStatus] /\ stale' \in BOOLEAN
    BY <1>9 DEF CancelSupply, TypeOK, SupplyStatus
  <2>2. req' \in [Requests -> Request]
    BY <1>9, IdleTyped, RequestTyped DEF CancelSupply, Done
  <2> QED
    BY <1>9, <2>1, <2>2 DEF CancelSupply, TypeOK
<1>10. ASSUME NEW r \in Requests, AdjustSave(r)
       PROVE  TypeOK'
  <2>1. PICK q \in Adjusting : q = req[r]
    BY <1>10, RequestOps DEF AdjustSave, Serving, TypeOK
  <2>2. /\ q.store \in Stores /\ q.store \in Locations /\ q.row \in Balance
        /\ q.delta \in Int /\ 0 \in Int
    <3>1. q.store \in Stores /\ q.row \in Balance /\ q.delta \in Deltas
      BY DEF Adjusting
    <3>2. q.store \in Locations
      BY <3>1, PlaceAssumption
    <3>3. q.delta \in Int
      BY <3>1, BoundAssumption, Zenon
    <3> QED
      BY <3>1, <3>2, <3>3
  <2>3. CASE ~Valid(q.row.onHand + q.delta, q.row.reserved) /\ Done(r)
             /\ UNCHANGED <<balance, corrected, stale>>
    <3>1. req' \in [Requests -> Request]
      BY <2>3, IdleTyped, RequestTyped DEF Done
    <3> QED
      BY <1>10, <2>3, <3>1 DEF AdjustSave, TypeOK
  <2>4. CASE /\ Change(q.store, q.row, q.delta, 0)
             /\ corrected' = [corrected EXCEPT ![q.store] = @ + q.delta]
             /\ req' = [req EXCEPT ![r] = [op |-> "evaluate", store |-> q.store,
                                           row |-> balance'[q.store]]]
             /\ Stale(q.store, q.row)
    <3>1. balance' \in [Locations -> Balance] /\ balance'[q.store] \in Balance
      BY <2>2, <2>4, ChangeTyped
    <3>2. [op |-> "evaluate", store |-> q.store, row |-> balance'[q.store]] \in Request
      BY <2>2, <3>1 DEF Request, Alerting
    <3>3. req' \in [Requests -> Request]
      BY <2>4, <3>2, RequestTyped
    <3>4. corrected' \in [Stores -> Int]
      BY <2>2, <2>4 DEF TypeOK
    <3> QED
      BY <1>10, <2>4, <3>1, <3>3, <3>4 DEF AdjustSave, Stale, TypeOK
  <2> QED
    BY <1>10, <2>1, <2>3, <2>4 DEF AdjustSave
<1>11. ASSUME NEW r \in Requests, AdjustEvaluate(r)
       PROVE  TypeOK'
  <2>1. PICK q \in Alerting : q = req[r]
    BY <1>11, RequestOps DEF AdjustEvaluate, Serving, TypeOK
  <2>2. q.store \in Stores /\ [op |-> "alert", store |-> q.store] \in Request
    BY <2>1 DEF Alerting, Creating, Request
  <2>3. req' \in [Requests -> Request]
    BY <1>11, <2>1, <2>2, IdleTyped, RequestTyped DEF AdjustEvaluate, Done
  <2>4. alerts' \in [Stores -> Nat]
    BY <1>11 DEF AdjustEvaluate, TypeOK
  <2>5. crossed' \subseteq Stores
    BY <1>11, <2>1, <2>2, CrossingTyped DEF AdjustEvaluate
  <2> QED
    BY <1>11, <2>3, <2>4, <2>5 DEF AdjustEvaluate, TypeOK
<1>12. ASSUME NEW r \in Requests, AdjustAlert(r)
       PROVE  TypeOK'
  <2>1. req' \in [Requests -> Request]
    BY <1>12, IdleTyped, RequestTyped DEF AdjustAlert, Done
  <2>2. alerts' \in [Stores -> Nat]
    <3>1. PICK l \in Stores : l = req[r].store
      BY <1>12, RequestOps DEF AdjustAlert, Serving, TypeOK, Creating
    <3>2. alerts' = [alerts EXCEPT ![l] = alerts[l] + 1] /\ alerts[l] \in Nat
      BY <1>12, <3>1 DEF AdjustAlert, TypeOK
    <3> QED
      BY <3>2 DEF TypeOK
  <2> QED
    BY <1>12, <2>1, <2>2 DEF AdjustAlert, TypeOK
<1>13. ASSUME NEW r \in Requests, RollBack(r)
       PROVE  TypeOK'
  <2>1. req' \in [Requests -> Request]
    BY <1>13, IdleTyped, RequestTyped DEF RollBack, Done
  <2> QED
    BY <1>13, <2>1 DEF RollBack, TypeOK
<1>14. CASE UNCHANGED vars
  BY <1>14 DEF vars, TypeOK
<1> QED
  BY <1>1, <1>2, <1>3, <1>4, <1>5, <1>6, <1>7, <1>8, <1>9, <1>10, <1>11, <1>12, <1>13, <1>14
     DEF Next, Finishing

\* Every row and request stays what it is declared to be: no balance, no number
\* of reserved units and no count of alerts ever goes below zero
\* (apply_balance_change, on rows that may be stale).
THEOREM TypeCorrect == Spec => []TypeOK
BY TypeInit, TypeStep, PTL DEF Spec

-----------------------------------------------------------------------------
(* Transfers *)

\* The lock on the row of a transfer that is being received keeps it delivered.
LEMMA ReceiveInit == Init => ReceivedOnce
BY DEF Init, ReceivedOnce, Serving, Idle

\* No request begins to receive, and the transfers being received keep their rows.
LEMMA ReceiveKept ==
    ASSUME TypeOK, ReceivedOnce,
           \A s \in Requests : Serving(s, "receive")' => Serving(s, "receive") /\ req'[s] = req[s],
           \A t \in Transfers : Locked(t) => transfer'[t] = transfer[t]
    PROVE  ReceivedOnce'
<1>1. \A s \in Requests : Serving(s, "receive") => req[s].transfer \in Transfers
  BY RequestOps DEF TypeOK, Serving, Receiving
<1> QED
  BY <1>1 DEF ReceivedOnce, Serving, Locked

LEMMA ReceiveStep == TypeOK /\ ReceivedOnce /\ [Next]_vars => ReceivedOnce'
<1> SUFFICES ASSUME TypeOK, ReceivedOnce, [Next]_vars
             PROVE  ReceivedOnce'
  OBVIOUS
<1>0. /\ DOMAIN req = Requests
      /\ \A s \in Requests : Serving(s, "receive") => req[s].transfer \in Transfers
  BY RequestOps DEF TypeOK, Serving, Receiving
<1>1. CASE UNCHANGED <<req, transfer>>
  BY <1>1 DEF ReceivedOnce, Serving
<1>2. ASSUME NEW t \in Transfers, OnTransfer(t)
      PROVE  ReceivedOnce'
  <2>1. UNCHANGED req /\ ~Locked(t) /\ \A u \in Transfers : u # t => transfer'[u] = transfer[u]
    BY <1>2 DEF OnTransfer, RequestTransfer, ApproveTransfer, ReserveTransfer, ShipTransfer,
                DeliverTransfer, Moves, TypeOK
  <2> QED
    BY <2>1, ReceiveKept DEF Serving
<1>3. ASSUME NEW r \in Requests, NEW t \in Transfers, ReceiveRead(r, t)
      PROVE  ReceivedOnce'
  <2> DEFINE q == [op |-> "receive", transfer |-> t, row |-> balance[Destination[t]]]
  <2>1. /\ ~Locked(t) /\ transfer[t].status = "delivered" /\ UNCHANGED transfer
        /\ req' = [req EXCEPT ![r] = q]
    BY <1>3 DEF ReceiveRead, Start
  <2>2. /\ req'[r].transfer = t
        /\ \A s \in Requests : s # r => req'[s] = req[s]
    BY <1>0, <2>1
  <2>3. \A s \in Requests : Serving(s, "receive") => req[s].transfer # t
    BY <2>1 DEF Locked
  <2> QED
    BY <2>1, <2>2, <2>3 DEF ReceivedOnce, Serving
<1>4. ASSUME NEW r \in Requests, ReceiveSave(r)
      PROVE  ReceivedOnce'
  <2>1. /\ Serving(r, "receive")
        /\ transfer' = [transfer EXCEPT ![req[r].transfer].status = "received"]
        /\ req' = [req EXCEPT ![r] = Idle]
    BY <1>4 DEF ReceiveSave, Done
  <2>2. \A s \in Requests : Serving(s, "receive")' =>
            s # r /\ Serving(s, "receive") /\ req'[s] = req[s] /\ req[s].transfer # req[r].transfer
    BY <1>0, <2>1 DEF Serving, Idle, ReceivedOnce
  <2> QED
    BY <1>0, <2>1, <2>2 DEF ReceivedOnce, Serving, TypeOK
<1>5. ASSUME NEW r \in Requests, UNCHANGED transfer, ~Serving(r, "receive"),
             req'[r].op # "receive", \A s \in Requests \ {r} : req'[s] = req[s]
      PROVE  ReceivedOnce'
  <2>1. \A s \in Requests : Serving(s, "receive")' => Serving(s, "receive") /\ req'[s] = req[s]
    BY <1>5 DEF Serving
  <2> QED
    BY <1>5, <2>1, ReceiveKept
<1>6. ASSUME NEW r \in Requests,
             \/ Finishing(r) /\ ~ReceiveSave(r) /\ ~RollBack(r)
             \/ \E s \in Supplies : LoadSupply(r, s, "supply") \/ LoadSupply(r, s, "cancel")
             \/ \E l \in Stores, d \in Deltas : LoadAdjust(r, l, d)
      PROVE  ReceivedOnce'
  <2>1. UNCHANGED transfer
    BY <1>6 DEF Finishing, AddRead, AddSave, CancelSupply, AdjustSave, AdjustEvaluate, AdjustAlert,
                LoadSupply, LoadAdjust
  <2>2. ~Serving(r, "receive")
    BY <1>6 DEF Finishing, AddRead, AddSave, CancelSupply, AdjustSave, AdjustEvaluate, AdjustAlert,
                LoadSupply, LoadAdjust, Start, Serving, Idle
  <2>3. req'[r].op # "receive" /\ \A s \in Requests \ {r} : req'[s] = req[s]
    <3>1. CASE AddSave(r) \/ CancelSupply(r) \/ AdjustAlert(r)
      BY <1>0, <3>1 DEF AddSave, CancelSupply, AdjustAlert, Done, Idle
    <3>2. CASE AddRead(r)
      BY <1>0, <3>2 DEF AddRead
    <3>3. CASE AdjustSave(r)
      BY <1>0, <3>3 DEF AdjustSave, Done, Idle
    <3>4. CASE AdjustEvaluate(r)
      BY <1>0, <3>4 DEF AdjustEvaluate, Done, Idle
    <3>5. CASE \E s \in Supplies : LoadSupply(r, s, "supply") \/ LoadSupply(r, s, "cancel")
      BY <1>0, <3>5 DEF LoadSupply, Start
    <3>6. CASE \E l \in Stores, d \in Deltas : LoadAdjust(r, l, d)
      BY <1>0, <3>6 DEF LoadAdjust, Start
    <3> QED
      BY <1>6, <3>1, <3>2, <3>3, <3>4, <3>5, <3>6 DEF Finishing
  <2> QED
    BY <1>5, <2>1, <2>2, <2>3
<1>7. ASSUME NEW l \in Stores, Sell(l) \/ Return(l)
      PROVE  UNCHANGED <<req, transfer>>
  BY <1>7 DEF Sell, Return
<1>8. ASSUME NEW r \in Requests, RollBack(r)
      PROVE  ReceivedOnce'
  <2>1. /\ UNCHANGED transfer /\ req'[r].op # "receive"
        /\ \A s \in Requests \ {r} : req'[s] = req[s]
    BY <1>0, <1>8 DEF RollBack, Done, Idle
  <2> QED
    BY <2>1 DEF ReceivedOnce, Serving
<1> QED
  BY <1>1, <1>2, <1>3, <1>4, <1>6, <1>7, <1>8 DEF Next, Finishing, vars

\* However many requests ask for it at once, a transfer is received once
\* (receive_transfer locks its row before it looks at the status).
THEOREM ReceivedOnceAlways == Spec => []ReceivedOnce
<1>1. TypeOK /\ ReceivedOnce /\ [Next]_vars => (TypeOK /\ ReceivedOnce)'
  BY TypeStep, ReceiveStep
<1> QED
  BY <1>1, TypeInit, ReceiveInit, PTL DEF Spec

-----------------------------------------------------------------------------
(* Alerts *)

Opening(r, l) == req[r].op = "alert" /\ req[r].store = l

\* A correction is about to open an alert only where none is open, and is the
\* only one about to.
AlertInv ==
    \A l \in Stores \ crossed :
        /\ alerts[l] <= 1
        /\ \A r \in Requests : Opening(r, l) =>
             alerts[l] = 0 /\ \A q \in Requests : Opening(q, l) => q = r

LEMMA AlertInit == Init => AlertInv
BY DEF Init, AlertInv, Opening, Idle

\* No one comes to open an alert, and alerts that change are evaluated inside a
\* transaction.
LEMMA AlertKept ==
    ASSUME TypeOK, AlertInv, NEW l \in Stores, NEW r, NEW n \in {0, 1},
           alerts' = [alerts EXCEPT ![l] = n], Crossing(l, r),
           r \in Requests => req[r].op # "alert",
           \A s \in Requests, m \in Stores : Opening(s, m)' => Opening(s, m)
    PROVE  AlertInv'
<1>1. crossed \subseteq crossed' /\ (Correcting(l, r) => l \in crossed')
  BY DEF Crossing
<1>2. \A m \in Stores : alerts'[m] = IF m = l THEN n ELSE alerts[m]
  BY DEF TypeOK
<1>3. l \notin crossed' => \A s \in Requests : ~ Opening(s, l)
  BY <1>1 DEF Correcting, Opening
<1> QED
  BY <1>1, <1>2, <1>3 DEF AlertInv

LEMMA EvaluateLeaves ==
    ASSUME NEW l, NEW onHand, Evaluate(l, onHand)
    PROVE  \E n \in {0, 1} : alerts' = [alerts EXCEPT ![l] = n]
<1>1. CASE onHand > Threshold
  <2>1. alerts' = [alerts EXCEPT ![l] = 0]
    BY <1>1 DEF Evaluate
  <2> QED
    BY <2>1
<1>2. CASE ~(onHand > Threshold)
  <2>1. alerts' = [alerts EXCEPT ![l] = 1]
    BY <1>2 DEF Evaluate
  <2> QED
    BY <2>1
<1> QED
  BY <1>1, <1>2

LEMMA AlertQuiet ==
    ASSUME TypeOK, AlertInv, UNCHANGED <<alerts, crossed>>,
           \A s \in Requests, m \in Stores : Opening(s, m)' => Opening(s, m)
    PROVE  AlertInv'
BY DEF AlertInv

LEMMA AlertStep == TypeOK /\ AlertInv /\ [Next]_vars => AlertInv'
<1> SUFFICES ASSUME TypeOK, AlertInv, [Next]_vars
             PROVE  AlertInv'
  OBVIOUS
<1>0. DOMAIN req = Requests
  BY DEF TypeOK
<1>1. ASSUME NEW r \in Requests, req'[r].op # "alert", \A s \in Requests \ {r} : req'[s] = req[s]
      PROVE  \A s \in Requests, m \in Stores : Opening(s, m)' => Opening(s, m)
  BY <1>1 DEF Opening
<1>2. CASE UNCHANGED <<req, alerts, crossed>>
  BY <1>2, AlertQuiet DEF Opening
<1>3. ASSUME NEW l \in Stores, Sell(l) \/ Return(l)
      PROVE  AlertInv'
  <2>1. PICK n \in {0, 1} : alerts' = [alerts EXCEPT ![l] = n]
    <3>1. PICK onHand : Evaluate(l, onHand)
      BY <1>3 DEF Sell, Return
    <3> QED
      BY <3>1, EvaluateLeaves
  <2>2. UNCHANGED req /\ Crossing(l, Nobody)
    BY <1>3 DEF Sell, Return
  <2> QED
    BY <2>1, <2>2, AlertKept, RequestAssumption DEF Opening
<1>4. ASSUME NEW r \in Requests, ReceiveSave(r) \/ AddSave(r)
      PROVE  AlertInv'
  <2>1. PICK l \in Stores : /\ Crossing(l, r)
                            /\ \E n \in {0, 1} : alerts' = [alerts EXCEPT ![l] = n]
    <3>1. CASE ReceiveSave(r)
      <4>1. Destination[req[r].transfer] \in Stores
        <5>1. req[r].transfer \in Transfers
          BY <3>1, RequestOps DEF ReceiveSave, Serving, TypeOK, Receiving
        <5> QED
          BY <5>1, TransferAssumption
      <4>2. PICK onHand : Evaluate(Destination[req[r].transfer], onHand)
        BY <3>1 DEF ReceiveSave
      <4>3. Crossing(Destination[req[r].transfer], r)
        BY <3>1 DEF ReceiveSave
      <4> QED
        BY <4>1, <4>2, <4>3, EvaluateLeaves
    <3>2. CASE AddSave(r)
      <4>1. Supplied[req[r].supply].store \in Stores
        <5>1. req[r].supply \in Supplies
          BY <3>2, RequestOps DEF AddSave, Serving, TypeOK, Adding
        <5> QED
          BY <5>1, SupplyAssumption
      <4>2. PICK onHand : Evaluate(Supplied[req[r].supply].store, onHand)
        BY <3>2 DEF AddSave
      <4>3. Crossing(Supplied[req[r].supply].store, r)
        BY <3>2 DEF AddSave
      <4> QED
        BY <4>1, <4>2, <4>3, EvaluateLeaves
    <3> QED
      BY <1>4, <3>1, <3>2
  <2>2. /\ req[r].op # "alert" /\ req'[r].op # "alert"
        /\ \A s \in Requests \ {r} : req'[s] = req[s]
    BY <1>0, <1>4 DEF ReceiveSave, AddSave, Done, Serving, Idle
  <2> QED
    BY <1>1, <2>1, <2>2, AlertKept
<1>5. ASSUME NEW r \in Requests, AdjustEvaluate(r)
      PROVE  AlertInv'
  <2>1. PICK l \in Stores : l = req[r].store /\ req[r].op = "evaluate"
    BY <1>5, RequestOps DEF AdjustEvaluate, Serving, TypeOK, Alerting
  <2>2. Crossing(l, r) /\ \A s \in Requests \ {r} : req'[s] = req[s]
    BY <1>0, <1>5, <2>1 DEF AdjustEvaluate, Done
  <2>3. CASE l \in crossed'
    <3>1. crossed \subseteq crossed' /\ \A m \in Stores \ crossed' : alerts'[m] = alerts[m]
      BY <1>5, <2>1, <2>2, <2>3 DEF AdjustEvaluate, Crossing, TypeOK
    <3>2. \A s \in Requests, m \in Stores \ crossed' : Opening(s, m)' => Opening(s, m)
      <4>1. req'[r].op = "alert" => req'[r].store = l
        BY <1>0, <1>5, <2>1 DEF AdjustEvaluate, Done, Idle
      <4> QED
        BY <2>2, <2>3, <4>1 DEF Opening
    <3> QED
      BY <3>1, <3>2 DEF AlertInv
  <2>4. CASE l \notin crossed'
    <3>1. crossed' = crossed /\ ~Correcting(l, r)
      BY <2>2, <2>4 DEF Crossing
    <3>2. \A s \in Requests : ~ Opening(s, l)
      BY <2>1, <3>1 DEF Correcting, Opening
    <3>3. CASE req[r].row.onHand <= Threshold /\ alerts[l] = 0
      <4>1. alerts' = alerts /\ req'[r] = [op |-> "alert", store |-> l]
        BY <1>0, <1>5, <2>1, <3>3, StockAssumption, RequestOps
           DEF AdjustEvaluate, TypeOK, Alerting, Balance
      <4>2. \A s \in Requests, m \in Stores : Opening(s, m)' => (s = r /\ m = l) \/ Opening(s, m)
        BY <2>2, <4>1 DEF Opening
      <4> QED
        BY <3>1, <3>2, <3>3, <4>1, <4>2 DEF AlertInv
    <3>4. CASE ~(req[r].row.onHand <= Threshold /\ alerts[l] = 0)
      <4>1. req'[r].op # "alert"
        BY <1>0, <1>5, <2>1, <3>4 DEF AdjustEvaluate, Done, Idle
      <4>2. \A m \in Stores : alerts'[m] = alerts[m] \/ (m = l /\ alerts'[m] = 0)
        BY <1>5, <2>1 DEF AdjustEvaluate, TypeOK
      <4>3. \A s \in Requests, m \in Stores : Opening(s, m)' => Opening(s, m)
        BY <1>1, <2>2, <4>1
      <4> QED
        BY <3>1, <3>2, <4>2, <4>3 DEF AlertInv
    <3> QED
      BY <3>3, <3>4
  <2> QED
    BY <2>3, <2>4
<1>6. ASSUME NEW r \in Requests, AdjustAlert(r)
      PROVE  AlertInv'
  <2>1. PICK l \in Stores : Opening(r, l)
    BY <1>6, RequestOps DEF AdjustAlert, Serving, TypeOK, Creating, Opening
  <2>2. /\ UNCHANGED crossed /\ req'[r].op # "alert"
        /\ \A s \in Requests \ {r} : req'[s] = req[s]
        /\ \A m \in Stores : alerts'[m] = IF m = l THEN alerts[m] + 1 ELSE alerts[m]
    BY <1>0, <1>6, <2>1 DEF AdjustAlert, Done, Idle, Opening, TypeOK
  <2>3. \A s \in Requests, m \in Stores : Opening(s, m)' => Opening(s, m) /\ s # r
    BY <2>2 DEF Opening
  <2> QED
    BY <2>1, <2>2, <2>3 DEF AlertInv
<1>7. ASSUME NEW r \in Requests,
             \/ AddRead(r) \/ RollBack(r) \/ CancelSupply(r) \/ AdjustSave(r)
             \/ \E t \in Transfers : ReceiveRead(r, t)
             \/ \E s \in Supplies : LoadSupply(r, s, "supply") \/ LoadSupply(r, s, "cancel")
             \/ \E l \in Stores, d \in Deltas : LoadAdjust(r, l, d)
      PROVE  AlertInv'
  <2>1. UNCHANGED <<alerts, crossed>>
    BY <1>7 DEF AddRead, RollBack, CancelSupply, AdjustSave, ReceiveRead, LoadSupply, LoadAdjust
  <2>2. req'[r].op # "alert" /\ \A s \in Requests \ {r} : req'[s] = req[s]
    BY <1>0, <1>7 DEF AddRead, RollBack, CancelSupply, AdjustSave, ReceiveRead, LoadSupply, LoadAdjust,
                      Start, Done, Idle
  <2> QED
    BY <1>1, <2>1, <2>2, AlertQuiet
<1>8. ASSUME NEW t \in Transfers, OnTransfer(t)
      PROVE  UNCHANGED <<req, alerts, crossed>>
  BY <1>8 DEF OnTransfer, RequestTransfer, ApproveTransfer, ReserveTransfer, ShipTransfer,
              DeliverTransfer
<1> QED
  BY <1>2, <1>3, <1>4, <1>5, <1>6, <1>7, <1>8 DEF Next, Finishing, vars

\* A store has one open alert per item at most, unless its alerts were evaluated
\* while a correction was evaluating them (evaluate_restock_alert inside and
\* outside a transaction).
THEOREM OneOpenAlertAlways == Spec => []OneOpenAlert
<1>1. TypeOK /\ AlertInv /\ [Next]_vars => (TypeOK /\ AlertInv)'
  BY TypeStep, AlertStep
<1>2. AlertInv => OneOpenAlert
  BY DEF AlertInv, OneOpenAlert
<1> QED
  BY <1>1, <1>2, TypeInit, AlertInit, PTL DEF Spec

-----------------------------------------------------------------------------
(* Sums over the tables *)

LEMMA TotalType ==
    ASSUME NEW S, IsFiniteSet(S), NEW f \in [S -> Int]
    PROVE  SumFunction(f) \in Int
<1>1. DOMAIN f = S /\ \A x \in S : f[x] \in Int
  OBVIOUS
<1>2. SumFunctionOnSet(f, S) \in Int
  BY <1>1, SumType
<1> QED
  BY <1>1, <1>2 DEF SumFunction

LEMMA TotalZero ==
    ASSUME NEW S, IsFiniteSet(S), NEW f \in [S -> Int], \A x \in S : f[x] = 0
    PROVE  SumFunction(f) = 0
<1>1. DOMAIN f = S
  OBVIOUS
<1>2. SumFunctionOnSet(f, S) = 0
  BY SumZero
<1> QED
  BY <1>1, <1>2 DEF SumFunction

LEMMA StockTotal == SumFunction(Stock) \in Int
<1>1. Stock \in [Locations -> Int] /\ IsFiniteSet(Locations)
  BY StockAssumption, FiniteAssumption
<1> QED
  BY <1>1, TotalType

LEMMA TotalChange ==
    ASSUME NEW S, IsFiniteSet(S), NEW f \in [S -> Int], NEW g \in [S -> Int], NEW x \in S,
           \A y \in S \ {x} : g[y] = f[y]
    PROVE  SumFunction(g) = SumFunction(f) + (g[x] - f[x])
<1>1. DOMAIN f = S /\ DOMAIN g = S /\ \A y \in S : f[y] \in Int /\ g[y] \in Int
  OBVIOUS
<1>2. SumFunctionOnSet(g, S) = SumFunctionOnSet(f, S) + (g[x] - f[x])
  BY <1>1, SumChange
<1> QED
  BY <1>1, <1>2 DEF SumFunction

\* What is summed, and that the tables are finite.
LEMMA Summed ==
    ASSUME TypeOK
    PROVE  /\ OnShelf \in [Locations -> Int] /\ IsFiniteSet(Locations)
           /\ OnRoad \in [Transfers -> Int] /\ IsFiniteSet(Transfers)
           /\ Brought \in [Supplies -> Int] /\ IsFiniteSet(Supplies)
           /\ sold \in [Stores -> Int] /\ corrected \in [Stores -> Int] /\ IsFiniteSet(Stores)
           /\ \A l \in Locations : PromisedBy(l) \in [Transfers -> Int]
<1>1. OnShelf \in [Locations -> Int]
  BY DEF TypeOK, Balance, OnShelf
<1>2. OnRoad \in [Transfers -> Int]
  BY DEF TypeOK, TransferRow, OnRoad
<1>3. Brought \in [Supplies -> Int]
  BY SupplyAssumption DEF Brought
<1>4. sold \in [Stores -> Int] /\ corrected \in [Stores -> Int]
  BY DEF TypeOK
<1>5. \A l \in Locations : PromisedBy(l) \in [Transfers -> Int]
  BY DEF TypeOK, TransferRow, PromisedBy
<1>6. IsFiniteSet(Stores)
  BY FiniteAssumption, PlaceAssumption, FS_Subset
<1> QED
  BY <1>1, <1>2, <1>3, <1>4, <1>5, <1>6, FiniteAssumption

LEMMA SummedNext ==
    ASSUME TypeOK'
    PROVE  /\ OnShelf' \in [Locations -> Int]
           /\ OnRoad' \in [Transfers -> Int]
           /\ Brought' \in [Supplies -> Int]
           /\ sold' \in [Stores -> Int] /\ corrected' \in [Stores -> Int]
           /\ \A l \in Locations : PromisedBy(l)' \in [Transfers -> Int]
<1>1. OnShelf' \in [Locations -> Int]
  BY DEF TypeOK, Balance, OnShelf
<1>2. OnRoad' \in [Transfers -> Int]
  BY DEF TypeOK, TransferRow, OnRoad
<1>3. Brought' \in [Supplies -> Int]
  BY SupplyAssumption DEF Brought
<1>4. sold' \in [Stores -> Int] /\ corrected' \in [Stores -> Int]
  BY DEF TypeOK
<1>5. \A l \in Locations : PromisedBy(l)' \in [Transfers -> Int]
  BY DEF TypeOK, TransferRow, PromisedBy
<1> QED
  BY <1>1, <1>2, <1>3, <1>4, <1>5

\* A balance saved as it was read, changed: the shelves by as much.
LEMMA ShelfChange ==
    ASSUME TypeOK, TypeOK', NEW l \in Locations, NEW a \in Int, NEW b \in Int,
           Change(l, balance[l], a, b)
    PROVE  /\ SumFunction(OnShelf') = SumFunction(OnShelf) + a
           /\ balance'[l].reserved = balance[l].reserved + b
           /\ \A m \in Locations \ {l} : balance'[m] = balance[m]
<1>1. /\ balance'[l].onHand = balance[l].onHand + a
      /\ balance'[l].reserved = balance[l].reserved + b
      /\ \A m \in Locations \ {l} : balance'[m] = balance[m]
  BY DEF TypeOK, Change, Balance
<1>2. /\ OnShelf'[l] = balance[l].onHand + a /\ OnShelf[l] = balance[l].onHand
      /\ \A m \in Locations \ {l} : OnShelf'[m] = OnShelf[m]
  BY <1>1 DEF OnShelf
<1>3. SumFunction(OnShelf') = SumFunction(OnShelf) + (OnShelf'[l] - OnShelf[l])
  <2>1. IsFiniteSet(Locations) /\ OnShelf \in [Locations -> Int] /\ OnShelf' \in [Locations -> Int]
    BY Summed, SummedNext
  <2> QED
    BY <1>2, <2>1, TotalChange
<1>4. balance[l].onHand \in Int /\ SumFunction(OnShelf) \in Int
  BY Summed, TotalType DEF TypeOK, Balance
<1> QED
  BY <1>1, <1>2, <1>3, <1>4

\* One transfer changes: the road by what it carries, the promises of its source
\* by what it has reserved.
LEMMA TransferChange ==
    ASSUME TypeOK, TypeOK', NEW t \in Transfers,
           \A u \in Transfers \ {t} : transfer'[u] = transfer[u]
    PROVE  /\ SumFunction(OnRoad') = SumFunction(OnRoad) + (OnRoad'[t] - OnRoad[t])
           /\ \A l \in Locations :
                SumFunction(PromisedBy(l)')
                  = SumFunction(PromisedBy(l)) + (PromisedBy(l)'[t] - PromisedBy(l)[t])
<1>1. \A u \in Transfers \ {t} : OnRoad'[u] = OnRoad[u]
  BY DEF OnRoad
<1>2. SumFunction(OnRoad') = SumFunction(OnRoad) + (OnRoad'[t] - OnRoad[t])
  BY <1>1, Summed, SummedNext, TotalChange
<1>3. ASSUME NEW l \in Locations
      PROVE  SumFunction(PromisedBy(l)')
               = SumFunction(PromisedBy(l)) + (PromisedBy(l)'[t] - PromisedBy(l)[t])
  <2>1. \A u \in Transfers \ {t} : PromisedBy(l)'[u] = PromisedBy(l)[u]
    BY DEF PromisedBy
  <2> QED
    BY <2>1, Summed, SummedNext, TotalChange
<1> QED
  BY <1>2, <1>3

LEMMA SumsTyped ==
    ASSUME TypeOK
    PROVE  /\ SumFunction(OnShelf) \in Int /\ SumFunction(OnRoad) \in Int
           /\ SumFunction(Brought) \in Int /\ SumFunction(sold) \in Int
           /\ SumFunction(corrected) \in Int
           /\ \A l \in Locations : SumFunction(PromisedBy(l)) \in Int
BY Summed, TotalType

-----------------------------------------------------------------------------
(* Stock *)

\* The two properties, of a state in which no stale row has been saved.
Accounted ==
    /\ SumFunction(OnShelf) + SumFunction(OnRoad) + SumFunction(sold)
         = SumFunction(Stock) + SumFunction(Brought) + SumFunction(corrected)
    /\ \A l \in Locations : balance[l].reserved = SumFunction(PromisedBy(l))

LEMMA AccountedInit == Init => Accounted
<1> SUFFICES ASSUME Init
             PROVE  Accounted
  OBVIOUS
<1>1. TypeOK
  BY TypeInit
<1>2. OnShelf = Stock /\ \A l \in Locations : balance[l].reserved = 0
  BY StockAssumption DEF Init, OnShelf
<1>3. /\ \A t \in Transfers : OnRoad[t] = 0
      /\ \A s \in Supplies : Brought[s] = 0
      /\ \A l \in Stores : sold[l] = 0 /\ corrected[l] = 0
      /\ \A l \in Locations, t \in Transfers : PromisedBy(l)[t] = 0
  BY DEF Init, OnRoad, Brought, PromisedBy
<1>4. /\ SumFunction(OnRoad) = 0 /\ SumFunction(Brought) = 0
      /\ SumFunction(sold) = 0 /\ SumFunction(corrected) = 0
      /\ \A l \in Locations : SumFunction(PromisedBy(l)) = 0
  BY <1>1, <1>3, Summed, TotalZero
<1>5. SumFunction(Stock) \in Int
  BY <1>1, <1>2, SumsTyped
<1> QED
  BY <1>2, <1>4, <1>5 DEF Accounted

\* A step accounts for its units when what it takes to the shelves, the road and
\* the customers comes from a supplier or a correction, and what it reserves it
\* has promised.
LEMMA Moved ==
    ASSUME TypeOK, Accounted,
           NEW a \in Int, SumFunction(OnShelf') = SumFunction(OnShelf) + a,
           NEW b \in Int, SumFunction(OnRoad') = SumFunction(OnRoad) + b,
           NEW c \in Int, SumFunction(sold') = SumFunction(sold) + c,
           NEW d \in Int, SumFunction(Brought') = SumFunction(Brought) + d,
           NEW e \in Int, SumFunction(corrected') = SumFunction(corrected) + e,
           a + b + c = d + e,
           \A l \in Locations :
             balance'[l].reserved - balance[l].reserved
               = SumFunction(PromisedBy(l)') - SumFunction(PromisedBy(l)),
           TypeOK'
    PROVE  Accounted'
<1>1. /\ SumFunction(OnShelf) \in Int /\ SumFunction(OnRoad) \in Int
      /\ SumFunction(Brought) \in Int /\ SumFunction(sold) \in Int
      /\ SumFunction(corrected) \in Int /\ SumFunction(Stock) \in Int
  BY SumsTyped, StockTotal
<1>2. SumFunction(OnShelf') + SumFunction(OnRoad') + SumFunction(sold')
        = SumFunction(Stock) + SumFunction(Brought') + SumFunction(corrected')
  BY <1>1 DEF Accounted
<1>3. ASSUME NEW l \in Locations
      PROVE  balance'[l].reserved = SumFunction(PromisedBy(l)')
  <2>1. balance[l].reserved \in Int /\ balance'[l].reserved \in Int
    BY DEF TypeOK, Balance
  <2>2. SumFunction(PromisedBy(l)) \in Int /\ SumFunction(PromisedBy(l)') \in Int
    BY Summed, SummedNext, TotalType
  <2>3. balance[l].reserved = SumFunction(PromisedBy(l))
    BY DEF Accounted
  <2> QED
    BY <2>1, <2>2, <2>3
<1> QED
  BY <1>2, <1>3 DEF Accounted

\* What a step leaves alone adds up to what it did.
LEMMA SameTotals ==
    ASSUME TypeOK
    PROVE  /\ UNCHANGED balance =>
                /\ SumFunction(OnShelf') = SumFunction(OnShelf) + 0
                /\ \A l \in Locations : balance'[l].reserved - balance[l].reserved = 0
           /\ UNCHANGED transfer =>
                /\ SumFunction(OnRoad') = SumFunction(OnRoad) + 0
                /\ \A l \in Locations :
                     SumFunction(PromisedBy(l)') - SumFunction(PromisedBy(l)) = 0
           /\ UNCHANGED sold => SumFunction(sold') = SumFunction(sold) + 0
           /\ UNCHANGED supply => SumFunction(Brought') = SumFunction(Brought) + 0
           /\ UNCHANGED corrected => SumFunction(corrected') = SumFunction(corrected) + 0
<1>1. /\ UNCHANGED balance => OnShelf' = OnShelf
      /\ UNCHANGED transfer => OnRoad' = OnRoad /\ \A l \in Locations : PromisedBy(l)' = PromisedBy(l)
      /\ UNCHANGED supply => Brought' = Brought
  BY DEF OnShelf, OnRoad, PromisedBy, Brought
<1>2. \A l \in Locations : balance[l].reserved \in Int
  BY DEF TypeOK, Balance
<1> QED
  BY <1>1, <1>2, SumsTyped

\* A transfer from one status to another, on the road with q units or not.
LEMMA AccountedTransfer ==
    ASSUME TypeOK, TypeOK', Accounted, NEW t \in Transfers, OnTransfer(t)
    PROVE  Accounted'
<1> DEFINE q == transfer[t].approved
<1>1. /\ UNCHANGED <<supply, sold, corrected>>
      /\ \A u \in Transfers \ {t} : transfer'[u] = transfer[u]
  BY DEF OnTransfer, RequestTransfer, ApproveTransfer, ReserveTransfer, ShipTransfer,
         DeliverTransfer, Moves, TypeOK
<1>2. /\ SumFunction(sold') = SumFunction(sold) + 0
      /\ SumFunction(Brought') = SumFunction(Brought) + 0
      /\ SumFunction(corrected') = SumFunction(corrected) + 0
  BY <1>1, SameTotals
<1>3. /\ SumFunction(OnRoad') = SumFunction(OnRoad) + (OnRoad'[t] - OnRoad[t])
      /\ \A l \in Locations :
           SumFunction(PromisedBy(l)')
             = SumFunction(PromisedBy(l)) + (PromisedBy(l)'[t] - PromisedBy(l)[t])
  BY <1>1, TransferChange
<1>4. /\ q \in Int /\ 0 - q \in Int /\ 0 \in Int /\ Source[t] \in Locations
      /\ \A l \in Locations : /\ SumFunction(PromisedBy(l)) \in Int
                              /\ balance[l].reserved \in Int
  BY TransferAssumption, SumsTyped DEF TypeOK, TransferRow, Balance
<1>5. CASE RequestTransfer(t) \/ ApproveTransfer(t) \/ DeliverTransfer(t)
  <2>1. UNCHANGED balance
    BY <1>5 DEF RequestTransfer, ApproveTransfer, DeliverTransfer
  <2>2. \/ transfer[t].status = "none" /\ transfer'[t].status = "requested"
        \/ transfer[t].status = "requested" /\ transfer'[t].status = "approved"
        \/ /\ transfer[t].status = "in_transit" /\ transfer'[t].status = "delivered"
           /\ transfer'[t].approved = q
    BY <1>5 DEF RequestTransfer, ApproveTransfer, DeliverTransfer, Moves, TypeOK, TransferRow
  <2>3. OnRoad'[t] - OnRoad[t] = 0
    BY <1>4, <2>2 DEF OnRoad
  <2>4. \A l \in Locations : PromisedBy(l)'[t] - PromisedBy(l)[t] = 0
    BY <1>4, <2>2 DEF PromisedBy
  <2>5. \A l \in Locations : SumFunction(PromisedBy(l)') - SumFunction(PromisedBy(l)) = 0
    BY <1>3, <1>4, <2>4
  <2>6. /\ SumFunction(OnShelf') = SumFunction(OnShelf) + 0
        /\ \A l \in Locations : balance'[l].reserved - balance[l].reserved = 0
    BY <2>1, SameTotals
  <2> QED
    BY <1>2, <1>3, <1>4, <2>3, <2>5, <2>6, Moved
<1>6. CASE ReserveTransfer(t)
  <2>1. /\ transfer[t].status = "approved" /\ transfer'[t].status = "reserved"
        /\ transfer'[t].approved = q
    BY <1>6 DEF ReserveTransfer, Moves, TypeOK, TransferRow
  <2>2. /\ SumFunction(OnShelf') = SumFunction(OnShelf) + 0
        /\ balance'[Source[t]].reserved = balance[Source[t]].reserved + q
        /\ \A m \in Locations \ {Source[t]} : balance'[m] = balance[m]
    BY <1>4, <1>6, ShelfChange DEF ReserveTransfer
  <2>3. OnRoad'[t] - OnRoad[t] = 0
    BY <2>1 DEF OnRoad
  <2>4. \A l \in Locations : PromisedBy(l)'[t] - PromisedBy(l)[t] = IF l = Source[t] THEN q ELSE 0
    BY <1>4, <2>1 DEF PromisedBy
  <2>5. ASSUME NEW l \in Locations
        PROVE  balance'[l].reserved - balance[l].reserved
                 = SumFunction(PromisedBy(l)') - SumFunction(PromisedBy(l))
    BY <1>3, <1>4, <2>2, <2>4
  <2> QED
    BY <1>2, <1>3, <1>4, <2>2, <2>3, <2>5, Moved
<1>7. CASE ShipTransfer(t)
  <2>1. /\ transfer[t].status = "reserved" /\ transfer'[t].status = "in_transit"
        /\ transfer'[t].approved = q
    BY <1>7 DEF ShipTransfer, Moves, TypeOK, TransferRow
  <2>2. /\ SumFunction(OnShelf') = SumFunction(OnShelf) + (0 - q)
        /\ balance'[Source[t]].reserved = balance[Source[t]].reserved + (0 - q)
        /\ \A m \in Locations \ {Source[t]} : balance'[m] = balance[m]
    BY <1>4, <1>7, ShelfChange DEF ShipTransfer
  <2>3. OnRoad'[t] - OnRoad[t] = q
    BY <1>4, <2>1 DEF OnRoad
  <2>4. \A l \in Locations :
            PromisedBy(l)'[t] - PromisedBy(l)[t] = IF l = Source[t] THEN 0 - q ELSE 0
    BY <1>4, <2>1 DEF PromisedBy
  <2>5. ASSUME NEW l \in Locations
        PROVE  balance'[l].reserved - balance[l].reserved
                 = SumFunction(PromisedBy(l)') - SumFunction(PromisedBy(l))
    BY <1>3, <1>4, <2>2, <2>4
  <2>6. (0 - q) + q + 0 = 0 + 0
    BY <1>4
  <2> QED
    BY <1>2, <1>3, <1>4, <2>2, <2>3, <2>5, <2>6, Moved
<1> QED
  BY <1>5, <1>6, <1>7 DEF OnTransfer

\* Units reach a shelf and nothing is reserved.
LEMMA SameReserved ==
    ASSUME TypeOK, TypeOK', NEW l \in Locations, NEW a \in Int, Change(l, balance[l], a, 0)
    PROVE  /\ SumFunction(OnShelf') = SumFunction(OnShelf) + a
           /\ \A m \in Locations : balance'[m].reserved - balance[m].reserved = 0
<1>1. \A m \in Locations : balance[m].reserved \in Int
  BY DEF TypeOK, Balance
<1>2. /\ SumFunction(OnShelf') = SumFunction(OnShelf) + a
      /\ balance'[l].reserved = balance[l].reserved + 0
      /\ \A m \in Locations \ {l} : balance'[m] = balance[m]
  BY ShelfChange
<1> QED
  BY <1>1, <1>2

LEMMA AccountedOrder ==
    ASSUME TypeOK, TypeOK', Accounted, NEW l \in Stores, Sell(l) \/ Return(l)
    PROVE  Accounted'
<1>1. UNCHANGED <<transfer, supply, corrected>>
  BY DEF Sell, Return
<1>2. PICK a \in {0 - 1, 1} : /\ Change(l, balance[l], a, 0)
                              /\ sold' = [sold EXCEPT ![l] = sold[l] - a]
  <2>1. sold[l] \in Nat
    BY DEF TypeOK
  <2>2. CASE Sell(l)
    <3>1. sold[l] + 1 = sold[l] - (0 - 1)
      BY <2>1
    <3>2. Change(l, balance[l], 0 - 1, 0) /\ sold' = [sold EXCEPT ![l] = sold[l] - (0 - 1)]
      BY <2>2, <3>1 DEF Sell
    <3> QED
      BY <3>2
  <2>3. CASE Return(l)
    BY <2>1, <2>3 DEF Return
  <2> QED
    BY <2>2, <2>3
<1>3. a \in Int /\ l \in Locations
  BY PlaceAssumption
<1>4. /\ SumFunction(OnShelf') = SumFunction(OnShelf) + a
      /\ \A m \in Locations : balance'[m].reserved - balance[m].reserved = 0
  BY <1>2, <1>3, SameReserved
<1>5. SumFunction(sold') = SumFunction(sold) + (0 - a)
  <2>1. /\ sold'[l] = sold[l] - a /\ sold[l] \in Int
        /\ \A m \in Stores \ {l} : sold'[m] = sold[m]
    BY <1>2 DEF TypeOK
  <2>2. SumFunction(sold') = SumFunction(sold) + (sold'[l] - sold[l])
    BY <2>1, Summed, SummedNext, TotalChange
  <2> QED
    BY <1>3, <2>1, <2>2
<1>6. /\ SumFunction(OnRoad') = SumFunction(OnRoad) + 0
      /\ SumFunction(Brought') = SumFunction(Brought) + 0
      /\ SumFunction(corrected') = SumFunction(corrected) + 0
      /\ \A m \in Locations : SumFunction(PromisedBy(m)') - SumFunction(PromisedBy(m)) = 0
  BY <1>1, SameTotals
<1>7. 0 - a \in Int /\ 0 \in Int /\ a + 0 + (0 - a) = 0 + 0
  BY <1>3
<1> QED
  BY <1>3, <1>4, <1>5, <1>6, <1>7, Moved

\* A transfer being received is delivered: its units come off the road.
LEMMA AccountedReceive ==
    ASSUME TypeOK, TypeOK', ReceivedOnce, Accounted, ~stale', NEW r \in Requests, ReceiveSave(r)
    PROVE  Accounted'
<1>1. PICK t \in Transfers : t = req[r].transfer
  BY RequestOps DEF ReceiveSave, Serving, TypeOK, Receiving
<1>2. PICK l \in Locations : l = Destination[t]
  BY TransferAssumption, PlaceAssumption
<1>3. PICK q \in Int : q = transfer[t].approved
  BY DEF TypeOK, TransferRow
<1>4. /\ Change(l, balance[l], q, 0)
      /\ transfer' = [transfer EXCEPT ![t].status = "received"]
      /\ UNCHANGED <<supply, sold, corrected>>
  BY <1>1, <1>2, <1>3 DEF ReceiveSave, Stale
<1>5. transfer[t].status = "delivered"
  BY <1>1 DEF ReceiveSave, ReceivedOnce
<1>6. /\ transfer'[t].status = "received"
      /\ \A u \in Transfers \ {t} : transfer'[u] = transfer[u]
  BY <1>4 DEF TypeOK, TransferRow
<1>7. /\ SumFunction(OnShelf') = SumFunction(OnShelf) + q
      /\ \A m \in Locations : balance'[m].reserved - balance[m].reserved = 0
  BY <1>4, SameReserved
<1>8. SumFunction(OnRoad') = SumFunction(OnRoad) + (0 - q)
  <2>1. OnRoad[t] = q /\ OnRoad'[t] = 0
    BY <1>3, <1>5, <1>6 DEF OnRoad
  <2> QED
    BY <1>6, <2>1, TransferChange
<1>9. \A m \in Locations : SumFunction(PromisedBy(m)') - SumFunction(PromisedBy(m)) = 0
  <2>1. \A m \in Locations : PromisedBy(m)'[t] = 0 /\ PromisedBy(m)[t] = 0
    BY <1>5, <1>6 DEF PromisedBy
  <2> QED
    BY <1>6, <2>1, TransferChange, SumsTyped
<1>10. /\ SumFunction(sold') = SumFunction(sold) + 0
       /\ SumFunction(Brought') = SumFunction(Brought) + 0
       /\ SumFunction(corrected') = SumFunction(corrected) + 0
  BY <1>4, SameTotals
<1>11. 0 - q \in Int /\ 0 \in Int /\ q + (0 - q) + 0 = 0 + 0
  OBVIOUS
<1> QED
  BY <1>7, <1>8, <1>9, <1>10, <1>11, Moved

\* A replenishment that is still ordered brings its units.
LEMMA AccountedAdd ==
    ASSUME TypeOK, TypeOK', Accounted, ~stale', NEW r \in Requests, AddSave(r)
    PROVE  Accounted'
<1>1. PICK s \in Supplies : s = req[r].supply
  BY RequestOps DEF AddSave, Serving, TypeOK, Adding
<1>2. PICK l \in Locations : l = Supplied[s].store
  BY SupplyAssumption, PlaceAssumption
<1>3. PICK q \in Int : q = Supplied[s].quantity
  BY SupplyAssumption
<1>4. /\ Change(l, balance[l], q, 0)
      /\ supply' = [supply EXCEPT ![s] = "received"] /\ supply[s] = "ordered"
      /\ UNCHANGED <<transfer, sold, corrected>>
  BY <1>1, <1>2, <1>3 DEF AddSave
<1>5. /\ SumFunction(OnShelf') = SumFunction(OnShelf) + q
      /\ \A m \in Locations : balance'[m].reserved - balance[m].reserved = 0
  BY <1>4, SameReserved
<1>6. SumFunction(Brought') = SumFunction(Brought) + q
  <2>1. Brought[s] = 0 /\ Brought'[s] = q /\ \A u \in Supplies \ {s} : Brought'[u] = Brought[u]
    BY <1>3, <1>4 DEF Brought, TypeOK
  <2>2. IsFiniteSet(Supplies) /\ Brought \in [Supplies -> Int] /\ Brought' \in [Supplies -> Int]
    BY Summed, SummedNext
  <2>3. SumFunction(Brought') = SumFunction(Brought) + (Brought'[s] - Brought[s])
    BY <2>1, <2>2, TotalChange
  <2> QED
    BY <2>1, <2>3
<1>7. /\ SumFunction(OnRoad') = SumFunction(OnRoad) + 0
      /\ SumFunction(sold') = SumFunction(sold) + 0
      /\ SumFunction(corrected') = SumFunction(corrected) + 0
      /\ \A m \in Locations : SumFunction(PromisedBy(m)') - SumFunction(PromisedBy(m)) = 0
  BY <1>4, SameTotals
<1>8. 0 \in Int /\ q + 0 + 0 = q + 0
  OBVIOUS
<1> QED
  BY <1>5, <1>6, <1>7, <1>8, Moved

\* A replenishment that is still ordered is canceled, and brings nothing.
LEMMA AccountedCancel ==
    ASSUME TypeOK, TypeOK', Accounted, ~stale', NEW r \in Requests, CancelSupply(r)
    PROVE  Accounted'
<1>1. PICK s \in Supplies : s = req[r].supply
  BY RequestOps DEF CancelSupply, Serving, TypeOK, Loaded
<1>2. /\ supply' = [supply EXCEPT ![s] = "canceled"] /\ supply[s] = "ordered"
      /\ UNCHANGED <<balance, transfer, sold, corrected>>
  BY <1>1 DEF CancelSupply
<1>3. \A u \in Supplies : Brought'[u] = Brought[u]
  BY <1>2 DEF Brought, TypeOK
<1>4. Brought' = Brought
  BY <1>3 DEF Brought
<1>5. SumFunction(Brought') = SumFunction(Brought) + 0
  BY <1>4, SumsTyped
<1>6. /\ SumFunction(OnShelf') = SumFunction(OnShelf) + 0
      /\ SumFunction(OnRoad') = SumFunction(OnRoad) + 0
      /\ SumFunction(sold') = SumFunction(sold) + 0
      /\ SumFunction(corrected') = SumFunction(corrected) + 0
      /\ \A m \in Locations : /\ balance'[m].reserved - balance[m].reserved = 0
                              /\ SumFunction(PromisedBy(m)') - SumFunction(PromisedBy(m)) = 0
  BY <1>2, SameTotals
<1> QED
  BY <1>5, <1>6, Moved

\* A correction of a balance that has not changed is all that changes.
LEMMA AccountedAdjust ==
    ASSUME TypeOK, TypeOK', Accounted, ~stale', NEW r \in Requests, AdjustSave(r)
    PROVE  Accounted'
<1>1. PICK l \in Stores, d \in Int : l = req[r].store /\ d = req[r].delta
  <2>1. req[r] \in Adjusting
    BY RequestOps DEF AdjustSave, Serving, TypeOK
  <2>2. req[r].store \in Stores /\ req[r].delta \in Deltas
    BY <2>1 DEF Adjusting
  <2>3. req[r].delta \in Int
    BY <2>2, BoundAssumption, Zenon
  <2> QED
    BY <2>2, <2>3
<1>2. l \in Locations
  BY PlaceAssumption
<1>3. UNCHANGED <<transfer, supply, sold>>
  BY DEF AdjustSave
<1>4. /\ SumFunction(OnRoad') = SumFunction(OnRoad) + 0
      /\ SumFunction(sold') = SumFunction(sold) + 0
      /\ SumFunction(Brought') = SumFunction(Brought) + 0
      /\ \A m \in Locations : SumFunction(PromisedBy(m)') - SumFunction(PromisedBy(m)) = 0
  BY <1>3, SameTotals
<1>5. CASE UNCHANGED <<balance, corrected>>
  <2>1. /\ SumFunction(OnShelf') = SumFunction(OnShelf) + 0
        /\ SumFunction(corrected') = SumFunction(corrected) + 0
        /\ \A m \in Locations : balance'[m].reserved - balance[m].reserved = 0
    BY <1>5, SameTotals
  <2> QED
    BY <1>4, <2>1, Moved
<1>6. CASE /\ Change(l, balance[l], d, 0)
           /\ corrected' = [corrected EXCEPT ![l] = corrected[l] + d]
  <2>1. /\ SumFunction(OnShelf') = SumFunction(OnShelf) + d
        /\ \A m \in Locations : balance'[m].reserved - balance[m].reserved = 0
    BY <1>2, <1>6, SameReserved
  <2>2. SumFunction(corrected') = SumFunction(corrected) + d
    <3>1. /\ corrected'[l] = corrected[l] + d /\ corrected[l] \in Int
          /\ \A m \in Stores \ {l} : corrected'[m] = corrected[m]
      BY <1>6 DEF TypeOK
    <3>2. IsFiniteSet(Stores) /\ corrected \in [Stores -> Int] /\ corrected' \in [Stores -> Int]
      BY Summed, SummedNext
    <3>3. SumFunction(corrected') = SumFunction(corrected) + (corrected'[l] - corrected[l])
      BY <3>1, <3>2, TotalChange
    <3> QED
      BY <3>1, <3>3
  <2>3. 0 \in Int /\ d + 0 + 0 = 0 + d
    OBVIOUS
  <2> QED
    BY <1>4, <2>1, <2>2, <2>3, Moved
<1> QED
  BY <1>1, <1>5, <1>6 DEF AdjustSave, Stale

LEMMA AccountedStep ==
    TypeOK /\ ReceivedOnce /\ (~stale => Accounted) /\ [Next]_vars => (~stale' => Accounted')
<1> SUFFICES ASSUME TypeOK, ReceivedOnce, ~stale => Accounted, [Next]_vars, ~stale'
             PROVE  Accounted'
  OBVIOUS
<1>1. TypeOK'
  BY TypeStep
<1>2. CASE UNCHANGED <<balance, transfer, supply, sold, corrected, stale>>
  <2>1. /\ OnShelf' = OnShelf /\ OnRoad' = OnRoad /\ Brought' = Brought
        /\ \A l \in Locations : PromisedBy(l)' = PromisedBy(l)
    BY <1>2 DEF OnShelf, OnRoad, Brought, PromisedBy
  <2> QED
    BY <1>2, <2>1 DEF Accounted
<1>3. ASSUME NEW t \in Transfers, OnTransfer(t)
      PROVE  Accounted'
  <2>1. UNCHANGED stale
    BY <1>3 DEF OnTransfer, RequestTransfer, ApproveTransfer, ReserveTransfer, ShipTransfer,
                DeliverTransfer
  <2> QED
    BY <1>1, <1>3, <2>1, AccountedTransfer
<1>4. ASSUME NEW l \in Stores, Sell(l) \/ Return(l)
      PROVE  Accounted'
  <2>1. UNCHANGED stale
    BY <1>4 DEF Sell, Return
  <2> QED
    BY <1>1, <1>4, <2>1, AccountedOrder
<1>5. ASSUME NEW r \in Requests, ReceiveSave(r) \/ AddSave(r) \/ CancelSupply(r) \/ AdjustSave(r)
      PROVE  Accounted'
  <2>1. ~stale
    BY <1>5 DEF ReceiveSave, AddSave, CancelSupply, AdjustSave, Stale
  <2> QED
    BY <1>1, <1>5, <2>1, AccountedReceive, AccountedAdd, AccountedCancel, AccountedAdjust
<1>6. ASSUME NEW r \in Requests,
             \/ AddRead(r) \/ RollBack(r) \/ AdjustEvaluate(r) \/ AdjustAlert(r)
             \/ \E t \in Transfers : ReceiveRead(r, t)
             \/ \E s \in Supplies : LoadSupply(r, s, "supply") \/ LoadSupply(r, s, "cancel")
             \/ \E l \in Stores, d \in Deltas : LoadAdjust(r, l, d)
      PROVE  UNCHANGED <<balance, transfer, supply, sold, corrected, stale>>
  BY <1>6 DEF AddRead, RollBack, AdjustEvaluate, AdjustAlert, ReceiveRead, LoadSupply, LoadAdjust
<1> QED
  BY <1>2, <1>3, <1>4, <1>5, <1>6 DEF Next, Finishing, vars

LEMMA AccountedAlways == Spec => [](~stale => Accounted)
<1> DEFINE IInv == TypeOK /\ ReceivedOnce /\ (~stale => Accounted)
<1>1. Init => IInv
  BY TypeInit, ReceiveInit, AccountedInit
<1>2. IInv /\ [Next]_vars => IInv'
  BY TypeStep, ReceiveStep, AccountedStep
<1> QED
  BY <1>1, <1>2, PTL DEF Spec

\* Units neither appear nor vanish between the shelves, the road, the customers,
\* the suppliers and the corrections, for any number of stores, hubs, transfers
\* and requests, as long as no request saves a balance that changed after it was
\* read (the services of a transfer and of a replenishment, adjust_store_inventory).
THEOREM StockConservedAlways == Spec => []StockConserved
<1>1. (~stale => Accounted) => StockConserved
  BY DEF Accounted, StockConserved
<1> QED
  BY <1>1, AccountedAlways, PTL

\* As long, what each location has reserved is what its reserved transfers were
\* approved (reserve_transfer_inventory, ship_transfer).
THEOREM ReservedIsPromisedAlways == Spec => []ReservedIsPromised
<1>1. (~stale => Accounted) => ReservedIsPromised
  BY DEF Accounted, ReservedIsPromised
<1> QED
  BY <1>1, AccountedAlways, PTL
=============================================================================
