------------------------ MODULE OrderPayment_Proofs -------------------------
(***************************************************************************)
(* Machine-checked safety of OrderPayment for every set of orders and of   *)
(* web workers, every flow, and any stock: what must hold however the      *)
(* requests overlap, and what holds of the orders no stale row was saved   *)
(* on.                                                                     *)
(***************************************************************************)
EXTENDS OrderPayment, Sums, TLAPS

-----------------------------------------------------------------------------
(* Type correctness *)

\* Transition_order_status returns an order row.
LEMMA TransitionType ==
    ASSUME NEW row \in OrderRow, NEW s \in OrderStatus
    PROVE  /\ Transition(row, s) \in OrderRow
           /\ Transition(row, s).status = s
BY DEF Transition, OrderRow

\* record_payment_pending keeps the rows well typed.
LEMMA RecordPendingType ==
    ASSUME TypeOK, NEW o \in Orders, NEW row \in OrderRow, NEW intent \in BOOLEAN,
           RecordPending(o, row, intent)
    PROVE  /\ orders' \in [Orders -> OrderRow]
           /\ payments' \in [Orders -> PaymentRow]
           /\ ledger' \in [Orders -> LedgerRow]
           /\ outbox' \in [Orders -> OrderEvent]
           /\ stock' \in Nat
<1>1. Transition(row, "payment_pending") \in OrderRow
  BY TransitionType DEF OrderStatus
<1>2. payments' \in [Orders -> PaymentRow]
  <2>1. payments \in [Orders -> PaymentRow] /\ payments[o] \in PaymentRow
    BY DEF TypeOK
  <2>2. [[payments[o] EXCEPT !.status = "pending"] EXCEPT !.intent = intent] \in PaymentRow
    BY <2>1 DEF PaymentRow, PaymentStatus
  <2>3. payments' = [payments EXCEPT ![o].status = "pending", ![o].intent = intent]
    BY DEF RecordPending
  <2>4. payments' =
          [payments EXCEPT ![o] = [[payments[o] EXCEPT !.status = "pending"] EXCEPT !.intent = intent]]
    BY <2>1, <2>3
  <2> QED
    BY <2>1, <2>2, <2>4
<1>3. outbox' \in [Orders -> OrderEvent]
  BY DEF TypeOK, RecordPending, Emit, OrderEvent, OrderStatus
<1> QED
  BY <1>1, <1>2, <1>3 DEF TypeOK, RecordPending

\* complete_checkout_payment keeps the rows well typed.
LEMMA CompletePaymentType ==
    ASSUME TypeOK, NEW o \in Orders, NEW row \in OrderRow, NEW intent \in BOOLEAN,
           CompletePayment(o, row, intent)
    PROVE  /\ orders' \in [Orders -> OrderRow]
           /\ payments' \in [Orders -> PaymentRow]
           /\ ledger' \in [Orders -> LedgerRow]
           /\ outbox' \in [Orders -> OrderEvent]
           /\ stock' \in Nat
<1>1. AfterSuccess(o, row) \in OrderRow
  BY TransitionType DEF AfterSuccess, TypeOK, OrderStatus
<1>2. Transition(AfterSuccess(o, row), "queued") \in OrderRow
  BY <1>1, TransitionType DEF OrderStatus
<1>3. payments' \in [Orders -> PaymentRow]
  <2>1. payments' = [payments EXCEPT ![o] =
                       [@ EXCEPT !.status = "succeeded", !.intent = intent,
                                 !.captured = TRUE]]
    BY DEF TypeOK, CompletePayment
  <2>2. payments[o] \in PaymentRow
    BY DEF TypeOK
  <2> QED
    BY <2>1, <2>2 DEF TypeOK, PaymentRow, PaymentStatus
<1>4. ledger' \in [Orders -> LedgerRow]
  BY DEF TypeOK, CompletePayment, LedgerRow
<1>5. stock' \in Nat
  <2>1. stock \in Nat /\ Need[o] \in Nat
    BY StockAssumption DEF TypeOK
  <2>2. CASE Reserves(o, row)
    BY <2>1, <2>2 DEF CompletePayment, EnoughStock
  <2>3. CASE ~Reserves(o, row)
    BY <2>1, <2>3 DEF CompletePayment
  <2> QED
    BY <2>2, <2>3
<1>6. outbox' \in [Orders -> OrderEvent]
  BY DEF TypeOK, CompletePayment, Emit, OrderEvent, OrderStatus
<1>7. orders' \in [Orders -> OrderRow]
  BY <1>1, <1>2 DEF TypeOK, CompletePayment
<1> QED
  BY <1>3, <1>4, <1>5, <1>6, <1>7

\* record_payment_failure keeps the rows well typed.
LEMMA RecordFailureType ==
    ASSUME TypeOK, NEW o \in Orders, NEW row \in OrderRow, NEW intent \in BOOLEAN,
           RecordFailure(o, row, intent)
    PROVE  /\ orders' \in [Orders -> OrderRow]
           /\ payments' \in [Orders -> PaymentRow]
           /\ ledger' \in [Orders -> LedgerRow]
           /\ outbox' \in [Orders -> OrderEvent]
           /\ stock' \in Nat
<1>1. Transition(row, "canceled") \in OrderRow
  BY TransitionType DEF OrderStatus
<1>2. payments' \in [Orders -> PaymentRow]
  <2>1. payments' = [payments EXCEPT ![o] = [@ EXCEPT !.status = "failed",
                                                    !.intent = intent]]
    BY DEF TypeOK, RecordFailure
  <2> QED
    BY <2>1 DEF TypeOK, PaymentRow, PaymentStatus
<1>3. outbox' \in [Orders -> OrderEvent]
  BY DEF TypeOK, RecordFailure, Emit, OrderEvent
<1> QED
  BY <1>1, <1>2, <1>3 DEF TypeOK, RecordFailure

\* Loading, ending a request and rolling back keep the requests well typed.
LEMMA LoadType ==
    ASSUME TypeOK, NEW r \in Requests, NEW o \in Orders, NEW op \in Op,
           NEW to \in OrderStatus, Load(r, op, o, to)
    PROVE  req' \in [Requests -> Request \cup {Idle}]
<1>1. [op |-> op, order |-> o, row |-> orders[o], pay |-> payments[o], to |-> to]
        \in Request
  BY DEF TypeOK, Request
<1> QED
  BY <1>1 DEF TypeOK, Load

LEMMA DoneType ==
    ASSUME TypeOK, NEW r \in Requests, Done(r)
    PROVE  req' \in [Requests -> Request \cup {Idle}]
BY DEF TypeOK, Done

\* What a request that is being served holds.
LEMMA ServingType ==
    ASSUME TypeOK, NEW r \in Requests, req[r] # Idle
    PROVE  /\ req[r] \in Request
           /\ req[r].order \in Orders
           /\ req[r].row \in OrderRow
           /\ req[r].pay \in PaymentRow
           /\ req[r].to \in OrderStatus
BY DEF TypeOK, Request

\* Only orders are noted as raced or unpaid.
LEMMA NotedType ==
    ASSUME TypeOK, NEW r \in Requests, req[r] # Idle, Noted(r)
    PROVE  raced' \subseteq Orders
BY ServingType DEF TypeOK, Noted

\* A Stripe event about an order is a webhook.
LEMMA StripeRefundsType ==
    ASSUME TypeOK, NEW o \in Orders, StripeRefunds(o)
    PROVE  charge' \in [Orders -> Charge] /\ webhooks' \subseteq Webhook
<1>1. [type |-> "charge.refunded", order |-> o] \in Webhook
  BY DEF Webhook, WebhookType
<1>2. charge' \in [Orders -> Charge]
  BY DEF TypeOK, StripeRefunds, Charge
<1> QED
  BY <1>1, <1>2 DEF TypeOK, StripeRefunds

\* The transactions keep every variable well typed.
LEMMA CommitType ==
    ASSUME TypeOK, NEW r \in Requests, Commit(r)
    PROVE  TypeOK'
<1>1. req[r] # Idle
  BY DEF Commit, BeginHosted, BeginMock, CompleteMock, CommitIntent, CommitFinalize,
         CommitConfirm, CommitFail, CommitRefund, RefundRaises, CommitTransition, Serving
<1> DEFINE o == req[r].order
           row == req[r].row
<1>2. o \in Orders /\ row \in OrderRow /\ req[r].pay \in PaymentRow
      /\ req[r].to \in OrderStatus /\ req[r] \in Request
  BY <1>1, ServingType
<1>12. Noted(r) => raced' \subseteq Orders
  BY <1>1, NotedType
<1>13. raced \subseteq Orders /\ unpaid \subseteq Orders
  BY DEF TypeOK
<1>3. CASE BeginHosted(r)
  <2>1. PICK intent \in BOOLEAN : RecordPending(o, row, intent)
    BY <1>3 DEF BeginHosted
  <2>2. charge' \in [Orders -> Charge]
    BY <1>3, <1>2 DEF BeginHosted, TypeOK, Charge
  <2> QED
    BY <2>1, <2>2, <1>2, <1>12, <1>3, RecordPendingType, DoneType DEF BeginHosted, TypeOK
<1>4. CASE BeginMock(r)
  <2>1. RecordPending(o, row, TRUE)
    BY <1>4 DEF BeginMock
  <2>2. Transition(row, "payment_pending") \in OrderRow
    BY <1>2, TransitionType DEF OrderStatus
  <2>3. req' = [req EXCEPT ![r] = [@ EXCEPT !.op = "complete",
                                          !.row = Transition(row, "payment_pending")]]
    BY <1>4 DEF BeginMock, TypeOK
  <2>4. [req[r] EXCEPT !.op = "complete", !.row = Transition(row, "payment_pending")]
          \in Request
    BY <1>2, <2>2 DEF Request, Op
  <2>5. req' \in [Requests -> Request \cup {Idle}]
    BY <2>3, <2>4 DEF TypeOK
  <2> QED
    BY <2>1, <2>5, <1>2, <1>12, <1>4, RecordPendingType DEF BeginMock, TypeOK
<1>5. CASE CompleteMock(r)
  <2>1. orders[o] \in OrderRow
    BY <1>2 DEF TypeOK
  <2>2. CompletePayment(o, row, TRUE) \/ RecordFailure(o, orders[o], TRUE)
    BY <1>5 DEF CompleteMock
  <2> QED
    BY <2>1, <2>2, <1>2, <1>12, <1>5, CompletePaymentType, RecordFailureType, DoneType
       DEF CompleteMock, TypeOK
<1>6. CASE CommitIntent(r)
  <2>1. RecordPending(o, row, flow # "hosted")
    BY <1>6 DEF CommitIntent
  <2>2. charge' \in [Orders -> Charge]
    BY <1>6, <1>2 DEF CommitIntent, TypeOK, Charge
  <2> QED
    BY <2>1, <2>2, <1>2, <1>12, <1>6, RecordPendingType, DoneType DEF CommitIntent, TypeOK
<1>7. CASE CommitFinalize(r)
  <2>1. CASE CompletePayment(o, row, TRUE) /\ Done(r) /\ Noted(r)
    BY <2>1, <1>2, <1>12, <1>7, CompletePaymentType, DoneType DEF CommitFinalize, TypeOK
  <2>2. CASE RollBack(r)
    BY <2>2, <1>7, DoneType DEF CommitFinalize, RollBack, db, history, TypeOK
  <2> QED
    BY <2>1, <2>2, <1>7 DEF CommitFinalize
<1>14. CASE CommitConfirm(r)
  <2>1. CASE RollBack(r)
    BY <2>1, <1>14, DoneType DEF CommitConfirm, RollBack, db, history, TypeOK
  <2>2. CASE ~RollBack(r)
    <3>1. PICK intent \in BOOLEAN : CompletePayment(o, row, intent)
      BY <2>2, <1>14 DEF CommitConfirm
    <3>2. unpaid' \subseteq Orders /\ Done(r) /\ Noted(r)
      BY <2>2, <1>2, <1>13, <1>14 DEF CommitConfirm
    <3> QED
      BY <3>1, <3>2, <1>2, <1>12, <1>14, CompletePaymentType, DoneType
         DEF CommitConfirm, TypeOK
  <2> QED
    BY <2>1, <2>2
<1>8. CASE CommitFail(r)
  BY <1>2, <1>12, <1>8, RecordFailureType, DoneType DEF CommitFail, TypeOK
<1>9. CASE CommitRefund(r)
  <2>1. orders' \in [Orders -> OrderRow]
    <3>1. Transition(Transition(row, "refund_pending"), "refunded") \in OrderRow
      BY <1>2, TransitionType DEF OrderStatus
    <3> QED
      BY <3>1, <1>9 DEF CommitRefund, TypeOK
  <2>2. payments' \in [Orders -> PaymentRow]
    BY <1>2, <1>9 DEF CommitRefund, TypeOK, PaymentRow, PaymentStatus
  <2>3. ledger' \in [Orders -> LedgerRow]
    BY <1>2, <1>9 DEF CommitRefund, TypeOK, LedgerRow
  <2>4. outbox' \in [Orders -> OrderEvent]
    BY <1>2, <1>9 DEF CommitRefund, Emit, TypeOK, OrderEvent, OrderStatus
  <2>5. stock' \in Nat
    <3>1. stock \in Nat /\ Need[o] \in Nat
      BY <1>2, StockAssumption DEF TypeOK
    <3>2. stock' = stock + Need[o] \/ stock' = stock
      BY <1>9 DEF CommitRefund
    <3> QED
      BY <3>1, <3>2
  <2>6. charge' \in [Orders -> Charge] /\ webhooks' \subseteq Webhook
    BY <1>2, <1>9, StripeRefundsType DEF CommitRefund, RemoteRefund, TypeOK
  <2> QED
    BY <2>1, <2>2, <2>3, <2>4, <2>5, <2>6, <1>9, <1>12, DoneType DEF CommitRefund, TypeOK
<1>10. CASE RefundRaises(r)
  <2>1. charge' \in [Orders -> Charge] /\ webhooks' \subseteq Webhook
    BY <1>2, <1>10, StripeRefundsType DEF RefundRaises, TypeOK
  <2> QED
    BY <2>1, <1>10, DoneType DEF RefundRaises, RollBack, db, history, TypeOK
<1>11. CASE CommitTransition(r)
  <2>1. Transition(row, req[r].to) \in OrderRow
    BY <1>2, TransitionType
  <2>2. outbox' \in [Orders -> OrderEvent]
    BY <1>2, <1>11 DEF CommitTransition, Emit, TypeOK, OrderEvent
  <2> QED
    BY <2>1, <2>2, <1>2, <1>12, <1>11, DoneType DEF CommitTransition, TypeOK
<1> QED
  BY <1>3, <1>4, <1>5, <1>6, <1>7, <1>8, <1>9, <1>10, <1>11, <1>14 DEF Commit

\* The loads and the environment keep every variable well typed.
LEMMA LoadsType ==
    ASSUME TypeOK, NEW r \in Requests, NEW o \in Orders,
           \/ LoadIntent(r, o) \/ LoadSuccessPage(r, o) \/ LoadConfirm(r, o)
           \/ LoadCancelPage(r, o) \/ LoadCancel(r, o) \/ LoadMark(r, o)
    PROVE  TypeOK'
<1>1. CASE LoadIntent(r, o)
  BY <1>1, LoadType DEF LoadIntent, TypeOK, db, history, Op, OrderStatus
<1>2. CASE LoadSuccessPage(r, o)
  BY <1>2, LoadType DEF LoadSuccessPage, TypeOK, db, history, Op, OrderStatus
<1>3. CASE LoadCancelPage(r, o)
  BY <1>3, LoadType DEF LoadCancelPage, TypeOK, db, history, Op, OrderStatus
<1>4. CASE LoadCancel(r, o)
  BY <1>4, LoadType DEF LoadCancel, TypeOK, db, history, Op, OrderStatus
<1>5. CASE LoadMark(r, o)
  BY <1>5, LoadType DEF LoadMark, TypeOK, db, history, Op, OrderStatus
<1>6. CASE LoadConfirm(r, o)
  BY <1>6, LoadType DEF LoadConfirm, TypeOK, db, history, Op, OrderStatus
<1> QED
  BY <1>1, <1>2, <1>3, <1>4, <1>5, <1>6

LEMMA ReceiveType ==
    ASSUME TypeOK, NEW r \in Requests, ReceiveWebhook(r)
    PROVE  TypeOK'
<1>1. PICK e \in webhooks : Webhooks(r, e)
  BY DEF ReceiveWebhook
<1>2. e \in Webhook /\ e.order \in Orders /\ e.type \in WebhookType
  BY <1>1 DEF TypeOK, Webhook
<1>3. \/ UNCHANGED req
      \/ \E op \in {"finalize", "fail", "refund"} : Load(r, op, e.order, "none")
  BY <1>1, <1>2 DEF Webhooks, WebhookType
<1>4. req' \in [Requests -> Request \cup {Idle}]
  BY <1>2, <1>3, LoadType DEF TypeOK, Op, OrderStatus
<1> QED
  BY <1>1, <1>2, <1>4 DEF Webhooks, TypeOK, db, history

LEMMA EnvironmentType ==
    ASSUME TypeOK, NEW o \in Orders, Environment(o)
    PROVE  TypeOK'
<1>1. \A t \in WebhookType : Announce(t, o) => webhooks' \subseteq Webhook
  BY DEF Announce, TypeOK, Webhook
<1>2. CASE Pay(o)
  <2>1. webhooks' \subseteq Webhook
    BY <1>1, <1>2 DEF Pay, WebhookType
  <2> QED
    BY <1>2, <2>1 DEF Pay, TypeOK, db, history, Charge
<1>3. CASE Decline(o)
  <2>1. webhooks' \subseteq Webhook
    BY <1>1, <1>3 DEF Decline, WebhookType
  <2> QED
    BY <1>3, <2>1 DEF Decline, TypeOK, db, history
<1>4. CASE ExpireSession(o)
  <2>1. webhooks' \subseteq Webhook
    BY <1>1, <1>4 DEF ExpireSession, WebhookType
  <2> QED
    BY <1>4, <2>1 DEF ExpireSession, TypeOK, db, history, Charge
<1>5. CASE DashboardRefund(o)
  BY <1>5, StripeRefundsType DEF DashboardRefund, TypeOK, db, history
<1> QED
  BY <1>2, <1>3, <1>4, <1>5 DEF Environment

LEMMA CheckoutType ==
    ASSUME TypeOK, NEW r \in Requests, NEW o \in Orders, Checkout(r, o)
    PROVE  TypeOK'
<1> DEFINE row == [NoOrder EXCEPT !.status = "pricing_validated"]
<1>1. row \in OrderRow
  BY DEF NoOrder, OrderRow, OrderStatus
<1>2. orders' \in [Orders -> OrderRow]
  BY <1>1 DEF Checkout, TypeOK
<1>3. outbox' \in [Orders -> OrderEvent]
  BY DEF Checkout, Emit, TypeOK, OrderEvent
<1>4. req' \in [Requests -> Request \cup {Idle}]
  <2>1. [op |-> "begin", order |-> o, row |-> row, pay |-> NoPayment, to |-> "none"]
          \in Request
    BY <1>1 DEF Request, Op, NoPayment, PaymentRow, PaymentStatus, OrderStatus
  <2> QED
    BY <2>1 DEF Checkout, TypeOK
<1> QED
  BY <1>2, <1>3, <1>4 DEF Checkout, TypeOK, history

\* Every variable keeps its type.
THEOREM TypeCorrect == Spec => []TypeOK
<1>1. Init => TypeOK
  BY StockAssumption DEF Init, TypeOK, NoOrder, NoPayment, OrderRow, OrderStatus,
     PaymentRow, PaymentStatus, LedgerRow, Charge, OrderEvent
<1>2. TypeOK /\ [Next]_vars => TypeOK'
  <2> SUFFICES ASSUME TypeOK, [Next]_vars
               PROVE  TypeOK'
    OBVIOUS
  <2>1. CASE UNCHANGED vars
    BY <2>1 DEF vars, history, TypeOK
  <2>2. ASSUME NEW r \in Requests, Abandon(r)
        PROVE  TypeOK'
    <3>1. crashes' \in Nat
      BY <2>2 DEF Abandon, TypeOK
    <3>2. req' \in [Requests -> Request \cup {Idle}]
      BY <2>2, DoneType DEF Abandon, RollBack
    <3>3. UNCHANGED <<orders, payments, ledger, outbox, stock, charge, webhooks, seen, flow,
                    raced, unpaid>>
      BY <2>2 DEF Abandon, RollBack, db, history
    <3> QED
      BY <3>1, <3>2, <3>3 DEF TypeOK
  <2> QED
    BY <2>1, <2>2, CommitType, LoadsType, ReceiveType, CheckoutType, EnvironmentType DEF Next
<1> QED
  BY <1>1, <1>2, PTL DEF Spec

-----------------------------------------------------------------------------
(* The overlap invariant *)

\* What the rows of o are asked about only ever grows.
Grows(o) ==
    /\ flow' = flow
    /\ ledger[o].sale >= 1 => ledger'[o].sale >= 1
    /\ ledger[o].refund >= 1 => ledger'[o].refund >= 1
    /\ payments[o].captured => payments'[o].captured
    /\ charge[o] \in {"captured", "refunded"} => charge'[o] \in {"captured", "refunded"}
    /\ charge[o] = "refunded" => charge'[o] = "refunded"
    /\ flow = "mock" /\ charge[o] = "none" => charge'[o] = "none"
    /\ o \in unpaid => o \in unpaid'

\* A row that held keeps holding, stale or not.
LEMMA RowKept ==
    ASSUME NEW o \in Orders, NEW row, RowInv(row, o), Grows(o)
    PROVE  RowHolds(row, ledger'[o], payments'[o], charge'[o], flow', o \in unpaid')
BY DEF RowInv, RowHolds, Grows

\* A step leaves a request it does not serve as informed as it was, provided it
\* does not touch an order whose payment that request is about to begin.
LEMMA RequestKept ==
    ASSUME TypeOK, NEW r \in Requests, RequestInv(r), req'[r] = req[r],
           \A o \in Orders : Grows(o),
           \A o \in Orders : orders'[o].status = "none" => orders[o].status = "none",
           req[r] # Idle /\ req[r].op = "begin" => charge'[req[r].order] = "none"
    PROVE  RequestInv(r)'
<1> SUFFICES ASSUME req[r] # Idle
             PROVE  RequestInv(r)'
  BY DEF RequestInv
<1>1. req[r].order \in Orders
  BY ServingType
<1>2. RowHolds(req[r].row, ledger'[req[r].order], payments'[req[r].order],
               charge'[req[r].order], flow', req[r].order \in unpaid')
  BY <1>1, RowKept DEF RequestInv
<1>3. /\ charge[req[r].order] \in {"captured", "refunded"}
           => charge'[req[r].order] \in {"captured", "refunded"}
      /\ flow' = flow
  BY <1>1 DEF Grows
<1>4. orders'[req[r].order].status # "none"
  BY <1>1 DEF RequestInv
<1> QED
  BY <1>2, <1>3, <1>4 DEF RequestInv, RowInv

\* The invariant is kept by a step under which everything asked of the rows
\* grows, and each order row, each request and Stripe's facts still hold.
LEMMA OverlapStep ==
    ASSUME OverlapInv, flow' = flow, TypeOK', BeginOnce', StripeInv',
           \A o \in Orders : Grows(o),
           \A o \in Orders : \/ orders'[o] = orders[o]
                             \/ RowHolds(orders'[o], ledger'[o], payments'[o], charge'[o], flow', o \in unpaid'),
           \A s \in Requests : req'[s] = req[s] \/ RequestInv(s)',
           \A o \in Orders : orders'[o].status = "none" => orders[o].status = "none",
           \A s \in Requests :
               req[s] # Idle /\ req[s].op = "begin" /\ req'[s] = req[s]
                 => charge'[req[s].order] = "none"
    PROVE  OverlapInv'
<1>1. ASSUME NEW o \in Orders
      PROVE  RowHolds(orders'[o], ledger'[o], payments'[o], charge'[o], flow', o \in unpaid')
  BY RowKept DEF OverlapInv
<1>2. ASSUME NEW s \in Requests
      PROVE  RequestInv(s)'
  BY RequestKept DEF OverlapInv
<1> QED
  BY <1>1, <1>2 DEF OverlapInv, RowInv

\* A step that ends requests or turns them to another operation begins no
\* second payment.
LEMMA BeginOnceKept ==
    ASSUME BeginOnce,
           \A s \in Requests : \/ req'[s] = req[s]
                               \/ req'[s] = Idle
                               \/ req'[s].op # "begin"
    PROVE  BeginOnce'
BY DEF BeginOnce

\* Ending the request of r, and nobody else's.
LEMMA DoneOnly ==
    ASSUME TypeOK, NEW r \in Requests, Done(r)
    PROVE  \A s \in Requests : req'[s] = IF s = r THEN Idle ELSE req[s]
BY DEF TypeOK, Done

\* A request that is over knows nothing.
LEMMA IdleInv ==
    ASSUME NEW r \in Requests, req'[r] = Idle
    PROVE  RequestInv(r)'
BY DEF RequestInv

\* A step Stripe does not see, after which every order in the database is still
\* there.
Undisturbed ==
    /\ UNCHANGED <<charge, webhooks, flow>>
    /\ \A o \in Orders : /\ ledger'[o].refund = ledger[o].refund
                         /\ orders'[o].status = "none" => orders[o].status = "none"

\* Such a step keeps the invariant if the rows and the requests do.
LEMMA QuietStep ==
    ASSUME OverlapInv, TypeOK', Undisturbed,
           \A o \in Orders : Grows(o),
           \A o \in Orders : \/ orders'[o] = orders[o]
                             \/ RowHolds(orders'[o], ledger'[o], payments'[o], charge'[o], flow', o \in unpaid'),
           \A s \in Requests : \/ req'[s] = req[s]
                               \/ RequestInv(s)' /\ (req'[s] = Idle \/ req'[s].op # "begin")
    PROVE  OverlapInv'
<1>1. BeginOnce'
  BY BeginOnceKept DEF OverlapInv
<1>2. StripeInv'
  BY DEF OverlapInv, StripeInv, Undisturbed
<1>3. ASSUME NEW s \in Requests, req[s] # Idle, req[s].op = "begin"
      PROVE  charge'[req[s].order] = "none"
  BY <1>3 DEF OverlapInv, RequestInv, Undisturbed
<1>4. flow' = flow /\ \A o \in Orders : orders'[o].status = "none" => orders[o].status = "none"
  BY DEF Undisturbed
<1> QED
  BY <1>1, <1>2, <1>3, <1>4, OverlapStep

\* record_payment_pending: rows only gain, and the order becomes payment_pending.
LEMMA RecordPendingKeeps ==
    ASSUME TypeOK, NEW o \in Orders, NEW row \in OrderRow, NEW intent \in BOOLEAN,
           RecordPending(o, row, intent), NEW p \in Orders
    PROVE  /\ ledger'[p] = ledger[p]
           /\ payments[p].captured => payments'[p].captured
           /\ \/ orders'[p] = orders[p]
              \/ p = o /\ orders'[p].status = "payment_pending"
           /\ row.status = "pricing_validated" => orders'[o].status = "payment_pending"
<1>1. Transition(row, "payment_pending").status = "payment_pending"
  BY TransitionType DEF OrderStatus
<1>2. payments[p].captured => payments'[p].captured
  BY DEF TypeOK, RecordPending, PaymentRow
<1> QED
  BY <1>1, <1>2 DEF TypeOK, RecordPending

\* record_payment_failure: the same, and the order becomes canceled.
LEMMA RecordFailureKeeps ==
    ASSUME TypeOK, NEW o \in Orders, NEW row \in OrderRow, NEW intent \in BOOLEAN,
           RecordFailure(o, row, intent), NEW p \in Orders
    PROVE  /\ ledger'[p] = ledger[p]
           /\ payments[p].captured => payments'[p].captured
           /\ orders'[p] = orders[p] \/ orders'[p].status = "canceled"
<1>1. Transition(row, "canceled").status = "canceled"
  BY TransitionType DEF OrderStatus
<1>2. payments[p].captured => payments'[p].captured
  BY DEF TypeOK, RecordFailure, PaymentRow
<1> QED
  BY <1>1, <1>2 DEF TypeOK, RecordFailure

\* complete_checkout_payment: the sale and the capture are on record when it
\* commits, whatever became of the order row.
LEMMA CompletePaymentKeeps ==
    ASSUME TypeOK, NEW o \in Orders, NEW row \in OrderRow, NEW intent \in BOOLEAN,
           CompletePayment(o, row, intent), RowInv(orders[o], o), NEW p \in Orders
    PROVE  /\ ledger[p].sale >= 1 => ledger'[p].sale >= 1
           /\ ledger'[p].refund = ledger[p].refund
           /\ payments[p].captured => payments'[p].captured
           /\ ledger'[o].sale >= 1
           /\ payments'[o].captured
           /\ \/ orders'[p] = orders[p]
              \/ p = o /\ Queues(o, row) /\ orders'[p].status = "queued"
<1>1. /\ ledger[p].sale >= 1 => ledger'[p].sale >= 1
      /\ ledger'[p].refund = ledger[p].refund
      /\ ledger'[o].sale >= 1
  BY DEF TypeOK, CompletePayment, LedgerRow
<1>2. payments' = [payments EXCEPT ![o] = [@ EXCEPT !.status = "succeeded",
                                                   !.intent = intent, !.captured = TRUE]]
  BY DEF TypeOK, CompletePayment
<1>3. /\ payments[p].captured => payments'[p].captured
      /\ payments'[o].captured
  BY <1>2 DEF TypeOK, PaymentRow
<1>4. \/ orders'[p] = orders[p]
      \/ p = o /\ Queues(o, row) /\ orders'[p].status = "queued"
  <2>1. CASE AfterSuccess(o, row).status = "paid"
    <3>1. AfterSuccess(o, row) \in OrderRow
      BY TransitionType DEF AfterSuccess, TypeOK, OrderStatus
    <3>2. Transition(AfterSuccess(o, row), "queued").status = "queued"
      BY <3>1, TransitionType DEF OrderStatus
    <3> QED
      BY <2>1, <3>2 DEF TypeOK, CompletePayment, Queues
  <2>2. CASE AfterSuccess(o, row).status # "paid"
    <3>1. Transition(row, "paid").status = "paid"
      BY TransitionType DEF OrderStatus
    <3>2. AfterSuccess(o, row) = orders[o]
      BY <2>2, <3>1 DEF AfterSuccess
    <3> QED
      BY <2>2, <3>2 DEF TypeOK, CompletePayment, Queues
  <2> QED
    BY <2>1, <2>2
<1> QED
  BY <1>1, <1>3, <1>4

\* What the invariant says of a request being served and of its order.
LEMMA ServingInv ==
    ASSUME OverlapInv, NEW r \in Requests, req[r] # Idle
    PROVE  /\ TypeOK /\ RequestInv(r)
           /\ req[r].order \in Orders
           /\ req[r].row \in OrderRow
           /\ RowInv(orders[req[r].order], req[r].order)
           /\ RowInv(req[r].row, req[r].order)
           /\ orders[req[r].order].status # "none"
BY ServingType DEF OverlapInv, RequestInv

\* A rollback changes no row and ends the request.
LEMMA RollBackKeeps ==
    ASSUME OverlapInv, TypeOK', NEW r \in Requests, RollBack(r),
           UNCHANGED <<charge, webhooks, flow>>
    PROVE  OverlapInv'
<1>1. Undisturbed /\ \A o \in Orders : Grows(o) /\ orders'[o] = orders[o]
  BY DEF Undisturbed, Grows, RollBack, db, history
<1>2. \A s \in Requests : req'[s] = req[s] \/ (RequestInv(s)' /\ req'[s] = Idle)
  BY DoneOnly, IdleInv DEF RollBack, OverlapInv
<1> QED
  BY <1>1, <1>2, QuietStep

\* complete_checkout_payment followed by the end of the request.
LEMMA CompleteKeeps ==
    ASSUME OverlapInv, TypeOK', NEW r \in Requests, req[r] # Idle,
           NEW intent \in BOOLEAN, CompletePayment(req[r].order, req[r].row, intent), Done(r),
           Queues(req[r].order, req[r].row)
             => charge[req[r].order] \in Money(req[r].order) \/ req[r].order \in unpaid',
           unpaid \subseteq unpaid', UNCHANGED <<charge, webhooks, flow>>
    PROVE  OverlapInv'
<1> DEFINE o == req[r].order
<1>1. ASSUME NEW p \in Orders
      PROVE  /\ ledger[p].sale >= 1 => ledger'[p].sale >= 1
             /\ ledger'[p].refund = ledger[p].refund
             /\ payments[p].captured => payments'[p].captured
             /\ ledger'[o].sale >= 1
             /\ payments'[o].captured
             /\ \/ orders'[p] = orders[p]
                \/ /\ p = o /\ orders'[p].status = "queued"
                   /\ charge[o] \in Money(o) \/ o \in unpaid'
  BY CompletePaymentKeeps, ServingInv
<1>2. Undisturbed /\ \A p \in Orders : Grows(p)
  BY <1>1 DEF Undisturbed, Grows
<1>3. \A p \in Orders : \/ orders'[p] = orders[p]
                        \/ RowHolds(orders'[p], ledger'[p], payments'[p], charge'[p], flow', p \in unpaid')
  BY <1>1 DEF RowHolds, Money
<1>4. \A s \in Requests : req'[s] = req[s] \/ (RequestInv(s)' /\ req'[s] = Idle)
  BY DoneOnly, IdleInv DEF OverlapInv
<1> QED
  BY <1>2, <1>3, <1>4, QuietStep

\* record_payment_failure followed by the end of the request.
LEMMA FailureKeeps ==
    ASSUME OverlapInv, TypeOK', NEW r \in Requests, req[r] # Idle, NEW row \in OrderRow,
           NEW intent \in BOOLEAN, RecordFailure(req[r].order, row, intent), Done(r),
           UNCHANGED <<charge, webhooks, flow, unpaid>>
    PROVE  OverlapInv'
<1>1. ASSUME NEW p \in Orders
      PROVE  /\ ledger'[p] = ledger[p]
             /\ payments[p].captured => payments'[p].captured
             /\ orders'[p] = orders[p] \/ orders'[p].status = "canceled"
  BY RecordFailureKeeps, ServingInv
<1>2. Undisturbed /\ \A p \in Orders : Grows(p)
  BY <1>1 DEF Undisturbed, Grows
<1>3. \A p \in Orders : \/ orders'[p] = orders[p]
                        \/ RowHolds(orders'[p], ledger'[p], payments'[p], charge'[p], flow', p \in unpaid')
  BY <1>1 DEF RowHolds, Accepted
<1>4. \A s \in Requests : req'[s] = req[s] \/ (RequestInv(s)' /\ req'[s] = Idle)
  BY DoneOnly, IdleInv DEF OverlapInv
<1> QED
  BY <1>2, <1>3, <1>4, QuietStep

\* Beginning the payment of an order and creating its PaymentIntent.
LEMMA BeginKeeps ==
    ASSUME OverlapInv, TypeOK', NEW r \in Requests,
           BeginHosted(r) \/ BeginMock(r) \/ CommitIntent(r)
    PROVE  OverlapInv'
<1> DEFINE o == req[r].order
           row == req[r].row
<1>1. req[r] # Idle /\ flow' = flow /\ unpaid' = unpaid
  BY DEF BeginHosted, BeginMock, CommitIntent, Serving
<1>2. PICK intent \in BOOLEAN : RecordPending(o, row, intent)
  <2>1. (flow # "hosted") \in BOOLEAN
    OBVIOUS
  <2> QED
    BY <2>1 DEF BeginHosted, BeginMock, CommitIntent
<1>3. ASSUME NEW p \in Orders
      PROVE  /\ ledger'[p] = ledger[p]
             /\ payments[p].captured => payments'[p].captured
             /\ orders'[p] = orders[p] \/ (p = o /\ orders'[p].status = "payment_pending")
             /\ row.status = "pricing_validated" => orders'[o].status = "payment_pending"
  BY <1>1, <1>2, RecordPendingKeeps, ServingInv
<1>4. \A p \in Orders : \/ orders'[p] = orders[p]
                        \/ RowHolds(orders'[p], ledger'[p], payments'[p], charge'[p], flow', p \in unpaid')
  BY <1>3 DEF RowHolds, Accepted
<1>5. \A p \in Orders : orders'[p].status = "none" => orders[p].status = "none"
  BY <1>3
<1>6. CASE charge' = [charge EXCEPT ![o] = "open"] /\ charge[o] = "none"
           /\ flow # "mock" /\ Done(r) /\ UNCHANGED webhooks
           /\ (req[r].op = "begin" \/ flow = "elements")
  <2>1. \A p \in Orders : Grows(p)
    BY <1>1, <1>3, <1>6, ServingInv DEF Grows, TypeOK
  <2>2. StripeInv'
    <3>1. ASSUME NEW p \in Orders, orders'[p].status = "none"
          PROVE  charge'[p] = "none"
      <4>1. orders[p].status = "none" /\ p # o
        BY <1>1, <1>5, <3>1, ServingInv
      <4>2. charge[p] = "none"
        BY <4>1 DEF OverlapInv, StripeInv
      <4> QED
        BY <1>1, <1>6, <4>1, <4>2, ServingInv DEF TypeOK
    <3>2. \A e \in webhooks : e.type \in {"session.completed", "intent.succeeded"}
                                => charge'[e.order] \in {"captured", "refunded"}
      BY <1>1, <1>6, ServingInv DEF OverlapInv, StripeInv, TypeOK, Webhook
    <3>3. \A p \in Orders :
            ledger'[p].refund <= 1 /\ (ledger'[p].refund = 1 => charge'[p] = "refunded")
      BY <1>1, <1>3, <1>6, ServingInv DEF OverlapInv, StripeInv, TypeOK
    <3> QED
      BY <1>1, <1>6, <3>1, <3>2, <3>3 DEF StripeInv
  <2>3. \A s \in Requests : req'[s] = req[s] \/ req'[s] = Idle
    BY <1>6, DoneOnly DEF OverlapInv
  <2>4. BeginOnce'
    BY <2>3, BeginOnceKept DEF OverlapInv
  <2>5. ASSUME NEW s \in Requests, req[s] # Idle, req[s].op = "begin", req'[s] = req[s]
        PROVE  charge'[req[s].order] = "none"
    <3>1. s # r
      BY <1>6, <2>5, DoneOnly DEF OverlapInv
    <3>2. flow # "elements" /\ charge[req[s].order] = "none"
      BY <2>5 DEF OverlapInv, RequestInv
    <3>3. req[s].order # o
      BY <1>1, <1>6, <2>5, <3>1, <3>2 DEF OverlapInv, BeginOnce
    <3> QED
      BY <1>6, <2>5, <3>2, <3>3, ServingInv DEF TypeOK
  <2> QED
    BY <1>1, <1>4, <1>5, <2>1, <2>2, <2>3, <2>4, <2>5, IdleInv, OverlapStep
<1>7. CASE UNCHANGED <<charge, webhooks>>
  <2>1. Undisturbed /\ \A p \in Orders : Grows(p)
    BY <1>1, <1>3, <1>5, <1>7 DEF Undisturbed, Grows
  <2>2. CASE Done(r)
    <3>1. \A s \in Requests : req'[s] = req[s] \/ (RequestInv(s)' /\ req'[s] = Idle)
      BY <2>2, DoneOnly, IdleInv DEF OverlapInv
    <3> QED
      BY <1>4, <2>1, <3>1, QuietStep
  <2>3. CASE BeginMock(r)
    <3> DEFINE next == Transition(row, "payment_pending")
    <3>1. next.status = "payment_pending"
      BY <1>1, TransitionType, ServingInv DEF OrderStatus
    <3>2. /\ req'[r] = [req[r] EXCEPT !.op = "complete", !.row = next]
          /\ \A s \in Requests \ {r} : req'[s] = req[s]
      BY <2>3 DEF BeginMock, OverlapInv, TypeOK
    <3>3. req'[r] # Idle
      BY <1>1, <3>2, ServingType DEF OverlapInv, Idle, Request
    <3>4. /\ req'[r].op = "complete"
          /\ req'[r].row = next
          /\ req'[r].order = o
      BY <1>1, <3>2, ServingType DEF OverlapInv, Request
    <3>5. RowHolds(next, ledger'[o], payments'[o], charge'[o], flow', o \in unpaid')
      BY <3>1 DEF RowHolds, Accepted
    <3>6. orders'[o].status # "none"
      BY <1>1, <1>5, ServingInv
    <3>7. flow = "mock"
      BY <2>3 DEF BeginMock
    <3>8. RequestInv(r)'
      BY <1>1, <3>1, <3>4, <3>5, <3>6, <3>7 DEF RequestInv, RowInv, Accepted
    <3> QED
      BY <1>4, <2>1, <3>2, <3>4, <3>8, QuietStep
  <2> QED
    BY <2>2, <2>3, <1>7 DEF BeginHosted, CommitIntent
<1>8. CASE BeginHosted(r)
  <2>1. charge[o] = "none" /\ req[r].op = "begin"
    BY <1>1, <1>8, ServingInv DEF BeginHosted, Serving, RequestInv
  <2> QED
    BY <1>6, <1>8, <2>1 DEF BeginHosted
<1>9. CASE CommitIntent(r)
  BY <1>6, <1>7, <1>9 DEF CommitIntent
<1>10. CASE BeginMock(r)
  BY <1>7, <1>10 DEF BeginMock
<1> QED
  BY <1>8, <1>9, <1>10

\* record_refund: Stripe gave the money back, in this step, of a charge no
\* refund had been booked for.
LEMMA RefundKeeps ==
    ASSUME OverlapInv, TypeOK', NEW r \in Requests, CommitRefund(r)
    PROVE  OverlapInv'
<1> DEFINE o == req[r].order
           row == req[r].row
<1>1. req[r] # Idle /\ flow' = flow /\ unpaid' = unpaid
  BY DEF CommitRefund, Serving
<1>2. /\ o \in Orders /\ row \in OrderRow /\ req[r].pay \in PaymentRow
      /\ TypeOK /\ RequestInv(r)
  BY <1>1, ServingInv, ServingType
<1>3. req[r].pay.captured
  <2>1. row.status \in {"paid", "queued", "preparing"}
    BY <1>2 DEF CommitRefund, Allowed, OrderRow
  <2>2. row.status \in Accepted
    BY <1>1, <1>2, <2>1 DEF RequestInv, RowInv, RowHolds, Accepted
  <2> QED
    BY <1>1, <2>2 DEF RequestInv, OverlapInv
<1>4. orders'[o].status = "refunded" /\ \A p \in Orders \ {o} : orders'[p] = orders[p]
  <2>1. Transition(row, "refund_pending") \in OrderRow
    BY <1>2, TransitionType DEF OrderStatus
  <2>2. Transition(Transition(row, "refund_pending"), "refunded").status = "refunded"
    BY <2>1, TransitionType DEF OrderStatus
  <2> QED
    BY <1>2, <2>2 DEF CommitRefund, TypeOK
<1>5. payments'[o].captured /\ \A p \in Orders \ {o} : payments'[p] = payments[p]
  BY <1>2, <1>3 DEF CommitRefund, TypeOK, PaymentRow
<1>6. /\ ledger'[o].sale >= 1
      /\ ledger'[o].refund = ledger[o].refund + 1
      /\ ledger[o].refund \in Nat
      /\ \A p \in Orders \ {o} : ledger'[p] = ledger[p]
  BY <1>2 DEF CommitRefund, TypeOK, LedgerRow
<1>7. \/ flow = "mock" /\ UNCHANGED <<charge, webhooks>>
      \/ flow # "mock" /\ StripeRefunds(o)
  BY DEF CommitRefund, RemoteRefund
<1>8. /\ \A p \in Orders \ {o} : charge'[p] = charge[p]
      /\ flow = "mock" => charge' = charge
      /\ flow # "mock" => charge[o] = "captured" /\ charge'[o] = "refunded"
  BY <1>2, <1>7 DEF StripeRefunds, TypeOK
<1>9. \A p \in Orders : Grows(p)
  BY <1>1, <1>4, <1>5, <1>6, <1>8 DEF Grows
<1>10. \A p \in Orders : \/ orders'[p] = orders[p]
                         \/ RowHolds(orders'[p], ledger'[p], payments'[p], charge'[p], flow', p \in unpaid')
  BY <1>1, <1>4, <1>6, <1>8 DEF RowHolds, Accepted
<1>11. \A p \in Orders : orders'[p].status = "none" => orders[p].status = "none"
  BY <1>4
<1>12. StripeInv'
  <2>1. flow = "mock" => \A p \in Orders : charge'[p] = "none"
    BY <1>8 DEF OverlapInv, StripeInv
  <2>2. \A p \in Orders : orders'[p].status = "none" => charge'[p] = "none"
    BY <1>4, <1>8 DEF OverlapInv, StripeInv
  <2>3. ASSUME NEW e \in webhooks', e.type \in {"session.completed", "intent.succeeded"}
        PROVE  charge'[e.order] \in {"captured", "refunded"}
    <3>1. e \in webhooks
      BY <1>7, <2>3 DEF StripeRefunds
    <3>2. e.order \in Orders /\ charge[e.order] \in {"captured", "refunded"}
      BY <1>2, <2>3, <3>1 DEF OverlapInv, StripeInv, TypeOK, Webhook
    <3> QED
      BY <1>8, <3>2
  <2>4. ASSUME flow # "mock", NEW p \in Orders
        PROVE  ledger'[p].refund <= 1 /\ (ledger'[p].refund = 1 => charge'[p] = "refunded")
    <3>1. ledger[p].refund <= 1 /\ (ledger[p].refund = 1 => charge[p] = "refunded")
      BY <2>4 DEF OverlapInv, StripeInv
    <3>2. CASE p = o
      BY <1>6, <1>8, <2>4, <3>1, <3>2
    <3>3. CASE p # o
      BY <1>6, <1>8, <2>4, <3>1, <3>3
    <3> QED
      BY <3>2, <3>3
  <2> QED
    BY <1>1, <2>1, <2>2, <2>3, <2>4 DEF StripeInv
<1>13. \A s \in Requests : req'[s] = req[s] \/ req'[s] = Idle
  BY <1>2, DoneOnly DEF CommitRefund
<1>14. BeginOnce'
  BY <1>13, BeginOnceKept DEF OverlapInv
<1>15. ASSUME NEW s \in Requests, req[s] # Idle, req[s].op = "begin", req'[s] = req[s]
       PROVE  charge'[req[s].order] = "none"
  <2>1. req[s].order \in Orders /\ charge[req[s].order] = "none"
    BY <1>15, ServingInv DEF RequestInv
  <2> QED
    BY <1>8, <2>1
<1> QED
  BY <1>1, <1>9, <1>10, <1>11, <1>12, <1>13, <1>14, <1>15, IdleInv, OverlapStep

\* What Stripe and the customer do to a charge that exists: no row changes.
LEMMA ChargeKeeps ==
    ASSUME OverlapInv, TypeOK', NEW o \in Orders, UNCHANGED <<db, flow, unpaid>>,
           \A s \in Requests : req'[s] = req[s] \/ req'[s] = Idle,
           \/ UNCHANGED charge
           \/ /\ charge[o] = "open" \/ (charge[o] = "captured" /\ charge'[o] = "refunded")
              /\ charge'[o] # "none"
              /\ \A p \in Orders \ {o} : charge'[p] = charge[p],
           \A e \in webhooks' \ webhooks :
               e.type \in {"session.completed", "intent.succeeded"}
                 => e.order = o /\ charge'[o] = "captured"
    PROVE  OverlapInv'
<1>1. \A p \in Orders : Grows(p) /\ orders'[p] = orders[p]
  BY DEF Grows, db
<1>2. StripeInv'
  <2>1. flow = "mock" => \A p \in Orders : charge'[p] = "none"
    BY DEF OverlapInv, StripeInv
  <2>2. \A p \in Orders : orders'[p].status = "none" => charge'[p] = "none"
    BY <1>1 DEF OverlapInv, StripeInv
  <2>3. ASSUME NEW e \in webhooks', e.type \in {"session.completed", "intent.succeeded"}
        PROVE  charge'[e.order] \in {"captured", "refunded"}
    <3>1. CASE e \in webhooks
      <4>1. e.order \in Orders /\ charge[e.order] \in {"captured", "refunded"}
        BY <2>3, <3>1 DEF OverlapInv, StripeInv, TypeOK, Webhook
      <4> QED
        BY <4>1
    <3>2. CASE e \notin webhooks
      BY <2>3, <3>2
    <3> QED
      BY <3>1, <3>2
  <2>4. flow # "mock" => \A p \in Orders :
          ledger'[p].refund <= 1 /\ (ledger'[p].refund = 1 => charge'[p] = "refunded")
    BY DEF OverlapInv, StripeInv, db
  <2> QED
    BY <2>1, <2>2, <2>3, <2>4 DEF StripeInv
<1>3. BeginOnce'
  BY BeginOnceKept DEF OverlapInv
<1>4. ASSUME NEW s \in Requests, req[s] # Idle, req[s].op = "begin", req'[s] = req[s]
      PROVE  charge'[req[s].order] = "none"
  <2>1. req[s].order \in Orders /\ charge[req[s].order] = "none"
    BY <1>4, ServingInv DEF RequestInv
  <2> QED
    BY <2>1
<1> QED
  BY <1>1, <1>2, <1>3, <1>4, IdleInv, OverlapStep

\* A staff transition: the row it saves was accepted when it was read.
LEMMA TransitionKeeps ==
    ASSUME OverlapInv, TypeOK', NEW r \in Requests, CommitTransition(r)
    PROVE  OverlapInv'
<1> DEFINE o == req[r].order
           row == req[r].row
           to == req[r].to
<1>1. req[r] # Idle /\ req[r].op = "transition"
  BY DEF CommitTransition, Serving
<1>2. /\ o \in Orders /\ row \in OrderRow /\ to \in OrderStatus
      /\ TypeOK /\ RowInv(row, o)
  BY <1>1, ServingInv, ServingType
<1>3. to \in Allowed[row.status] /\ to \in {"preparing", "ready", "picked_up", "canceled"}
  BY <1>1, ServingInv DEF RequestInv
<1>4. to \in Accepted => row.status \in Accepted
  <2>1. row.status # "paid" /\ row.status \in OrderStatus
    BY <1>2 DEF RowInv, RowHolds, OrderRow
  <2> QED
    BY <1>3, <2>1 DEF Allowed, Accepted
<1>5. /\ orders'[o].status = to
      /\ \A p \in Orders \ {o} : orders'[p] = orders[p]
      /\ UNCHANGED <<payments, ledger, charge, webhooks, flow, unpaid>>
  BY <1>2, TransitionType DEF CommitTransition, TypeOK
<1>6. RowHolds(orders'[o], ledger'[o], payments'[o], charge'[o], flow', o \in unpaid')
  BY <1>2, <1>3, <1>4, <1>5 DEF RowInv, RowHolds, Accepted
<1>7. Undisturbed /\ \A p \in Orders : Grows(p)
  BY <1>3, <1>5 DEF Undisturbed, Grows
<1>8. \A s \in Requests : req'[s] = req[s] \/ (RequestInv(s)' /\ req'[s] = Idle)
  BY <1>2, DoneOnly, IdleInv DEF CommitTransition
<1> QED
  BY <1>5, <1>6, <1>7, <1>8, QuietStep

\* Every transaction keeps the invariant.
LEMMA CommitKeeps ==
    ASSUME OverlapInv, TypeOK', NEW r \in Requests, Commit(r)
    PROVE  OverlapInv'
<1>1. req[r] # Idle
  BY DEF Commit, BeginHosted, BeginMock, CompleteMock, CommitIntent, CommitFinalize,
         CommitConfirm, CommitFail, CommitRefund, RefundRaises, CommitTransition, Serving
<1> DEFINE o == req[r].order
<1>2. o \in Orders /\ req[r].row \in OrderRow /\ orders[o] \in OrderRow /\ RequestInv(r)
      /\ TypeOK
  BY <1>1, ServingInv DEF TypeOK
<1>7. flow = "mock" => charge[o] = "none"
  BY <1>2 DEF OverlapInv, StripeInv
<1>3. CASE CompleteMock(r)
  <2>1. charge[o] \in Money(o)
    BY <1>1, <1>2, <1>3 DEF CompleteMock, Serving, RequestInv, OverlapInv, StripeInv, Money
  <2> QED
    BY <1>1, <1>2, <1>3, <2>1, CompleteKeeps, FailureKeeps DEF CompleteMock
<1>4. CASE CommitFinalize(r)
  <2>1. charge[o] \in {"captured", "refunded"}
    BY <1>1, <1>2, <1>4 DEF CommitFinalize, Serving, RequestInv
  <2>2. charge[o] \in Money(o)
    BY <1>7, <2>1 DEF Money
  <2> QED
    BY <1>1, <1>4, <2>2, CompleteKeeps, RollBackKeeps DEF CommitFinalize
<1>8. CASE CommitConfirm(r)
  <2>1. UNCHANGED <<charge, webhooks, flow>>
    BY <1>8 DEF CommitConfirm
  <2>2. CASE RollBack(r)
    BY <2>1, <2>2, RollBackKeeps
  <2>3. CASE ~RollBack(r)
    <3>1. PICK intent \in BOOLEAN : CompletePayment(o, req[r].row, intent)
      BY <2>3, <1>8 DEF CommitConfirm
    <3>2. /\ Done(r) /\ unpaid \subseteq unpaid'
          /\ Queues(o, req[r].row) => charge[o] \in {"captured", "refunded"} \/ o \in unpaid'
      BY <2>3, <1>8 DEF CommitConfirm
    <3>3. Queues(o, req[r].row) => charge[o] \in Money(o) \/ o \in unpaid'
      BY <1>7, <3>2 DEF Money
    <3> QED
      BY <1>1, <2>1, <3>1, <3>2, <3>3, CompleteKeeps
  <2> QED
    BY <2>2, <2>3
<1>5. CASE CommitFail(r)
  BY <1>1, <1>2, <1>5, FailureKeeps DEF CommitFail
<1>6. CASE RefundRaises(r)
  <2>1. RollBack(r) /\ UNCHANGED <<db, flow, unpaid>>
    BY <1>6 DEF RefundRaises, RollBack, history
  <2>2. CASE UNCHANGED <<charge, webhooks>>
    BY <2>1, <2>2, RollBackKeeps
  <2>3. CASE StripeRefunds(o)
    <3>1. \A s \in Requests : req'[s] = req[s] \/ req'[s] = Idle
      BY <1>2, <2>1, DoneOnly DEF RollBack
    <3>2. /\ charge[o] = "captured" /\ charge'[o] = "refunded"
          /\ \A p \in Orders \ {o} : charge'[p] = charge[p]
          /\ \A e \in webhooks' \ webhooks : e.type = "charge.refunded"
      BY <1>2, <2>3 DEF StripeRefunds, TypeOK
    <3> QED
      BY <1>2, <2>1, <3>1, <3>2, ChargeKeeps
  <2> QED
    BY <1>6, <2>2, <2>3 DEF RefundRaises
<1> QED
  BY <1>3, <1>4, <1>5, <1>6, <1>8, BeginKeeps, RefundKeeps, TransitionKeeps DEF Commit

\* A load takes a row that holds, and knows what its guard checked.
LEMMA LoadKeeps ==
    ASSUME OverlapInv, TypeOK', NEW r \in Requests, NEW o \in Orders, NEW op, NEW to,
           Load(r, op, o, to), UNCHANGED <<db, charge, webhooks, flow, unpaid>>,
           op \in {"intent", "finalize", "confirm", "fail", "refund", "transition"},
           op = "finalize" => charge[o] \in {"captured", "refunded"},
           op = "transition" => /\ to \in Allowed[orders[o].status]
                                /\ to \in {"preparing", "ready", "picked_up", "canceled"}
    PROVE  OverlapInv'
<1>1. /\ req'[r] = [op |-> op, order |-> o, row |-> orders[o], pay |-> payments[o], to |-> to]
      /\ \A s \in Requests \ {r} : req'[s] = req[s]
      /\ orders[o].status # "none"
  BY DEF Load, OverlapInv, TypeOK
<1>2. RowHolds(orders[o], ledger'[o], payments'[o], charge'[o], flow', o \in unpaid')
  BY DEF OverlapInv, RowInv, db
<1>3. orders[o].status \in Accepted => payments[o].captured
  BY DEF OverlapInv, RowInv, RowHolds
<1>4. RequestInv(r)'
  BY <1>1, <1>2, <1>3 DEF RequestInv, RowInv, db
<1>5. Undisturbed /\ \A p \in Orders : Grows(p) /\ orders'[p] = orders[p]
  BY DEF Undisturbed, Grows, db
<1>6. req'[r].op # "begin"
  BY <1>1
<1> QED
  BY <1>1, <1>4, <1>5, <1>6, QuietStep

\* A webhook is received: only the dedupe row is written before the load.
LEMMA ReceiveKeeps ==
    ASSUME OverlapInv, TypeOK', NEW r \in Requests, ReceiveWebhook(r)
    PROVE  OverlapInv'
<1>1. PICK e \in webhooks : Webhooks(r, e)
  BY DEF ReceiveWebhook
<1>2. e.order \in Orders /\ e.type \in WebhookType
  BY <1>1 DEF OverlapInv, TypeOK, Webhook
<1>3. UNCHANGED <<db, charge, webhooks, flow, unpaid>>
  BY <1>1 DEF Webhooks, history
<1>4. CASE UNCHANGED req
  <2>1. Undisturbed /\ \A p \in Orders : Grows(p) /\ orders'[p] = orders[p]
    BY <1>3 DEF Undisturbed, Grows, db
  <2> QED
    BY <1>4, <2>1, QuietStep
<1>5. CASE e.type \in {"session.completed", "intent.succeeded"}
           /\ Load(r, "finalize", e.order, "none")
  <2>1. charge[e.order] \in {"captured", "refunded"}
    BY <1>5 DEF OverlapInv, StripeInv
  <2> QED
    BY <1>2, <1>3, <1>5, <2>1, LoadKeeps
<1>6. CASE Load(r, "fail", e.order, "none") \/ Load(r, "refund", e.order, "none")
  BY <1>2, <1>3, <1>6, LoadKeeps
<1> QED
  BY <1>1, <1>2, <1>4, <1>5, <1>6 DEF Webhooks, WebhookType

\* The pages that load an order.
LEMMA LoadsKeep ==
    ASSUME OverlapInv, TypeOK', NEW r \in Requests, NEW o \in Orders,
           \/ LoadIntent(r, o) \/ LoadSuccessPage(r, o) \/ LoadConfirm(r, o)
           \/ LoadCancelPage(r, o) \/ LoadCancel(r, o) \/ LoadMark(r, o)
    PROVE  OverlapInv'
<1>1. CASE LoadIntent(r, o)
  BY <1>1, LoadKeeps DEF LoadIntent, history
<1>2. CASE LoadSuccessPage(r, o)
  BY <1>2, LoadKeeps DEF LoadSuccessPage, history
<1>3. CASE LoadCancelPage(r, o)
  BY <1>3, LoadKeeps DEF LoadCancelPage, history
<1>4. CASE LoadCancel(r, o)
  BY <1>4, LoadKeeps DEF LoadCancel, history
<1>5. CASE LoadMark(r, o)
  BY <1>5, LoadKeeps DEF LoadMark, history
<1>6. CASE LoadConfirm(r, o)
  BY <1>6, LoadKeeps DEF LoadConfirm, history
<1> QED
  BY <1>1, <1>2, <1>3, <1>4, <1>5, <1>6

\* A new order: no request knew of it and Stripe holds nothing for it.
LEMMA CheckoutKeeps ==
    ASSUME OverlapInv, TypeOK', NEW r \in Requests, NEW o \in Orders, Checkout(r, o)
    PROVE  OverlapInv'
<1>1. /\ orders[o].status = "none" /\ orders'[o].status = "pricing_validated"
      /\ \A p \in Orders \ {o} : orders'[p] = orders[p]
      /\ UNCHANGED <<payments, ledger, charge, webhooks, flow, unpaid>>
  BY DEF Checkout, OverlapInv, TypeOK, NoOrder, history
<1>2. charge[o] = "none"
  BY <1>1 DEF OverlapInv, StripeInv
<1>3. \A p \in Orders : Grows(p) /\ (orders'[p].status = "none" => orders[p].status = "none")
  BY <1>1 DEF Grows
<1>4. \A p \in Orders : \/ orders'[p] = orders[p]
                        \/ RowHolds(orders'[p], ledger'[p], payments'[p], charge'[p], flow', p \in unpaid')
  BY <1>1 DEF RowHolds, Accepted
<1>5. StripeInv'
  BY <1>1, <1>3 DEF OverlapInv, StripeInv
<1>6. \A s \in Requests : req[s] # Idle => req[s].order # o
  BY <1>1, ServingInv
<1>7. CASE UNCHANGED req
  <2>1. BeginOnce'
    BY <1>7 DEF OverlapInv, BeginOnce
  <2> QED
    BY <1>1, <1>3, <1>4, <1>5, <1>7, <2>1, OverlapStep DEF OverlapInv, RequestInv
<1>8. CASE flow # "elements"
  <2> DEFINE row == [NoOrder EXCEPT !.status = "pricing_validated"]
  <2>1. /\ req'[r] = [op |-> "begin", order |-> o, row |-> row, pay |-> NoPayment,
                      to |-> "none"]
        /\ req[r] = Idle
        /\ \A s \in Requests \ {r} : req'[s] = req[s]
    BY <1>8 DEF Checkout, OverlapInv, TypeOK
  <2>2. row.status = "pricing_validated"
    BY DEF NoOrder
  <2>3. RowHolds(row, ledger'[o], payments'[o], charge'[o], flow', o \in unpaid')
    BY <2>2 DEF RowHolds, Accepted
  <2>4. RequestInv(r)'
    <3>1. /\ req'[r].op = "begin"
          /\ req'[r].order = o
          /\ req'[r].row = row
      BY <2>1
    <3>2. charge'[o] = "none" /\ orders'[o].status # "none"
      BY <1>1, <1>2
    <3>3. row.status \notin Accepted
      BY <2>2 DEF Accepted
    <3> QED
      BY <1>1, <1>8, <2>2, <2>3, <3>1, <3>2, <3>3 DEF RequestInv, RowInv
  <2>5. BeginOnce'
    BY <1>6, <2>1 DEF OverlapInv, BeginOnce
  <2>6. \A s \in Requests : req[s] # Idle /\ req[s].op = "begin"
                              => charge'[req[s].order] = "none"
    BY <1>1 DEF OverlapInv, RequestInv
  <2> QED
    BY <1>1, <1>3, <1>4, <1>5, <2>1, <2>4, <2>5, <2>6, OverlapStep
<1> QED
  BY <1>7, <1>8 DEF Checkout

\* Stripe and the customer.
LEMMA EnvironmentKeeps ==
    ASSUME OverlapInv, TypeOK', NEW o \in Orders, Environment(o)
    PROVE  OverlapInv'
<1>1. UNCHANGED <<db, flow, unpaid>> /\ \A s \in Requests : req'[s] = req[s] \/ req'[s] = Idle
  BY DEF Environment, Pay, Decline, ExpireSession, DashboardRefund, history
<1>2. CASE Pay(o)
  <2>1. /\ charge[o] = "open" /\ charge'[o] = "captured"
        /\ \A p \in Orders \ {o} : charge'[p] = charge[p]
    BY <1>2 DEF Pay, OverlapInv, TypeOK
  <2>2. \A e \in webhooks' \ webhooks : e.order = o
    BY <1>2 DEF Pay, Announce
  <2> QED
    BY <1>1, <2>1, <2>2, ChargeKeeps
<1>3. CASE Decline(o)
  <2>1. \A e \in webhooks' \ webhooks : e.type = "intent.failed"
    BY <1>3 DEF Decline, Announce
  <2> QED
    BY <1>1, <1>3, <2>1, ChargeKeeps DEF Decline
<1>4. CASE ExpireSession(o)
  <2>1. /\ charge[o] = "open" /\ charge'[o] = "expired"
        /\ \A p \in Orders \ {o} : charge'[p] = charge[p]
    BY <1>4 DEF ExpireSession, OverlapInv, TypeOK
  <2>2. \A e \in webhooks' \ webhooks : e.type = "session.expired"
    BY <1>4 DEF ExpireSession, Announce
  <2> QED
    BY <1>1, <2>1, <2>2, ChargeKeeps
<1>5. CASE DashboardRefund(o)
  <2>1. /\ charge[o] = "captured" /\ charge'[o] = "refunded"
        /\ \A p \in Orders \ {o} : charge'[p] = charge[p]
    BY <1>5 DEF DashboardRefund, StripeRefunds, OverlapInv, TypeOK
  <2>2. \A e \in webhooks' \ webhooks : e.type = "charge.refunded"
    BY <1>5 DEF DashboardRefund, StripeRefunds
  <2> QED
    BY <1>1, <2>1, <2>2, ChargeKeeps
<1> QED
  BY <1>2, <1>3, <1>4, <1>5 DEF Environment

\* OverlapInv holds of every reachable state, however many requests overlap.
THEOREM OverlapCorrect == Spec => []OverlapInv
<1>1. Init => OverlapInv
  <2> SUFFICES ASSUME Init PROVE OverlapInv
    OBVIOUS
  <2>1. TypeOK
    BY StockAssumption DEF Init, TypeOK, NoOrder, NoPayment, OrderRow, OrderStatus,
       PaymentRow, PaymentStatus, LedgerRow, Charge, OrderEvent
  <2>2. \A o \in Orders : RowInv(orders[o], o)
    BY DEF Init, RowInv, RowHolds, NoOrder, Accepted
  <2>3. (\A r \in Requests : RequestInv(r)) /\ BeginOnce /\ StripeInv
    BY DEF Init, RequestInv, BeginOnce, StripeInv
  <2> QED
    BY <2>1, <2>2, <2>3 DEF OverlapInv
<1>2. OverlapInv /\ TypeOK' /\ [Next]_vars => OverlapInv'
  <2> SUFFICES ASSUME OverlapInv, TypeOK', [Next]_vars
               PROVE  OverlapInv'
    OBVIOUS
  <2>1. CASE UNCHANGED vars
    <3>1. Undisturbed /\ \A o \in Orders : Grows(o) /\ orders'[o] = orders[o]
      BY <2>1 DEF vars, history, Undisturbed, Grows
    <3> QED
      BY <2>1, <3>1, QuietStep DEF vars
  <2>2. ASSUME NEW r \in Requests, Abandon(r)
        PROVE  OverlapInv'
    BY <2>2, RollBackKeeps DEF Abandon
  <2> QED
    BY <2>1, <2>2, CommitKeeps, ReceiveKeeps, LoadsKeep, CheckoutKeeps, EnvironmentKeeps
       DEF Next
<1> QED
  BY <1>1, <1>2, TypeCorrect, PTL DEF Spec

\* No order is prepared, ready or picked up without its payment, however the
\* requests, redirects and webhooks overlap, unless it was the page's own
\* confirmation that queued it before Stripe had the money.
THEOREM AcceptedWasPaidAlways == Spec => []AcceptedWasPaid
<1>1. OverlapInv => AcceptedWasPaid
  BY DEF OverlapInv, RowInv, RowHolds, AcceptedWasPaid, Money
<1> QED
  BY <1>1, OverlapCorrect, PTL

\* Whenever an order is shown as refunded, Stripe has returned its money and
\* the ledger shows both entries.
THEOREM RefundedReturnsFundsAlways == Spec => []RefundedReturnsFunds
<1>1. OverlapInv => RefundedReturnsFunds
  BY DEF OverlapInv, RowInv, RowHolds, RefundedReturnsFunds
<1> QED
  BY <1>1, OverlapCorrect, PTL

\* Two refunds of one order never both commit when Stripe takes part.
THEOREM RefundBookedOnceAlways == Spec => []RefundBookedOnce
<1>1. OverlapInv => RefundBookedOnce
  BY DEF OverlapInv, StripeInv, RefundBookedOnce
<1> QED
  BY <1>1, OverlapCorrect, PTL

\* No committed order is half way through its acceptance or its refund.
THEOREM NoHalfwayOrderAlways == Spec => []NoHalfwayOrder
<1>1. OverlapInv => NoHalfwayOrder
  BY DEF OverlapInv, RowInv, RowHolds, NoHalfwayOrder
<1> QED
  BY <1>1, OverlapCorrect, PTL

-----------------------------------------------------------------------------
(* The orders no stale row was saved on *)

\* What a step may do to the orders, from an order's status to its next one.
\* The last event written says so.
Turns(o, from, to, event) ==
    /\ orders[o].status \in from
    /\ orders'[o].status = to
    /\ orders'[o].queued => orders[o].queued \/ to = "queued"
    /\ \A p \in Orders \ {o} : orders'[p] = orders[p]
    /\ outbox'[o] = event
    /\ \A p \in Orders \ {o} : outbox'[p] = outbox[p]

\* The ledger of the other orders is left alone.
Books(o) == \A p \in Orders \ {o} : ledger'[p] = ledger[p]

Placing(o) ==
    Turns(o, {"none"}, "pricing_validated", "created") /\ UNCHANGED <<ledger, stock>>

Awaiting(o) ==
    Turns(o, {"pricing_validated"}, "payment_pending", "payment_pending")
    /\ UNCHANGED <<ledger, stock>>

Canceling(o) ==
    /\ \E event \in {"canceled", "failed"} :
         Turns(o, {"pricing_validated", "payment_pending"}, "canceled", event)
    /\ UNCHANGED <<ledger, stock>>

Accepting(o) ==
    /\ Turns(o, {"payment_pending"}, "queued", "queued")
    /\ Books(o) /\ ledger'[o].sale >= 1 /\ ledger'[o].refund = ledger[o].refund
    /\ stock >= Need[o] /\ stock' = stock - Need[o]

Advancing(o) ==
    /\ \/ Turns(o, {"queued"}, "preparing", "preparing")
       \/ Turns(o, {"preparing"}, "ready", "ready")
       \/ Turns(o, {"ready"}, "picked_up", "picked_up")
    /\ UNCHANGED <<ledger, stock>>

Refunding(o) ==
    /\ Turns(o, {"queued", "preparing"}, "refunded", "refunded")
    /\ Books(o) /\ ledger'[o].sale = ledger[o].sale /\ ledger'[o].refund >= 1
    /\ stock' = stock + Need[o]

\* A payment for an order that does not await it yet, or no longer.
Booking(o) ==
    /\ orders[o].status \in {"pricing_validated", "canceled"}
    /\ UNCHANGED <<orders, outbox, stock>>
    /\ Books(o) /\ ledger'[o].sale >= 1 /\ ledger'[o].refund = ledger[o].refund

\* No order moves; the failure of a canceled one may be announced again, and
\* that of one Stripe had no money for.
Repeating(o) ==
    /\ orders[o].status = "canceled" \/ o \in unpaid
    /\ UNCHANGED <<orders, ledger, stock>>
    /\ outbox'[o] = "failed"
    /\ \A p \in Orders \ {o} : outbox'[p] = outbox[p]

Resting == UNCHANGED <<orders, ledger, outbox, stock>>

\* A stale row is saved, or one that followed it.
Overtaking(o) ==
    /\ raced' = raced \cup {o}
    /\ orders'[o].status \in {"pricing_validated", "payment_pending", "queued", "preparing",
                              "ready", "picked_up", "refunded", "canceled"}
    /\ \A p \in Orders \ {o} : orders'[p] = orders[p] /\ outbox'[p] = outbox[p]
    /\ Books(o)
    /\ ledger[o].sale >= 1 => ledger'[o].sale >= 1
    /\ ledger[o].refund >= 1 => ledger'[o].refund >= 1
    /\ stock' \in {stock, stock - Need[o], stock + Need[o]}

Outcome(o) ==
    \/ /\ raced' = raced
       /\ \/ Placing(o) \/ Awaiting(o) \/ Canceling(o) \/ Accepting(o) \/ Advancing(o)
          \/ Refunding(o) \/ Booking(o) \/ Repeating(o) \/ Resting
    \/ Overtaking(o)

\* transition_order_status on the row the database holds, and its event.
LEMMA TransitionTurns ==
    ASSUME TypeOK, NEW o \in Orders, NEW row \in OrderRow, row = orders[o],
           NEW to \in OrderStatus, NEW from, row.status \in from, NEW event,
           orders' = [orders EXCEPT ![o] = Transition(row, to)], Emit(o, event)
    PROVE  Turns(o, from, to, event)
<1>1. outbox'[o] = event /\ \A p \in Orders \ {o} : outbox'[p] = outbox[p]
  BY DEF Emit, TypeOK
<1>2. /\ orders'[o] = Transition(row, to)
      /\ \A p \in Orders \ {o} : orders'[p] = orders[p]
  BY DEF TypeOK
<1>3. Transition(row, to).status = to
      /\ (Transition(row, to).queued => row.queued \/ to = "queued")
  BY DEF Transition, OrderRow
<1> QED
  BY <1>1, <1>2, <1>3 DEF Turns

\* record_payment_pending on the order's own row.
LEMMA RecordPendingOutcome ==
    ASSUME TypeOK, NEW o \in Orders, NEW row \in OrderRow, NEW intent \in BOOLEAN,
           RecordPending(o, row, intent), row = orders[o], raced' = raced,
           row.status \in {"pricing_validated", "payment_pending"}
    PROVE  /\ Outcome(o)
           /\ orders'[o].status = "payment_pending"
           /\ \A p \in Orders : payments'[p].status = "none" => payments'[p] = payments[p]
<1>1. \A p \in Orders : payments'[p].status = "none" => payments'[p] = payments[p]
  BY DEF RecordPending, TypeOK, PaymentRow
<1>2. CASE row.status = "pricing_validated"
  <2>1. Turns(o, {"pricing_validated"}, "payment_pending", "payment_pending")
    BY <1>2, TransitionTurns DEF RecordPending, OrderStatus
  <2>2. Awaiting(o)
    BY <2>1 DEF RecordPending, Awaiting
  <2> QED
    BY <1>1, <2>1, <2>2 DEF Outcome, Turns
<1>3. CASE row.status # "pricing_validated"
  BY <1>1, <1>3 DEF RecordPending, Outcome, Resting
<1> QED
  BY <1>2, <1>3

\* record_payment_failure on the order's own row.
LEMMA RecordFailureOutcome ==
    ASSUME TypeOK, NEW o \in Orders, NEW row \in OrderRow, NEW intent \in BOOLEAN,
           RecordFailure(o, row, intent), row = orders[o], raced' = raced,
           row.status \in {"payment_pending", "canceled"} \/ o \in unpaid
    PROVE  /\ Outcome(o)
           /\ \A p \in Orders : payments'[p].status = "none" => payments'[p] = payments[p]
<1>1. \A p \in Orders : payments'[p].status = "none" => payments'[p] = payments[p]
  BY DEF RecordFailure, TypeOK, PaymentRow
<1>2. outbox'[o] = "failed" /\ \A p \in Orders \ {o} : outbox'[p] = outbox[p]
  BY DEF RecordFailure, Emit, TypeOK
<1>3. CASE row.status = "payment_pending"
  <2>1. Turns(o, {"payment_pending"}, "canceled", "failed")
    BY <1>3, TransitionTurns DEF RecordFailure, OrderStatus
  <2>2. Turns(o, {"pricing_validated", "payment_pending"}, "canceled", "failed")
    BY <2>1 DEF Turns
  <2> QED
    BY <1>1, <2>2 DEF RecordFailure, Outcome, Canceling
<1>4. CASE row.status # "payment_pending"
  <2>1. Repeating(o)
    BY <1>2, <1>4 DEF RecordFailure, Repeating
  <2> QED
    BY <1>1, <2>1 DEF Outcome
<1> QED
  BY <1>3, <1>4

\* complete_checkout_payment on the order's own row.
LEMMA CompleteOutcome ==
    ASSUME OverlapInv, NEW o \in Orders, StageInv(o), NEW row \in OrderRow,
           NEW intent \in BOOLEAN, CompletePayment(o, row, intent), row = orders[o],
           row.status # "none", raced' = raced
    PROVE  /\ Outcome(o)
           /\ \A p \in Orders : payments'[p].status = "none" => payments'[p] = payments[p]
<1>1. \A p \in Orders : payments'[p].status = "none" => payments'[p] = payments[p]
  BY DEF CompletePayment, OverlapInv, TypeOK, PaymentRow
<1>2. /\ Books(o)
      /\ ledger'[o].sale >= 1
      /\ ledger'[o].refund = ledger[o].refund
      /\ ledger[o].sale >= 1 => ledger' = ledger
  BY DEF CompletePayment, OverlapInv, TypeOK, LedgerRow, Books
<1>3. CASE row.status = "payment_pending"
  <2> DEFINE after == Transition(row, "paid")
  <2>1. /\ AfterSuccess(o, row) = after
        /\ after \in OrderRow /\ after.status = "paid" /\ ~after.queued
    <3>1. ~row.queued
      BY <1>3 DEF StageInv
    <3>2. after = [row EXCEPT !.status = "paid", !.queued = row.queued \/ "paid" = "queued"]
      BY DEF Transition, OrderRow
    <3>3. ~after.queued
      BY <3>1, <3>2 DEF OrderRow
    <3>4. after \in OrderRow /\ after.status = "paid"
      BY TransitionType DEF OrderStatus
    <3> QED
      BY <1>3, <3>3, <3>4 DEF AfterSuccess
  <2>2. Queues(o, row) /\ Reserves(o, row)
    BY <2>1 DEF Queues, Reserves
  <2>3. /\ stock >= Need[o] /\ stock' = stock - Need[o]
        /\ orders' = [orders EXCEPT ![o] = Transition(after, "queued")]
        /\ Emit(o, "queued")
    BY <1>3, <2>1, <2>2 DEF CompletePayment, EnoughStock
  <2>4. /\ orders'[o].status = "queued"
        /\ \A p \in Orders \ {o} : orders'[p] = orders[p]
    BY <2>1, <2>3, TransitionType DEF OverlapInv, TypeOK, OrderStatus
  <2>5. outbox'[o] = "queued" /\ \A p \in Orders \ {o} : outbox'[p] = outbox[p]
    BY <2>3 DEF Emit, OverlapInv, TypeOK
  <2>6. Turns(o, {"payment_pending"}, "queued", "queued")
    BY <1>3, <2>4, <2>5 DEF Turns
  <2> QED
    BY <1>1, <1>2, <2>3, <2>6 DEF Outcome, Accepting
<1>4. CASE row.status # "payment_pending"
  <2>1. AfterSuccess(o, row) = orders[o] /\ orders[o].status # "paid"
    BY <1>4 DEF AfterSuccess, OverlapInv, RowInv, RowHolds
  <2>2. ~Queues(o, row) /\ ~Reserves(o, row)
    BY <2>1 DEF Queues, Reserves
  <2>3. /\ stock' = stock /\ outbox' = outbox
        /\ orders' = [orders EXCEPT ![o] = orders[o]]
    BY <1>4, <2>1, <2>2 DEF CompletePayment
  <2>4. orders' = orders
    BY <2>3 DEF OverlapInv, TypeOK
  <2>5. CASE row.status \in {"pricing_validated", "canceled"}
    BY <1>1, <1>2, <2>3, <2>4, <2>5 DEF Outcome, Booking
  <2>6. CASE row.status \notin {"pricing_validated", "canceled"}
    <3>1. row.status \in Accepted \cup {"refunded"}
      BY <1>4, <2>6 DEF OverlapInv, RowInv, RowHolds, OrderRow, OrderStatus, Accepted
    <3>2. ledger[o].sale >= 1
      BY <3>1 DEF OverlapInv, RowInv, RowHolds
    <3> QED
      BY <1>1, <1>2, <2>3, <2>4, <3>2 DEF Outcome, Resting
  <2> QED
    BY <2>5, <2>6
<1> QED
  BY <1>3, <1>4

\* What a step may do to Stripe's charges and to the payment rows: a charge is
\* opened only for an order that awaits its payment, or has raced.
Backed ==
    /\ \A p \in Orders :
         /\ charge'[p] # charge[p] /\ charge[p] = "none"
              => orders'[p].status = "payment_pending" \/ p \in raced'
         /\ charge[p] = "expired" => charge'[p] = "expired"
         /\ payments'[p].status = "none" => payments'[p] = payments[p] \/ p \in raced'
    /\ \A e \in webhooks' \ webhooks : e.type = "session.expired" => charge'[e.order] = "expired"
    /\ unpaid \subseteq unpaid'

\* A step that has such an outcome keeps the invariant, if the requests still
\* know of their orders what they must.
LEMMA RowsStep ==
    ASSUME OverlapInv, RowsInv, NEW o \in Orders, Outcome(o), Backed,
           \A s \in Requests : FoundInv(s)'
    PROVE  RowsInv'
<1>1. ASSUME NEW p \in Orders \ raced'
      PROVE  StageInv(p)'
  <2>1. p \in Orders /\ p \notin raced /\ (p = o => raced' = raced)
    BY DEF Outcome, Overtaking
  <2>2. StageInv(p) /\ (orders[p].status = "none" => charge[p] = "none")
    BY <2>1 DEF RowsInv, OverlapInv, StripeInv
  <2>3. CASE orders'[p] = orders[p]
    BY <2>2, <2>3 DEF StageInv, Backed
  <2>4. CASE orders'[p] # orders[p]
    <3>1. p = o /\ ~Overtaking(o)
      BY <2>4 DEF Outcome, Placing, Awaiting, Canceling, Accepting, Advancing, Refunding,
                  Booking, Repeating, Resting, Turns, Overtaking
    <3>2. /\ orders'[o].status \in {"pricing_validated", "payment_pending", "canceled", "queued",
                                    "preparing", "ready", "picked_up", "refunded"}
          /\ orders'[o].status = "pricing_validated" => orders[o].status = "none"
          /\ orders'[o].status = "payment_pending" => orders[o].status = "pricing_validated"
          /\ orders'[o].queued => orders[o].queued \/ orders'[o].status = "queued"
      BY <2>4, <3>1 DEF Outcome, Placing, Awaiting, Canceling, Accepting, Advancing, Refunding,
                        Booking, Repeating, Resting, Turns
    <3> QED
      BY <2>2, <3>1, <3>2 DEF StageInv, Backed
  <2> QED
    BY <2>3, <2>4
<1>2. ExpiryInv'
  <2> SUFFICES ASSUME NEW e \in webhooks', e.type = "session.expired"
               PROVE  charge'[e.order] = "expired"
    BY DEF ExpiryInv
  <2>1. CASE e \in webhooks
    <3>1. e.order \in Orders /\ charge[e.order] = "expired"
      BY <2>1 DEF RowsInv, ExpiryInv, OverlapInv, TypeOK, Webhook
    <3> QED
      BY <3>1 DEF Backed
  <2>2. CASE e \notin webhooks
    BY <2>2 DEF Backed
  <2> QED
    BY <2>1, <2>2
<1>3. OutboxAnnouncesRow'
  <2> DEFINE Announced(p) ==
               \/ outbox[p] = orders[p].status
               \/ outbox[p] = "created" /\ orders[p].status = "pricing_validated"
               \/ outbox[p] = "failed" /\ orders[p].status = "canceled"
  <2>1. ASSUME NEW p \in Orders, p \notin raced', p \notin unpaid'
        PROVE  Announced(p)'
    <3>1. p \notin raced /\ p \notin unpaid
      BY <2>1 DEF Outcome, Overtaking, Backed
    <3>2. Announced(p)
      BY <3>1 DEF RowsInv, OutboxAnnouncesRow
    <3>3. CASE orders'[p] = orders[p] /\ outbox'[p] = outbox[p]
      BY <3>2, <3>3
    <3>4. CASE ~(orders'[p] = orders[p] /\ outbox'[p] = outbox[p])
      <4>1. p = o /\ ~Overtaking(o)
        BY <2>1, <3>4 DEF Outcome, Placing, Awaiting, Canceling, Accepting, Advancing, Refunding,
                          Booking, Repeating, Resting, Turns, Overtaking
      <4> QED
        BY <3>1, <3>4, <4>1 DEF Outcome, Placing, Awaiting, Canceling, Accepting, Advancing,
                                Refunding, Booking, Repeating, Resting, Turns
    <3> QED
      BY <3>3, <3>4
  <2> QED
    BY <2>1 DEF OutboxAnnouncesRow
<1> QED
  BY <1>1, <1>2, <1>3 DEF RowsInv

\* A request knows no less of its order while others are served.
LEMMA FoundKept ==
    ASSUME RowsInv, raced \subseteq raced', unpaid \subseteq unpaid',
           NEW s \in Requests, req'[s] = req[s] \/ req'[s] = Idle
    PROVE  FoundInv(s)'
BY DEF RowsInv, FoundInv

\* A load takes the rows the database holds.
LEMMA LoadFound ==
    ASSUME RowsInv, TypeOK, UNCHANGED <<orders, history>>, NEW r \in Requests,
           NEW o \in Orders, NEW op, NEW to, Load(r, op, o, to),
           op = "intent" => orders[o].status \in {"pricing_validated", "payment_pending"},
           op # "complete",
           op = "fail" => orders[o].status \in {"payment_pending", "canceled"} \/ o \in unpaid
                          \/ o \in raced,
           op = "transition" /\ to = "canceled"
             => orders[o].status \in {"pricing_validated", "payment_pending"} \/ o \in raced
    PROVE  \A s \in Requests : FoundInv(s)'
<1>1. /\ req'[r] = [op |-> op, order |-> o, row |-> orders[o], pay |-> payments[o], to |-> to]
      /\ \A s \in Requests \ {r} : req'[s] = req[s]
  BY DEF Load, TypeOK
<1>2. raced' = raced /\ unpaid' = unpaid
  BY DEF history
<1>3. FoundInv(r)'
  BY <1>1, <1>2 DEF FoundInv
<1>4. ASSUME NEW s \in Requests, s # r
      PROVE  FoundInv(s)'
  BY <1>1, <1>2, <1>4, FoundKept
<1> QED
  BY <1>3, <1>4

\* What the invariant says of the request that commits.
LEMMA ServingFound ==
    ASSUME OverlapInv, RowsInv, NEW r \in Requests, req[r] # Idle
    PROVE  /\ TypeOK /\ RequestInv(r) /\ FoundInv(r)
           /\ req[r].order \in Orders
           /\ req[r].row \in OrderRow
           /\ req[r].order \notin raced => StageInv(req[r].order)
           /\ req[r].row.status # "none" /\ orders[req[r].order].status # "none"
BY ServingInv DEF RowsInv, RequestInv

\* A commit that works from the row the database holds, of an order no stale
\* row was saved on.
Fresh(r) ==
    /\ req[r] # Idle
    /\ req[r].order \notin raced
    /\ req[r].row = orders[req[r].order]

\* It is not noted.
LEMMA FreshNoted ==
    ASSUME NEW r \in Requests, Fresh(r), Noted(r)
    PROVE  raced' = raced
BY DEF Fresh, Noted

\* A transaction that ends its request and leaves Stripe alone.
LEMMA EndRows ==
    ASSUME OverlapInv, RowsInv, NEW r \in Requests, Done(r), unpaid \subseteq unpaid',
           NEW o \in Orders, Outcome(o), UNCHANGED <<charge, webhooks>>,
           \A p \in Orders : payments'[p].status = "none" => payments'[p] = payments[p]
    PROVE  RowsInv'
<1>1. Backed
  BY DEF Backed
<1>2. raced \subseteq raced'
  BY DEF Outcome, Overtaking
<1>3. \A s \in Requests : FoundInv(s)'
  BY <1>2, DoneOnly, FoundKept DEF OverlapInv
<1> QED
  BY <1>1, <1>3, RowsStep

\* Beginning a payment, and creating an intent.
LEMMA BeginRows ==
    ASSUME OverlapInv, RowsInv, NEW r \in Requests, Fresh(r),
           BeginHosted(r) \/ BeginMock(r) \/ CommitIntent(r)
    PROVE  (\E o \in Orders : Outcome(o)) /\ RowsInv'
<1> DEFINE o == req[r].order
           row == req[r].row
<1>1. req[r] # Idle /\ row = orders[o] /\ o \notin raced
  BY DEF Fresh
<1>2. PICK intent \in BOOLEAN : RecordPending(o, row, intent)
  <2>1. (flow # "hosted") \in BOOLEAN
    OBVIOUS
  <2> QED
    BY <2>1 DEF BeginHosted, BeginMock, CommitIntent
<1>3. o \in Orders /\ row \in OrderRow
      /\ row.status \in {"pricing_validated", "payment_pending"}
      /\ TypeOK /\ RequestInv(r)
  BY <1>1, ServingFound DEF BeginHosted, BeginMock, CommitIntent, Serving, RequestInv, FoundInv
<1>4. raced' = raced /\ unpaid' = unpaid
  BY FreshNoted DEF BeginHosted, BeginMock, CommitIntent
<1>5. /\ Outcome(o)
      /\ orders'[o].status = "payment_pending"
      /\ \A p \in Orders : payments'[p].status = "none" => payments'[p] = payments[p]
  BY <1>1, <1>2, <1>3, <1>4, RecordPendingOutcome
<1>6. Backed
  <2>1. webhooks' = webhooks
    BY DEF BeginHosted, BeginMock, CommitIntent
  <2>2. charge' = charge \/ (charge' = [charge EXCEPT ![o] = "open"] /\ charge[o] = "none")
    BY <1>1, <1>3 DEF BeginHosted, BeginMock, CommitIntent, Serving, RequestInv
  <2> QED
    BY <1>3, <1>4, <1>5, <2>1, <2>2 DEF Backed, TypeOK
<1>7. \A s \in Requests : FoundInv(s)'
  <2>1. CASE Done(r)
    BY <1>3, <1>4, <2>1, DoneOnly, FoundKept
  <2>2. CASE BeginMock(r)
    <3> DEFINE next == Transition(row, "payment_pending")
    <3>1. next.status = "payment_pending"
      BY <1>3, TransitionType DEF OrderStatus
    <3>2. /\ req'[r].op = "complete"
          /\ req'[r].row = next
          /\ \A s \in Requests \ {r} : req'[s] = req[s]
      <4>1. /\ req'[r] = [req[r] EXCEPT !.op = "complete", !.row = next]
            /\ \A s \in Requests \ {r} : req'[s] = req[s]
        BY <1>3, <2>2 DEF BeginMock, TypeOK
      <4> QED
        BY <1>1, <1>3, <4>1, ServingType DEF Request
    <3>3. FoundInv(r)'
      BY <3>1, <3>2 DEF FoundInv
    <3> QED
      BY <1>4, <3>2, <3>3, FoundKept
  <2> QED
    BY <2>1, <2>2 DEF BeginHosted, CommitIntent
<1> QED
  BY <1>3, <1>5, <1>6, <1>7, RowsStep

\* Completing a payment and recording its failure.
LEMMA SettleRows ==
    ASSUME OverlapInv, RowsInv, NEW r \in Requests, Fresh(r), Noted(r),
           CompleteMock(r) \/ CommitFinalize(r) \/ CommitConfirm(r) \/ CommitFail(r)
    PROVE  (\E o \in Orders : Outcome(o)) /\ RowsInv'
<1> DEFINE o == req[r].order
           row == req[r].row
<1>1. req[r] # Idle /\ UNCHANGED <<charge, webhooks>> /\ row = orders[o] /\ o \notin raced
  BY DEF CompleteMock, CommitFinalize, CommitConfirm, CommitFail, Fresh
<1>2. /\ o \in Orders /\ row \in OrderRow /\ row.status # "none"
      /\ StageInv(o) /\ FoundInv(r) /\ RequestInv(r) /\ TypeOK
  BY <1>1, ServingFound
<1>3. raced' = raced /\ Done(r) /\ unpaid \subseteq unpaid'
  BY FreshNoted DEF CompleteMock, CommitFinalize, CommitConfirm, CommitFail, RollBack, history
<1>4. CASE \E intent \in BOOLEAN : CompletePayment(o, row, intent)
  <2>1. PICK intent \in BOOLEAN : CompletePayment(o, row, intent)
    BY <1>4
  <2> QED
    BY <1>1, <1>2, <1>3, <2>1, CompleteOutcome, EndRows
<1>5. CASE /\ \E intent \in BOOLEAN : RecordFailure(o, row, intent)
           /\ row.status \in {"payment_pending", "canceled"} \/ o \in unpaid
  <2>1. PICK intent \in BOOLEAN : RecordFailure(o, row, intent)
    BY <1>5
  <2> QED
    BY <1>1, <1>2, <1>3, <1>5, <2>1, RecordFailureOutcome, EndRows
<1>6. CASE RollBack(r)
  <2>1. Outcome(o) /\ payments' = payments
    BY <1>3, <1>6 DEF RollBack, db, Outcome, Resting
  <2> QED
    BY <1>1, <1>2, <1>3, <2>1, EndRows
<1>7. CASE CommitFail(r)
  <2>1. row.status \in {"payment_pending", "canceled"} \/ o \in unpaid
    BY <1>1, <1>2, <1>7 DEF CommitFail, Serving, FoundInv
  <2> QED
    BY <1>5, <1>7, <2>1 DEF CommitFail
<1>8. CASE CompleteMock(r)
  <2>1. row.status = "payment_pending"
    BY <1>1, <1>2, <1>8 DEF CompleteMock, Serving, FoundInv
  <2> QED
    BY <1>1, <1>4, <1>5, <1>8, <2>1 DEF CompleteMock
<1>9. CASE CommitFinalize(r)
  BY <1>4, <1>6, <1>9 DEF CommitFinalize
<1>10. CASE CommitConfirm(r)
  BY <1>4, <1>6, <1>10 DEF CommitConfirm
<1> QED
  BY <1>7, <1>8, <1>9, <1>10

\* A transaction that is rolled back, whatever Stripe refunded before.
Undone(r) ==
    /\ req[r] # Idle
    /\ RollBack(r)
    /\ UNCHANGED <<charge, webhooks>> \/ StripeRefunds(req[r].order)

\* It leaves the rows alone.
LEMMA RollBackRows ==
    ASSUME OverlapInv, RowsInv, NEW r \in Requests, Undone(r)
    PROVE  (\E o \in Orders : Outcome(o)) /\ RowsInv'
<1> DEFINE o == req[r].order
<1>1. o \in Orders /\ TypeOK
  BY ServingFound DEF Undone
<1>2. Outcome(o) /\ UNCHANGED <<payments, raced, unpaid>>
  BY DEF Undone, RollBack, db, history, Outcome, Resting
<1>3. Backed
  <2>1. CASE UNCHANGED <<charge, webhooks>>
    BY <1>2, <2>1 DEF Backed
  <2>2. CASE StripeRefunds(o)
    <3>1. /\ charge[o] = "captured" /\ charge'[o] = "refunded"
          /\ \A p \in Orders \ {o} : charge'[p] = charge[p]
          /\ \A e \in webhooks' \ webhooks : e.type = "charge.refunded"
      BY <1>1, <2>2 DEF StripeRefunds, TypeOK
    <3> QED
      BY <1>2, <3>1 DEF Backed
  <2> QED
    BY <2>1, <2>2 DEF Undone
<1>4. \A s \in Requests : FoundInv(s)'
  BY <1>1, <1>2, DoneOnly, FoundKept DEF Undone, RollBack
<1> QED
  BY <1>1, <1>2, <1>3, <1>4, RowsStep

\* Refunding the order.
LEMMA RefundRows ==
    ASSUME OverlapInv, RowsInv, NEW r \in Requests, Fresh(r), CommitRefund(r)
    PROVE  (\E o \in Orders : Outcome(o)) /\ RowsInv'
<1> DEFINE o == req[r].order
           row == req[r].row
<1>1. req[r] # Idle /\ row = orders[o] /\ o \notin raced
  BY DEF Fresh
<1>2. /\ o \in Orders /\ row \in OrderRow /\ TypeOK /\ RowInv(row, o)
  BY <1>1, ServingFound DEF RequestInv
<1>3. raced' = raced /\ unpaid' = unpaid /\ Done(r)
  BY FreshNoted DEF CommitRefund
<1>4. /\ \A p \in Orders : \/ charge'[p] = charge[p]
                           \/ charge[p] = "captured" /\ charge'[p] = "refunded"
      /\ \A e \in webhooks' \ webhooks : e.type = "charge.refunded"
  <2>1. CASE UNCHANGED <<charge, webhooks>>
    BY <2>1
  <2>2. CASE StripeRefunds(o)
    <3>1. /\ charge[o] = "captured" /\ charge'[o] = "refunded"
          /\ \A p \in Orders \ {o} : charge'[p] = charge[p]
      BY <1>2, <2>2 DEF StripeRefunds, TypeOK
    <3>2. \A e \in webhooks' \ webhooks : e.type = "charge.refunded"
      BY <2>2 DEF StripeRefunds
    <3> QED
      BY <3>1, <3>2
  <2> QED
    BY <2>1, <2>2 DEF CommitRefund, RemoteRefund
<1>5. row.status \in {"queued", "preparing"}
  BY <1>2 DEF CommitRefund, Allowed, OrderRow, RowInv, RowHolds
<1>6. ledger[o].sale >= 1
  BY <1>2, <1>5 DEF RowInv, RowHolds, Accepted
<1>7. /\ Books(o) /\ ledger'[o].sale = ledger[o].sale /\ ledger'[o].refund >= 1
  BY <1>2, <1>6 DEF CommitRefund, Books, TypeOK, LedgerRow
<1>8. stock' = stock + Need[o]
  BY <1>5 DEF CommitRefund, ReturnsUnits
<1>9. \A p \in Orders : payments'[p].status = "none" => payments'[p] = payments[p]
  <2>1. [req[r].pay EXCEPT !.status = "refunded", !.refunded = TRUE].status = "refunded"
    BY <1>1, <1>2, ServingType DEF PaymentRow
  <2> QED
    BY <1>2, <2>1 DEF CommitRefund, TypeOK
<1> DEFINE half == Transition(row, "refund_pending")
<1>10. half \in OrderRow /\ (half.queued => row.queued)
  <2>1. half \in OrderRow
    BY <1>2, TransitionType DEF OrderStatus
  <2>2. half.queued => row.queued
    BY <1>2 DEF Transition, OrderRow
  <2> QED
    BY <2>1, <2>2
<1>11. Transition(half, "refunded").status = "refunded"
       /\ (Transition(half, "refunded").queued => half.queued)
  BY <1>10 DEF Transition, OrderRow
<1> HIDE DEF half
<1>12. /\ orders'[o] = Transition(half, "refunded")
       /\ \A p \in Orders \ {o} : orders'[p] = orders[p]
  BY <1>2 DEF CommitRefund, TypeOK, half
<1>13. outbox'[o] = "refunded" /\ \A p \in Orders \ {o} : outbox'[p] = outbox[p]
  BY <1>2 DEF CommitRefund, Emit, TypeOK
<1>14. Turns(o, {"queued", "preparing"}, "refunded", "refunded")
  BY <1>1, <1>5, <1>10, <1>11, <1>12, <1>13 DEF Turns
<1>15. Outcome(o)
  BY <1>3, <1>7, <1>8, <1>14 DEF Outcome, Refunding
<1>16. Backed
  BY <1>3, <1>4, <1>9 DEF Backed
<1>17. \A s \in Requests : FoundInv(s)'
  BY <1>2, <1>3, DoneOnly, FoundKept
<1> QED
  BY <1>2, <1>15, <1>16, <1>17, RowsStep

\* Staff and cancellations without a payment.
LEMMA TransitionRows ==
    ASSUME OverlapInv, RowsInv, NEW r \in Requests, Fresh(r), CommitTransition(r)
    PROVE  (\E o \in Orders : Outcome(o)) /\ RowsInv'
<1> DEFINE o == req[r].order
           row == req[r].row
           to == req[r].to
<1>1. req[r] # Idle /\ req[r].op = "transition" /\ row = orders[o] /\ o \notin raced
  BY DEF CommitTransition, Serving, Fresh
<1>2. /\ o \in Orders /\ row \in OrderRow /\ to \in OrderStatus
      /\ RequestInv(r) /\ FoundInv(r) /\ TypeOK /\ RowInv(row, o)
  BY <1>1, ServingFound, ServingType DEF RequestInv
<1>3. \/ to = "canceled" /\ row.status \in {"pricing_validated", "payment_pending"}
      \/ to = "preparing" /\ row.status \in {"queued"}
      \/ to = "ready" /\ row.status \in {"preparing"}
      \/ to = "picked_up" /\ row.status \in {"ready"}
  <2>1. to \in Allowed[row.status] /\ to \in {"preparing", "ready", "picked_up", "canceled"}
        /\ row.status \in OrderStatus
    BY <1>1, <1>2 DEF RequestInv, OrderRow
  <2>2. to = "canceled" => row.status \in {"pricing_validated", "payment_pending"}
    BY <1>1, <1>2 DEF FoundInv
  <2> QED
    BY <2>1, <2>2 DEF Allowed
<1>4. ASSUME NEW from, row.status \in from
      PROVE  Turns(o, from, to, to)
  <2>1. orders' = [orders EXCEPT ![o] = Transition(row, to)] /\ Emit(o, to)
    BY DEF CommitTransition
  <2> HIDE DEF o, row, to
  <2> QED
    BY <1>1, <1>2, <1>4, <2>1, TransitionTurns
<1>5. UNCHANGED <<payments, ledger, stock, charge, webhooks, unpaid>> /\ Done(r) /\ raced' = raced
  BY FreshNoted DEF CommitTransition
<1>6. Outcome(o)
  BY <1>3, <1>4, <1>5 DEF Outcome, Canceling, Advancing
<1> QED
  BY <1>2, <1>5, <1>6, EndRows

\* A transaction that commits writes the rows of its own order only, and what it
\* did to the ledger and the stock shows in at most one order's worth.
Touches(o) ==
    /\ \A p \in Orders \ {o} : /\ orders'[p] = orders[p] /\ payments'[p] = payments[p]
                               /\ ledger'[p] = ledger[p] /\ outbox'[p] = outbox[p]
    /\ ledger[o].sale >= 1 => ledger'[o].sale >= 1
    /\ ledger[o].refund >= 1 => ledger'[o].refund >= 1
    /\ stock' \in {stock, stock - Need[o], stock + Need[o]}
    /\ orders'[o].status # "none"

LEMMA RecordPendingTouches ==
    ASSUME TypeOK, NEW o \in Orders, NEW row \in OrderRow, NEW intent \in BOOLEAN,
           RecordPending(o, row, intent), orders[o].status # "none"
    PROVE  Touches(o)
<1>1. orders'[o].status # "none"
  BY RecordPendingKeeps
<1> QED
  BY <1>1 DEF RecordPending, Emit, Touches, TypeOK

LEMMA RecordFailureTouches ==
    ASSUME TypeOK, NEW o \in Orders, NEW row \in OrderRow, NEW intent \in BOOLEAN,
           RecordFailure(o, row, intent), orders[o].status # "none"
    PROVE  Touches(o)
<1>1. orders'[o].status # "none"
  BY RecordFailureKeeps
<1> QED
  BY <1>1 DEF RecordFailure, Emit, Touches, TypeOK

LEMMA CompletePaymentTouches ==
    ASSUME TypeOK, NEW o \in Orders, NEW row \in OrderRow, NEW intent \in BOOLEAN,
           CompletePayment(o, row, intent), RowInv(orders[o], o), orders[o].status # "none"
    PROVE  Touches(o)
<1>1. orders'[o].status # "none" /\ ledger'[o].sale >= 1
      /\ ledger'[o].refund = ledger[o].refund
  BY CompletePaymentKeeps
<1>2. stock' \in {stock, stock - Need[o]}
  BY DEF CompletePayment
<1>3. \A p \in Orders \ {o} : orders'[p] = orders[p] /\ payments'[p] = payments[p]
                              /\ ledger'[p] = ledger[p]
  BY DEF CompletePayment, TypeOK
<1>4. \A p \in Orders \ {o} : outbox'[p] = outbox[p]
  BY DEF CompletePayment, Emit, TypeOK
<1> QED
  BY <1>1, <1>2, <1>3, <1>4 DEF Touches

\* Every transaction that commits.
LEMMA CommitTouches ==
    ASSUME OverlapInv, NEW r \in Requests, Commit(r), ~Undone(r)
    PROVE  /\ req[r] # Idle /\ Noted(r)
           /\ Touches(req[r].order)
           /\ \A p \in Orders \ {req[r].order} : charge'[p] = charge[p]
           /\ charge[req[r].order] = "expired" => charge'[req[r].order] = "expired"
           /\ \A e \in webhooks' \ webhooks : e.type = "charge.refunded"
           /\ unpaid \subseteq unpaid'
           /\ Done(r) \/ BeginMock(r)
<1> DEFINE o == req[r].order
           row == req[r].row
           Outside == /\ \A p \in Orders \ {o} : charge'[p] = charge[p]
                      /\ charge[o] = "expired" => charge'[o] = "expired"
                      /\ \A e \in webhooks' \ webhooks : e.type = "charge.refunded"
<1>1. req[r] # Idle /\ Noted(r) /\ unpaid \subseteq unpaid' /\ (Done(r) \/ BeginMock(r))
  BY DEF Commit, BeginHosted, BeginMock, CompleteMock, CommitIntent, CommitFinalize,
         CommitConfirm, CommitFail, CommitRefund, RefundRaises, CommitTransition, Serving,
         Undone
<1>2. /\ o \in Orders /\ row \in OrderRow /\ orders[o] \in OrderRow /\ TypeOK
      /\ orders[o].status # "none" /\ RowInv(orders[o], o) /\ RequestInv(r)
  BY <1>1, ServingInv DEF TypeOK
<1>3. UNCHANGED <<charge, webhooks>> => Outside
  OBVIOUS
<1>4. CASE BeginHosted(r) \/ BeginMock(r) \/ CommitIntent(r)
  <2>1. PICK intent \in BOOLEAN : RecordPending(o, row, intent)
    <3>1. (flow # "hosted") \in BOOLEAN
      OBVIOUS
    <3> QED
      BY <1>4, <3>1 DEF BeginHosted, BeginMock, CommitIntent
  <2>2. webhooks' = webhooks
        /\ (charge' = charge \/ (charge' = [charge EXCEPT ![o] = "open"] /\ charge[o] = "none"))
    BY <1>1, <1>2, <1>4 DEF BeginHosted, BeginMock, CommitIntent, Serving, RequestInv
  <2>3. Outside
    BY <1>2, <2>2 DEF TypeOK
  <2> QED
    BY <1>1, <1>2, <2>1, <2>3, RecordPendingTouches
<1>5. CASE CompleteMock(r)
  <2>1. CompletePayment(o, row, TRUE) \/ RecordFailure(o, orders[o], TRUE)
    BY <1>5 DEF CompleteMock
  <2>2. Outside
    BY <1>3, <1>5 DEF CompleteMock
  <2> QED
    BY <1>1, <1>2, <2>1, <2>2, CompletePaymentTouches, RecordFailureTouches
<1>6. CASE CommitFinalize(r)
  <2>1. CompletePayment(o, row, TRUE)
    BY <1>1, <1>6 DEF CommitFinalize, Undone
  <2>2. Outside
    BY <1>3, <1>6 DEF CommitFinalize
  <2> QED
    BY <1>1, <1>2, <2>1, <2>2, CompletePaymentTouches
<1>7. CASE CommitConfirm(r)
  <2>1. PICK intent \in BOOLEAN : CompletePayment(o, row, intent)
    BY <1>1, <1>7 DEF CommitConfirm, Undone
  <2>2. Outside
    BY <1>3, <1>7 DEF CommitConfirm
  <2> QED
    BY <1>1, <1>2, <2>1, <2>2, CompletePaymentTouches
<1>8. CASE CommitFail(r)
  <2>1. RecordFailure(o, row, FALSE)
    BY <1>8 DEF CommitFail
  <2>2. Outside
    BY <1>3, <1>8 DEF CommitFail
  <2> QED
    BY <1>1, <1>2, <2>1, <2>2, RecordFailureTouches
<1>9. CASE CommitRefund(r)
  <2>1. \A p \in Orders \ {o} : /\ orders'[p] = orders[p] /\ payments'[p] = payments[p]
                                /\ ledger'[p] = ledger[p] /\ outbox'[p] = outbox[p]
    BY <1>2, <1>9 DEF CommitRefund, Emit, TypeOK
  <2>2. ledger'[o].sale >= 1 /\ (ledger[o].refund >= 1 => ledger'[o].refund >= 1)
    BY <1>2, <1>9 DEF CommitRefund, TypeOK, LedgerRow
  <2>3. stock' \in {stock, stock + Need[o]}
    BY <1>9 DEF CommitRefund
  <2>4. orders'[o].status = "refunded"
    <3>1. Transition(row, "refund_pending") \in OrderRow
      BY <1>2, TransitionType DEF OrderStatus
    <3>2. Transition(Transition(row, "refund_pending"), "refunded").status = "refunded"
      BY <3>1, TransitionType DEF OrderStatus
    <3> QED
      BY <1>2, <1>9, <3>2 DEF CommitRefund, TypeOK
  <2>5. Touches(o)
    BY <2>1, <2>2, <2>3, <2>4 DEF Touches
  <2>6. Outside
    <3>1. CASE UNCHANGED <<charge, webhooks>>
      BY <1>3, <3>1
    <3>2. CASE StripeRefunds(o)
      BY <1>2, <3>2 DEF StripeRefunds, TypeOK
    <3> QED
      BY <1>9, <3>1, <3>2 DEF CommitRefund, RemoteRefund
  <2> QED
    BY <1>1, <2>5, <2>6
<1>10. CASE CommitTransition(r)
  <2>1. \A p \in Orders \ {o} : /\ orders'[p] = orders[p] /\ payments'[p] = payments[p]
                                /\ ledger'[p] = ledger[p] /\ outbox'[p] = outbox[p]
    BY <1>2, <1>10 DEF CommitTransition, Emit, TypeOK
  <2>2. UNCHANGED <<ledger, stock, charge, webhooks>>
    BY <1>10 DEF CommitTransition
  <2>3. req[r].to \in {"preparing", "ready", "picked_up", "canceled"} /\ req[r].to \in OrderStatus
    BY <1>1, <1>2, <1>10, ServingType DEF CommitTransition, Serving, RequestInv
  <2>4. orders'[o].status = req[r].to
    BY <1>2, <1>10, <2>3, TransitionType DEF CommitTransition, TypeOK
  <2>5. Touches(o)
    BY <2>1, <2>2, <2>3, <2>4 DEF Touches
  <2> QED
    BY <1>1, <1>3, <2>2, <2>5
<1> QED
  BY <1>4, <1>5, <1>6, <1>7, <1>8, <1>9, <1>10, <1>1 DEF Commit, RefundRaises, Undone

\* A transaction that saves a stale row, or the row of an order one was saved on.
LEMMA OvertakingRows ==
    ASSUME OverlapInv, TypeOK', OverlapInv', RowsInv, NEW r \in Requests, Commit(r),
           ~Undone(r), ~Fresh(r)
    PROVE  (\E o \in Orders : Outcome(o)) /\ RowsInv'
<1> DEFINE o == req[r].order
<1>1. /\ req[r] # Idle /\ Noted(r) /\ Touches(o)
      /\ \A p \in Orders \ {o} : charge'[p] = charge[p]
      /\ charge[o] = "expired" => charge'[o] = "expired"
      /\ \A e \in webhooks' \ webhooks : e.type = "charge.refunded"
      /\ unpaid \subseteq unpaid'
      /\ Done(r) \/ BeginMock(r)
  BY CommitTouches
<1>2. o \in Orders /\ TypeOK
  BY <1>1, ServingFound
<1>3. raced' = raced \cup {o}
  BY <1>1, <1>2 DEF Noted, Fresh
<1>4. orders'[o].status \in {"pricing_validated", "payment_pending", "queued", "preparing",
                             "ready", "picked_up", "refunded", "canceled"}
  <2>1. orders'[o].status \in OrderStatus
    BY <1>2 DEF TypeOK, OrderRow
  <2>2. orders'[o].status \notin {"paid", "refund_pending", "expired"}
    BY <1>2 DEF OverlapInv, RowInv, RowHolds
  <2>3. orders'[o].status # "none"
    BY <1>1 DEF Touches
  <2> QED
    BY <2>1, <2>2, <2>3 DEF OrderStatus
<1>5. Outcome(o)
  BY <1>1, <1>3, <1>4 DEF Touches, Outcome, Overtaking, Books
<1>6. Backed
  BY <1>1, <1>2, <1>3 DEF Touches, Backed
<1>7. ASSUME NEW s \in Requests, s # r
      PROVE  FoundInv(s)'
  <2>1. req'[s] = req[s]
    BY <1>1, <1>2, <1>7 DEF Done, BeginMock, TypeOK
  <2> QED
    BY <1>1, <1>3, <2>1, FoundKept
<1>8. FoundInv(r)'
  <2>1. CASE Done(r)
    BY <1>2, <2>1 DEF Done, FoundInv, TypeOK
  <2>2. CASE BeginMock(r)
    <3>1. req'[r].order = o
      <4>1. req'[r] = [req[r] EXCEPT !.op = "complete", !.row = Transition(@, "payment_pending")]
        BY <1>2, <2>2 DEF BeginMock, TypeOK
      <4> QED
        BY <1>1, <1>2, <4>1, ServingType DEF Request
    <3> QED
      BY <1>3, <3>1 DEF FoundInv
  <2> QED
    BY <1>1, <2>1, <2>2
<1>9. \A s \in Requests : FoundInv(s)'
  BY <1>7, <1>8
<1> QED
  BY <1>2, <1>5, <1>6, <1>9, RowsStep

\* Every transaction.
LEMMA CommitRows ==
    ASSUME OverlapInv, TypeOK', OverlapInv', RowsInv, NEW r \in Requests, Commit(r)
    PROVE  (\E o \in Orders : Outcome(o)) /\ RowsInv'
<1>1. CASE Undone(r)
  BY <1>1, RollBackRows
<1>2. CASE ~Undone(r) /\ Fresh(r)
  <2>1. Noted(r)
    BY <1>2, CommitTouches
  <2>2. ~RefundRaises(r)
    BY <1>2 DEF RefundRaises, Serving, Undone
  <2> QED
    BY <1>2, <2>1, <2>2, BeginRows, SettleRows, RefundRows, TransitionRows DEF Commit
<1>3. CASE ~Undone(r) /\ ~Fresh(r)
  BY <1>3, OvertakingRows
<1> QED
  BY <1>1, <1>2, <1>3

\* A step that writes nothing: a load, or a webhook that is not handled.
LEMMA LoadingRows ==
    ASSUME OverlapInv, RowsInv, NEW o \in Orders, UNCHANGED <<db, charge, webhooks, history>>,
           \A s \in Requests : FoundInv(s)'
    PROVE  (\E p \in Orders : Outcome(p)) /\ RowsInv'
<1>1. Outcome(o) /\ Backed
  BY DEF db, history, Outcome, Resting, Backed
<1> QED
  BY <1>1, RowsStep

\* The pages that load an order.
LEMMA LoadsRows ==
    ASSUME OverlapInv, RowsInv, NEW r \in Requests, NEW o \in Orders,
           \/ LoadIntent(r, o) \/ LoadSuccessPage(r, o) \/ LoadConfirm(r, o)
           \/ LoadCancelPage(r, o) \/ LoadCancel(r, o) \/ LoadMark(r, o)
    PROVE  (\E p \in Orders : Outcome(p)) /\ RowsInv'
<1>1. UNCHANGED <<db, charge, webhooks, history>> /\ UNCHANGED <<orders, history>>
  BY DEF LoadIntent, LoadSuccessPage, LoadConfirm, LoadCancelPage, LoadCancel, LoadMark, db
<1>2. TypeOK
  BY DEF OverlapInv
<1>3. CASE LoadIntent(r, o)
  <2>1. \A s \in Requests : FoundInv(s)'
    BY <1>1, <1>2, <1>3, LoadFound DEF LoadIntent
  <2> QED
    BY <1>1, <2>1, LoadingRows
<1>4. CASE LoadSuccessPage(r, o)
  <2>1. \A s \in Requests : FoundInv(s)'
    BY <1>1, <1>2, <1>4, LoadFound DEF LoadSuccessPage
  <2> QED
    BY <1>1, <2>1, LoadingRows
<1>5. CASE LoadConfirm(r, o)
  <2>1. \A s \in Requests : FoundInv(s)'
    BY <1>1, <1>2, <1>5, LoadFound DEF LoadConfirm
  <2> QED
    BY <1>1, <2>1, LoadingRows
<1>6. CASE LoadCancelPage(r, o)
  <2>1. \A s \in Requests : FoundInv(s)'
    BY <1>1, <1>2, <1>6, LoadFound DEF LoadCancelPage
  <2> QED
    BY <1>1, <2>1, LoadingRows
<1>7. CASE LoadCancel(r, o)
  <2>1. CASE Load(r, "refund", o, "none")
    <3>1. \A s \in Requests : FoundInv(s)'
      BY <1>1, <1>2, <2>1, LoadFound
    <3> QED
      BY <1>1, <3>1, LoadingRows
  <2>2. CASE /\ payments[o].status = "none"
             /\ "canceled" \in Allowed[orders[o].status]
             /\ Load(r, "transition", o, "canceled")
    <3>1. ASSUME o \notin raced
          PROVE  orders[o].status \in {"pricing_validated", "payment_pending"}
      <4>1. orders[o].status \notin Accepted /\ orders[o].status \in OrderStatus
        BY <1>2, <2>2, <3>1 DEF RowsInv, StageInv, OverlapInv, RowInv, RowHolds, TypeOK, OrderRow
      <4>2. orders[o].status \notin {"paid", "refund_pending"}
        BY DEF OverlapInv, RowInv, RowHolds
      <4> QED
        BY <2>2, <4>1, <4>2 DEF Allowed, Accepted
    <3>2. \A s \in Requests : FoundInv(s)'
      BY <1>1, <1>2, <2>2, <3>1, LoadFound
    <3> QED
      BY <1>1, <3>2, LoadingRows
  <2> QED
    BY <1>7, <2>1, <2>2 DEF LoadCancel
<1>8. CASE LoadMark(r, o)
  <2>1. PICK to \in {"preparing", "ready", "picked_up"} : Load(r, "transition", o, to)
    BY <1>8 DEF LoadMark
  <2>2. \A s \in Requests : FoundInv(s)'
    BY <1>1, <1>2, <2>1, LoadFound
  <2> QED
    BY <1>1, <2>2, LoadingRows
<1> QED
  BY <1>3, <1>4, <1>5, <1>6, <1>7, <1>8

\* An expired session is announced of an order that awaits its payment, was
\* canceled, or was queued without its money.
LEMMA ExpiredStage ==
    ASSUME OverlapInv, RowsInv, NEW o \in Orders, charge[o] = "expired", o \notin raced
    PROVE  orders[o].status \in {"payment_pending", "canceled"} \/ o \in unpaid
<1>1. orders[o].status \in OrderStatus /\ orders[o].status \notin {"none", "pricing_validated"}
  BY DEF OverlapInv, TypeOK, OrderRow, StripeInv, RowsInv, StageInv
<1>2. flow # "mock"
  BY DEF OverlapInv, StripeInv
<1>3. \/ orders[o].status \notin Accepted \cup {"refunded", "paid", "refund_pending", "expired"}
      \/ o \in unpaid
  BY <1>2 DEF OverlapInv, RowInv, RowHolds
<1> QED
  BY <1>1, <1>3 DEF OrderStatus, Accepted

\* A webhook is received.
LEMMA ReceiveRows ==
    ASSUME OverlapInv, RowsInv, NEW r \in Requests, ReceiveWebhook(r)
    PROVE  (\E p \in Orders : Outcome(p)) /\ RowsInv'
<1>1. PICK e \in webhooks : Webhooks(r, e)
  BY DEF ReceiveWebhook
<1>2. e.order \in Orders /\ e.type \in WebhookType /\ TypeOK
  BY <1>1 DEF OverlapInv, TypeOK, Webhook
<1>3. UNCHANGED <<db, charge, webhooks, history>> /\ UNCHANGED <<orders, history>>
  BY <1>1 DEF Webhooks, db
<1>4. \A s \in Requests : FoundInv(s)'
  <2>1. CASE UNCHANGED req
    BY <1>3, <2>1, FoundKept DEF history
  <2>2. CASE Load(r, "finalize", e.order, "none") \/ Load(r, "refund", e.order, "none")
    BY <1>2, <1>3, <2>2, LoadFound
  <2>3. CASE /\ e.type \in {"intent.failed", "session.expired"} /\ Handled(e)
             /\ Load(r, "fail", e.order, "none")
    <3>1. orders[e.order].status \in {"payment_pending", "canceled"} \/ e.order \in unpaid
          \/ e.order \in raced
      BY <1>1, <1>2, <2>3, ExpiredStage DEF Handled, RowsInv, ExpiryInv
    <3> QED
      BY <1>2, <1>3, <2>3, <3>1, LoadFound
  <2> QED
    BY <1>1, <1>2, <2>1, <2>2, <2>3 DEF Webhooks, WebhookType
<1> QED
  BY <1>2, <1>3, <1>4, LoadingRows

\* A new order.
LEMMA CheckoutRows ==
    ASSUME OverlapInv, RowsInv, NEW r \in Requests, NEW o \in Orders, Checkout(r, o)
    PROVE  (\E p \in Orders : Outcome(p)) /\ RowsInv'
<1> DEFINE row == [NoOrder EXCEPT !.status = "pricing_validated"]
<1>1. row.status = "pricing_validated" /\ ~row.queued
  BY DEF NoOrder
<1>2. /\ orders[o].status = "none" /\ orders'[o] = row
      /\ \A p \in Orders \ {o} : orders'[p] = orders[p]
      /\ UNCHANGED <<payments, ledger, stock, charge, webhooks, raced, unpaid>>
  BY DEF Checkout, OverlapInv, TypeOK, history
<1>3. outbox'[o] = "created" /\ \A p \in Orders \ {o} : outbox'[p] = outbox[p]
  BY DEF Checkout, Emit, OverlapInv, TypeOK
<1>4. Outcome(o) /\ Backed
  BY <1>1, <1>2, <1>3 DEF Outcome, Placing, Turns, Backed
<1>5. ASSUME NEW s \in Requests
      PROVE  FoundInv(s)'
  <2>1. CASE req'[s] = req[s]
    BY <1>2, <2>1, FoundKept
  <2>2. CASE req'[s] # req[s]
    <3>1. req'[s].op = "begin"
      BY <2>2 DEF Checkout, OverlapInv, TypeOK
    <3> QED
      BY <3>1 DEF FoundInv
  <2> QED
    BY <2>1, <2>2
<1> QED
  BY <1>4, <1>5, RowsStep

\* Stripe and the customer.
LEMMA EnvironmentRows ==
    ASSUME OverlapInv, RowsInv, NEW o \in Orders, Environment(o)
    PROVE  (\E p \in Orders : Outcome(p)) /\ RowsInv'
<1>1. UNCHANGED <<db, req, raced, unpaid>>
  BY DEF Environment, Pay, Decline, ExpireSession, DashboardRefund, history
<1>2. \A s \in Requests : FoundInv(s)'
  BY <1>1, FoundKept
<1>3. \A p \in Orders : /\ charge'[p] # charge[p] => charge[p] \in {"open", "captured"}
                        /\ charge[p] = "expired" => charge'[p] = "expired"
  BY DEF Environment, Pay, Decline, ExpireSession, DashboardRefund, StripeRefunds,
         OverlapInv, TypeOK
<1>4. \A e \in webhooks' \ webhooks : e.type = "session.expired" => charge'[e.order] = "expired"
  <2>1. CASE ExpireSession(o)
    <3>1. charge'[o] = "expired"
      BY <2>1 DEF ExpireSession, OverlapInv, TypeOK
    <3> QED
      BY <2>1, <3>1 DEF ExpireSession, Announce
  <2>2. CASE Pay(o) \/ Decline(o) \/ DashboardRefund(o)
    BY <2>2 DEF Pay, Decline, DashboardRefund, StripeRefunds, Announce
  <2> QED
    BY <2>1, <2>2 DEF Environment
<1>5. Outcome(o) /\ Backed
  BY <1>1, <1>3, <1>4 DEF db, Outcome, Resting, Backed
<1> QED
  BY <1>2, <1>5, RowsStep

\* Every step has one of these outcomes, and keeps the invariant.
LEMMA RowsKept ==
    ASSUME OverlapInv, TypeOK', OverlapInv', RowsInv, Next
    PROVE  (\E o \in Orders : Outcome(o)) /\ RowsInv'
<1>1. ASSUME NEW r \in Requests, Abandon(r)
      PROVE  (\E o \in Orders : Outcome(o)) /\ RowsInv'
  BY <1>1, RollBackRows DEF Abandon, Undone
<1> QED
  BY <1>1, CommitRows, ReceiveRows, LoadsRows, CheckoutRows, EnvironmentRows DEF Next

\* RowsInv holds of every reachable state, however the requests overlap.
THEOREM RowsCorrect == Spec => []RowsInv
<1>1. Init => RowsInv
  BY DEF Init, RowsInv, StageInv, FoundInv, ExpiryInv, OutboxAnnouncesRow, NoOrder, NoPayment
<1>2. OverlapInv /\ TypeOK' /\ OverlapInv' /\ RowsInv /\ [Next]_vars => RowsInv'
  <2> SUFFICES ASSUME OverlapInv, TypeOK', OverlapInv', RowsInv, [Next]_vars
               PROVE  RowsInv'
    OBVIOUS
  <2>1. CASE UNCHANGED vars
    BY <2>1 DEF vars, history, RowsInv, StageInv, FoundInv, ExpiryInv, OutboxAnnouncesRow
  <2> QED
    BY <2>1, RowsKept
<1> QED
  BY <1>1, <1>2, TypeCorrect, OverlapCorrect, PTL DEF Spec

\* The last event of an order tells its status, unless a request saved a row
\* another had changed meanwhile, or the order went on without its money.
THEOREM OutboxAnnouncesRowAlways == Spec => []OutboxAnnouncesRow
<1>1. RowsInv => OutboxAnnouncesRow
  BY DEF RowsInv
<1> QED
  BY <1>1, RowsCorrect, PTL

-----------------------------------------------------------------------------
(* The refinement of OrderContract *)

\* An order that turns makes the contract's move.
LEMMA TurnsMoves ==
    ASSUME TypeOK, TypeOK', NEW o \in Orders, NEW from, NEW to, NEW event,
           Turns(o, from, to, event)
    PROVE  Contract!Move(o, from, to)
<1>1. [p \in Orders |-> orders'[p].status] = [[p \in Orders |-> orders[p].status] EXCEPT ![o] = to]
  BY DEF Turns
<1>2. [p \in Orders |-> orders[p].status][o] \in from
  BY DEF Turns
<1> QED
  BY <1>1, <1>2 DEF Contract!Move

\* A ledger left alone but for the sale, or the refund, of o.
LEMMA BooksSold ==
    ASSUME TypeOK, TypeOK', NEW o \in Orders, Books(o), ledger'[o].sale >= 1,
           ledger'[o].refund = ledger[o].refund
    PROVE  /\ [p \in Orders |-> ledger'[p].sale > 0]
                = [[p \in Orders |-> ledger[p].sale > 0] EXCEPT ![o] = TRUE]
           /\ [p \in Orders |-> ledger'[p].refund > 0] = [p \in Orders |-> ledger[p].refund > 0]
<1>1. \A p \in Orders : p # o => ledger'[p] = ledger[p]
  BY DEF Books
<1>2. ledger'[o].sale > 0
  BY DEF TypeOK, LedgerRow
<1>3. \A p \in Orders : (ledger'[p].sale > 0) = (IF p = o THEN TRUE ELSE ledger[p].sale > 0)
  BY <1>1, <1>2
<1>4. \A p \in Orders : (ledger'[p].refund > 0) = (ledger[p].refund > 0)
  BY <1>1
<1> QED
  BY <1>3, <1>4

LEMMA BooksRefunded ==
    ASSUME TypeOK, TypeOK', NEW o \in Orders, Books(o), ledger'[o].sale = ledger[o].sale,
           ledger'[o].refund >= 1
    PROVE  /\ [p \in Orders |-> ledger'[p].refund > 0]
                = [[p \in Orders |-> ledger[p].refund > 0] EXCEPT ![o] = TRUE]
           /\ [p \in Orders |-> ledger'[p].sale > 0] = [p \in Orders |-> ledger[p].sale > 0]
<1>1. \A p \in Orders : p # o => ledger'[p] = ledger[p]
  BY DEF Books
<1>2. ledger'[o].refund > 0
  BY DEF TypeOK, LedgerRow
<1>3. \A p \in Orders : (ledger'[p].refund > 0) = (IF p = o THEN TRUE ELSE ledger[p].refund > 0)
  BY <1>1, <1>2
<1>4. \A p \in Orders : (ledger'[p].sale > 0) = (ledger[p].sale > 0)
  BY <1>1
<1> QED
  BY <1>3, <1>4

\* A stale save moves its order wherever its row had it.
LEMMA OvertakingMaps ==
    ASSUME TypeOK, TypeOK', NEW o \in Orders, Overtaking(o)
    PROVE  Contract!Overtake(o)
<1>1. raced' = raced \cup {o}
  BY DEF Overtaking
<1>2. [p \in Orders |-> orders'[p].status]
        = [[p \in Orders |-> orders[p].status] EXCEPT ![o] = orders'[o].status]
  BY DEF Overtaking
<1>3. \A p \in Orders \ {o} : ledger'[p] = ledger[p]
  BY DEF Overtaking, Books
<1>4. /\ ledger[o].sale > 0 => ledger'[o].sale > 0
      /\ ledger[o].refund > 0 => ledger'[o].refund > 0
  BY DEF Overtaking, TypeOK, LedgerRow
<1>5. [p \in Orders |-> ledger'[p].sale > 0]
        \in {[p \in Orders |-> ledger[p].sale > 0],
             [[p \in Orders |-> ledger[p].sale > 0] EXCEPT ![o] = TRUE]}
  <2>1. CASE (ledger'[o].sale > 0) = (ledger[o].sale > 0)
    BY <1>3, <2>1
  <2>2. CASE ledger'[o].sale > 0
    <3>1. \A p \in Orders : (ledger'[p].sale > 0) = (IF p = o THEN TRUE ELSE ledger[p].sale > 0)
      BY <1>3, <2>2
    <3> QED
      BY <3>1
  <2> QED
    BY <1>4, <2>1, <2>2
<1>6. [p \in Orders |-> ledger'[p].refund > 0]
        \in {[p \in Orders |-> ledger[p].refund > 0],
             [[p \in Orders |-> ledger[p].refund > 0] EXCEPT ![o] = TRUE]}
  <2>1. CASE (ledger'[o].refund > 0) = (ledger[o].refund > 0)
    BY <1>3, <2>1
  <2>2. CASE ledger'[o].refund > 0
    <3>1. \A p \in Orders : (ledger'[p].refund > 0) = (IF p = o THEN TRUE ELSE ledger[p].refund > 0)
      BY <1>3, <2>2
    <3> QED
      BY <3>1
  <2> QED
    BY <1>4, <2>1, <2>2
<1>7. stock' \in {stock, stock - Need[o], stock + Need[o]} \cap Nat
  BY DEF Overtaking, TypeOK
<1>8. orders'[o].status \in {"pricing_validated", "payment_pending", "queued", "preparing",
                             "ready", "picked_up", "refunded", "canceled"}
  BY DEF Overtaking
<1> QED
  BY <1>1, <1>2, <1>5, <1>6, <1>7, <1>8 DEF Contract!Overtake

\* Every outcome is a step of the contract, or none.
LEMMA OutcomeMaps ==
    ASSUME TypeOK, TypeOK', NEW o \in Orders, Outcome(o)
    PROVE  [Contract!Next]_(Contract!cvars)
<1>1. CASE Placing(o) /\ raced' = raced
  <2>1. Contract!Move(o, {"none"}, "pricing_validated")
    BY <1>1, TurnsMoves DEF Placing
  <2>2. Contract!Place(o)
    BY <1>1, <2>1 DEF Placing, Contract!Place
  <2> QED
    BY <2>2 DEF Contract!Next
<1>2. CASE Awaiting(o) /\ raced' = raced
  <2>1. Contract!Move(o, {"pricing_validated"}, "payment_pending")
    BY <1>2, TurnsMoves DEF Awaiting
  <2>2. Contract!Await(o)
    BY <1>2, <2>1 DEF Awaiting, Contract!Await
  <2> QED
    BY <2>2 DEF Contract!Next
<1>3. CASE Canceling(o) /\ raced' = raced
  <2>1. Contract!Move(o, {"pricing_validated", "payment_pending"}, "canceled")
    BY <1>3, TurnsMoves DEF Canceling
  <2>2. Contract!Cancel(o)
    BY <1>3, <2>1 DEF Canceling, Contract!Cancel
  <2> QED
    BY <2>2 DEF Contract!Next
<1>4. CASE Accepting(o) /\ raced' = raced
  <2>1. Contract!Move(o, {"payment_pending"}, "queued")
    BY <1>4, TurnsMoves DEF Accepting
  <2>2. Contract!Accept(o)
    BY <1>4, <2>1, BooksSold DEF Accepting, Contract!Accept
  <2> QED
    BY <2>2 DEF Contract!Next
<1>5. CASE Advancing(o) /\ raced' = raced
  <2>1. \/ Contract!Move(o, {"queued"}, "preparing")
        \/ Contract!Move(o, {"preparing"}, "ready")
        \/ Contract!Move(o, {"ready"}, "picked_up")
    BY <1>5, TurnsMoves DEF Advancing
  <2>2. Contract!Advance(o)
    BY <1>5, <2>1 DEF Advancing, Contract!Advance
  <2> QED
    BY <2>2 DEF Contract!Next
<1>6. CASE Refunding(o) /\ raced' = raced
  <2>1. Contract!Move(o, {"queued", "preparing"}, "refunded")
    BY <1>6, TurnsMoves DEF Refunding
  <2>2. Contract!Refund(o)
    BY <1>6, <2>1, BooksRefunded DEF Refunding, Contract!Refund
  <2> QED
    BY <2>2 DEF Contract!Next
<1>7. CASE Booking(o) /\ raced' = raced
  <2>1. Contract!BookPayment(o)
    BY <1>7, BooksSold DEF Booking, Contract!BookPayment
  <2> QED
    BY <2>1 DEF Contract!Next
<1>8. CASE (Repeating(o) \/ Resting) /\ raced' = raced
  BY <1>8 DEF Repeating, Resting, Contract!cvars
<1>9. CASE Overtaking(o)
  BY <1>9, OvertakingMaps DEF Contract!Next
<1> QED
  BY <1>1, <1>2, <1>3, <1>4, <1>5, <1>6, <1>7, <1>8, <1>9 DEF Outcome

\* The handlers implement the order contract, however their requests overlap.
THEOREM OrdersImplementContract == Spec => ImplementsContract
<1>1. Init => Contract!Init
  <2> SUFFICES ASSUME Init PROVE Contract!Init
    OBVIOUS
  <2>1. \A o \in Orders : /\ orders[o].status = "none"
                           /\ ledger[o].sale = 0 /\ ledger[o].refund = 0
    BY DEF Init, NoOrder
  <2>2. \A o \in Orders : (ledger[o].sale > 0) = FALSE /\ (ledger[o].refund > 0) = FALSE
    BY <2>1
  <2>3. stock = Stock /\ raced = {}
    BY DEF Init
  <2> QED
    BY <2>1, <2>2, <2>3 DEF Contract!Init
<1>2. OverlapInv /\ RowsInv /\ TypeOK' /\ OverlapInv' /\ [Next]_vars => [Contract!Next]_(Contract!cvars)
  <2> SUFFICES ASSUME OverlapInv, RowsInv, TypeOK', OverlapInv', [Next]_vars
               PROVE  [Contract!Next]_(Contract!cvars)
    OBVIOUS
  <2>1. CASE UNCHANGED vars
    BY <2>1 DEF vars, history, Contract!cvars
  <2>2. CASE Next
    <3>1. PICK o \in Orders : Outcome(o)
      BY <2>2, RowsKept
    <3> QED
      BY <3>1, OutcomeMaps DEF OverlapInv
  <2> QED
    BY <2>1, <2>2
<1> QED
  BY <1>1, <1>2, TypeCorrect, OverlapCorrect, RowsCorrect, PTL
     DEF Spec, ImplementsContract, Contract!Spec

-----------------------------------------------------------------------------
(* The units of the accepted orders *)

Holding == {o \in Orders : orders[o].status \in Accepted}

StockInv == raced = {} => IsFiniteSet(Holding) /\ StockMatchesOrders

\* Accepting an order takes its units, refunding it gives them back, and no
\* other outcome does either but a stale save.
LEMMA StockStep ==
    ASSUME TypeOK, StockInv, NEW o \in Orders, Outcome(o)
    PROVE  StockInv'
<1> SUFFICES ASSUME raced' = {}
             PROVE  IsFiniteSet(Holding') /\ StockMatchesOrders'
  BY DEF StockInv
<1>5. raced = {} /\ ~Overtaking(o)
  BY DEF Outcome, Overtaking
<1>1. /\ stock \in Nat /\ Stock \in Nat
      /\ \A p \in Orders : Need[p] \in Int
      /\ stock + SumFunctionOnSet(Need, Holding) = Stock
  BY <1>5, StockAssumption DEF TypeOK, StockInv, StockMatchesOrders, Holding
<1>2. CASE Accepting(o)
  <2>1. o \notin Holding /\ Holding' = Holding \cup {o}
    BY <1>2 DEF Accepting, Turns, Holding, Accepted
  <2>2. SumFunctionOnSet(Need, Holding \cup {o}) = SumFunctionOnSet(Need, Holding) + Need[o]
    BY <1>1, <2>1, <1>5, SumAdd DEF StockInv, Holding
  <2>3. SumFunctionOnSet(Need, Holding) \in Int
    BY <1>1, <1>5, SumType DEF StockInv, Holding
  <2>4. stock' + SumFunctionOnSet(Need, Holding') = Stock
    BY <1>1, <1>2, <2>1, <2>2, <2>3 DEF Accepting
  <2>5. IsFiniteSet(Holding')
    BY <1>5, <2>1, FS_AddElement DEF StockInv
  <2> QED
    BY <2>4, <2>5 DEF StockMatchesOrders, Holding
<1>3. CASE Refunding(o)
  <2>1. o \in Holding /\ Holding' = Holding \ {o}
    BY <1>3 DEF Refunding, Turns, Holding, Accepted
  <2>2. SumFunctionOnSet(Need, Holding) = Need[o] + SumFunctionOnSet(Need, Holding \ {o})
    BY <1>1, <2>1, <1>5, SumWithout DEF StockInv, Holding
  <2>3. IsFiniteSet(Holding \ {o})
    BY <1>5, FS_RemoveElement DEF StockInv
  <2>4. SumFunctionOnSet(Need, Holding \ {o}) \in Int
    BY <1>1, <2>3, SumType DEF Holding
  <2>5. stock' + SumFunctionOnSet(Need, Holding') = Stock
    BY <1>1, <1>3, <2>1, <2>2, <2>4 DEF Refunding
  <2> QED
    BY <2>1, <2>3, <2>5 DEF StockMatchesOrders, Holding
<1>4. CASE ~Accepting(o) /\ ~Refunding(o)
  <2>1. stock' = stock
    BY <1>4, <1>5 DEF Outcome, Placing, Awaiting, Canceling, Advancing, Booking, Repeating, Resting
  <2>2. \A p \in Orders : orders'[p].status \in Accepted <=> orders[p].status \in Accepted
    <3> TAKE p \in Orders
    <3>1. CASE orders'[p] = orders[p]
      BY <3>1
    <3>2. CASE orders'[p] # orders[p]
      BY <1>4, <1>5, <3>2 DEF Outcome, Placing, Awaiting, Canceling, Advancing, Booking,
                        Repeating, Resting, Turns, Accepted
    <3> QED
      BY <3>1, <3>2
  <2>3. Holding' = Holding
    BY <2>2 DEF Holding
  <2> QED
    BY <1>5, <2>1, <2>3 DEF StockInv, StockMatchesOrders, Holding
<1> QED
  BY <1>2, <1>3, <1>4

\* The units missing from the shelf are those of the accepted orders, as long as
\* no request has saved a row another had changed meanwhile.
THEOREM StockMatchesOrdersAlways == Spec => [](raced = {} => StockMatchesOrders)
<1>1. Init => StockInv
  <2> SUFFICES ASSUME Init PROVE StockInv
    OBVIOUS
  <2>1. Holding = {}
    BY DEF Init, Holding, NoOrder, Accepted
  <2>2. stock + SumFunctionOnSet(Need, Holding) = Stock
    BY <2>1, SumEmpty, StockAssumption DEF Init
  <2> QED
    BY <2>1, <2>2, FS_EmptySet DEF StockInv, StockMatchesOrders, Holding
<1>2. OverlapInv /\ RowsInv /\ TypeOK' /\ OverlapInv' /\ StockInv /\ [Next]_vars => StockInv'
  <2> SUFFICES ASSUME OverlapInv, RowsInv, TypeOK', OverlapInv', StockInv, [Next]_vars
               PROVE  StockInv'
    OBVIOUS
  <2>1. CASE UNCHANGED vars
    BY <2>1 DEF vars, history, StockInv, StockMatchesOrders, Holding
  <2>2. CASE Next
    <3>1. PICK o \in Orders : Outcome(o)
      BY <2>2, RowsKept
    <3> QED
      BY <3>1, StockStep DEF OverlapInv
  <2> QED
    BY <2>1, <2>2
<1>3. StockInv => (raced = {} => StockMatchesOrders)
  BY DEF StockInv
<1> QED
  BY <1>1, <1>2, <1>3, TypeCorrect, OverlapCorrect, RowsCorrect, PTL DEF Spec

=============================================================================
