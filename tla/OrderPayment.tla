---------------------------- MODULE OrderPayment ----------------------------
(***************************************************************************)
(* Orders, their payment rows, the revenue ledger and the stock of one     *)
(* store (server/apps/orders, server/apps/payments and the part of         *)
(* server/apps/inventory they call), with Stripe as the environment.       *)
(*                                                                         *)
(* A Django view reads the order with no lock and no transaction around    *)
(* the view, then calls one service, which is one transaction and saves    *)
(* the whole row it holds in memory.  A request is therefore two steps: a  *)
(* load that takes a snapshot of the order and payment rows, and a commit  *)
(* that works from that snapshot.  With one element in Requests the        *)
(* handlers run one after another; with two they overlap.                  *)
(***************************************************************************)
EXTENDS Lifecycles, FiniteSetsExt

CONSTANTS
    Orders,      \* the orders customers may place
    Requests,    \* web workers, each serving one request at a time
    Flows,       \* the PAYMENT_MODE / PAYMENT_CHECKOUT_FLOW a deployment may have
    Need,        \* units of the one stocked item each order consumes
    Stock,       \* units on hand at the start
    MaxCrashes   \* bound: how many requests may die before their commit

ASSUME FlowAssumption == Flows \subseteq {"mock", "hosted", "elements"}
ASSUME StockAssumption == Stock \in Nat /\ Need \in [Orders -> Nat \ {0}]
ASSUME CrashAssumption == MaxCrashes \in Nat

VARIABLES
    flow,        \* the payment settings; a deployment does not change them
    orders,      \* Order row of each order
    payments,    \* PaymentTransaction row of each order
    ledger,      \* number of SALE and REFUND RevenueLedgerEntry rows
    outbox,      \* the last order.* event each order has in SyncOutboxEvent
    stock,       \* on_hand_quantity of the item at the store
    charge,      \* what Stripe holds for the order
    webhooks,    \* Stripe events that exist and may be delivered, any time
    seen,        \* PaymentWebhookEvent rows
    req,         \* the request each worker serves
    raced,       \* history: orders saved from a row another request had changed
    unpaid,      \* history: orders queued before Stripe had the money
    crashes

history == <<raced, unpaid>>
db == <<orders, payments, ledger, outbox, stock>>
vars == <<flow, orders, payments, ledger, outbox, stock, charge, webhooks, seen,
          req, raced, unpaid, crashes>>

-----------------------------------------------------------------------------
(* Rows *)

\* An order the store has accepted: finalize_* return early on these.
Accepted == {"queued", "preparing", "ready", "picked_up"}

\* queued stands for queued_at being set.
OrderRow == [status: OrderStatus, queued: BOOLEAN]
NoOrder == [status |-> "none", queued |-> FALSE]

PaymentStatus == {"none", "pending", "succeeded", "failed", "refunded"}

\* intent: stripe_payment_intent_id names the order's PaymentIntent;
\* captured, refunded: amount_captured and amount_refunded are not zero.
PaymentRow == [status: PaymentStatus, intent: BOOLEAN,
               captured: BOOLEAN, refunded: BOOLEAN]
NoPayment == [status |-> "none", intent |-> FALSE,
              captured |-> FALSE, refunded |-> FALSE]

LedgerRow == [sale: Nat, refund: Nat]

Charge == {"none", "open", "captured", "refunded", "expired"}

WebhookType == {"session.completed", "session.expired", "intent.succeeded",
                "intent.failed", "charge.refunded"}
Webhook == [type: WebhookType, order: Orders]

Op == {"begin", "complete", "intent", "finalize", "confirm", "fail", "refund",
       "transition"}

\* A request between its load and its commit: the rows it read, and the
\* status a staff transition asks for.
Request == [op: Op, order: Orders, row: OrderRow, pay: PaymentRow,
            to: OrderStatus]
Idle == [op |-> "idle"]

TypeOK ==
    /\ flow \in Flows
    /\ orders \in [Orders -> OrderRow]
    /\ payments \in [Orders -> PaymentRow]
    /\ ledger \in [Orders -> LedgerRow]
    /\ outbox \in [Orders -> OrderEvent]
    /\ stock \in Nat
    /\ charge \in [Orders -> Charge]
    /\ webhooks \subseteq Webhook
    /\ seen \subseteq Webhook
    /\ req \in [Requests -> Request \cup {Idle}]
    /\ raced \subseteq Orders
    /\ unpaid \subseteq Orders
    /\ crashes \in Nat

Init ==
    /\ flow \in Flows
    /\ orders = [o \in Orders |-> NoOrder]
    /\ payments = [o \in Orders |-> NoPayment]
    /\ ledger = [o \in Orders |-> [sale |-> 0, refund |-> 0]]
    /\ outbox = [o \in Orders |-> "none"]
    /\ stock = Stock
    /\ charge = [o \in Orders |-> "none"]
    /\ webhooks = {}
    /\ seen = {}
    /\ req = [r \in Requests |-> Idle]
    /\ raced = {}
    /\ unpaid = {}
    /\ crashes = 0

-----------------------------------------------------------------------------
(* The services the handlers share *)

\* transition_order_status, on the row held in memory.
Transition(row, s) ==
    [row EXCEPT !.status = s, !.queued = @ \/ s = "queued"]

\* get_refund_eligibility
RefundEligible(row, privileged) ==
    \/ row.status \in {"paid", "queued", "payment_pending"}
    \/ row.status = "preparing" /\ privileged

\* Loading the rows of o into a worker's memory.
Load(r, op, o, to) ==
    /\ req[r] = Idle
    /\ orders[o].status # "none"
    /\ req' = [req EXCEPT ![r] = [op |-> op, order |-> o, row |-> orders[o],
                                  pay |-> payments[o], to |-> to]]

Serving(r, op) == req[r] # Idle /\ req[r].op = op

Done(r) == req' = [req EXCEPT ![r] = Idle]

\* The transaction commits; raced notes that it worked from a stale row.
Noted(r) ==
    LET o == req[r].order
    IN  raced' = IF req[r].row = orders[o] THEN raced ELSE raced \cup {o}

\* An exception rolls the transaction back and ends the request.
RollBack(r) == Done(r) /\ UNCHANGED <<db, history>>

\* create_outbox_event; where one transaction writes several, the last of them.
Emit(o, event) == outbox' = [outbox EXCEPT ![o] = event]

\* record_payment_pending: the payment row is updated in place; the order row
\* in memory advances only if it was pricing_validated.
RecordPending(o, row, intent) ==
    /\ payments' = [payments EXCEPT ![o].status = "pending", ![o].intent = intent]
    /\ IF row.status = "pricing_validated"
       THEN /\ orders' = [orders EXCEPT ![o] = Transition(row, "payment_pending")]
            /\ Emit(o, "payment_pending")
       ELSE UNCHANGED <<orders, outbox>>
    /\ UNCHANGED <<ledger, stock>>

\* Mutant: a late payment revives a canceled order.
AfterSuccess_Revives(o, row) ==
    IF row.status \in {"payment_pending", "canceled"} THEN Transition(row, "paid")
                                                     ELSE orders[o]

\* The order after record_payment_success and refresh_from_db: the row this
\* transaction saved, or the database's when it saved none.
AfterSuccess(o, row) ==
    IF row.status = "payment_pending" THEN Transition(row, "paid")
                                      ELSE orders[o]

Queues(o, row) == AfterSuccess(o, row).status = "paid"

\* transition_order_status reserves inventory the first time an order is queued.
Reserves(o, row) == Queues(o, row) /\ ~AfterSuccess(o, row).queued

EnoughStock(o, row) == Reserves(o, row) => stock >= Need[o]

\* complete_checkout_payment, one transaction: payment, SALE entry, order
\* paid and queued, stock deducted.
CompletePayment(o, row, intent) ==
    LET after == AfterSuccess(o, row)
    IN  /\ EnoughStock(o, row)
        /\ payments' = [payments EXCEPT ![o].status = "succeeded",
                                        ![o].intent = intent,
                                        ![o].captured = TRUE]
        /\ ledger' = [ledger EXCEPT ![o].sale = IF @ = 0 THEN 1 ELSE @]
        /\ orders' = [orders EXCEPT ![o] = IF Queues(o, row) THEN Transition(after, "queued")
                                                            ELSE after]
        /\ stock' = IF Reserves(o, row) THEN stock - Need[o] ELSE stock
        /\ IF Queues(o, row) THEN Emit(o, "queued") ELSE UNCHANGED outbox

\* InventoryServiceError: the whole transaction is rolled back.
OutOfStock(o, row) == ~EnoughStock(o, row)

\* record_payment_failure: the payment row is overwritten whatever the order's
\* status; the order is canceled only if the row in memory is payment_pending.
RecordFailure(o, row, intent) ==
    LET cancels == row.status = "payment_pending"
    IN  /\ payments' = [payments EXCEPT ![o].status = "failed",
                                        ![o].intent = intent]
        /\ orders' = IF cancels
                     THEN [orders EXCEPT ![o] = Transition(row, "canceled")]
                     ELSE orders
        /\ Emit(o, "failed")
        /\ UNCHANGED <<ledger, stock>>

-----------------------------------------------------------------------------
(* Checkout *)

\* CheckoutView.post: create_order commits; elements checkouts end here, the
\* other flows go on to initialize_order_checkout in the same request.
Checkout(r, o) ==
    LET row == [NoOrder EXCEPT !.status = "pricing_validated"]
    IN  /\ req[r] = Idle
        /\ orders[o].status = "none"
        /\ orders' = [orders EXCEPT ![o] = row]
        /\ Emit(o, "created")
        /\ req' = IF flow = "elements" THEN req
                  ELSE [req EXCEPT ![r] = [op |-> "begin", order |-> o, row |-> row,
                                           pay |-> NoPayment, to |-> "none"]]
        /\ UNCHANGED <<payments, ledger, stock, charge, webhooks, seen, history, crashes, flow>>

\* initialize_order_checkout, hosted: the Stripe session is created, then the
\* pending payment recorded with the session's PaymentIntent if it has one yet.
BeginHosted(r) ==
    /\ flow = "hosted"
    /\ Serving(r, "begin")
    /\ \E intent \in BOOLEAN : RecordPending(req[r].order, req[r].row, intent)
    /\ charge' = [charge EXCEPT ![req[r].order] = "open"]
    /\ Done(r) /\ Noted(r)
    /\ UNCHANGED <<webhooks, seen, unpaid, crashes, flow>>

\* initialize_order_checkout, mock: pending first, and the same request goes on
\* to complete the payment in a second transaction.
BeginMock(r) ==
    /\ flow = "mock"
    /\ Serving(r, "begin")
    /\ RecordPending(req[r].order, req[r].row, TRUE)
    /\ req' = [req EXCEPT ![r].op = "complete",
                          ![r].row = Transition(@, "payment_pending")]
    /\ Noted(r)
    /\ UNCHANGED <<charge, webhooks, seen, unpaid, crashes, flow>>

\* Its second transaction; out of stock, the payment is recorded as failed
\* from a refreshed order row.
CompleteMock(r) ==
    /\ Serving(r, "complete")
    /\ \/ CompletePayment(req[r].order, req[r].row, TRUE)
       \/ /\ OutOfStock(req[r].order, req[r].row)
          /\ RecordFailure(req[r].order, orders[req[r].order], TRUE)
    /\ Done(r) /\ Noted(r)
    /\ UNCHANGED <<charge, webhooks, seen, unpaid, crashes, flow>>

\* PaymentIntentCreateView: refused unless the order awaits payment.
LoadIntent(r, o) ==
    /\ orders[o].status \in {"pricing_validated", "payment_pending"}
    /\ Load(r, "intent", o, "none")
    /\ UNCHANGED <<db, charge, webhooks, seen, history, crashes, flow>>

\* create_payment_intent_for_order.  The branch that hands back a pending
\* payment's existing intent writes nothing and is Abandon; this is the one
\* that creates the intent.  Only the elements page can pay it; in the hosted
\* flow it is not the intent of the customer's session.
CommitIntent(r) ==
    /\ Serving(r, "intent")
    /\ RecordPending(req[r].order, req[r].row, flow # "hosted")
    /\ charge' = IF flow = "elements" /\ charge[req[r].order] = "none"
                 THEN [charge EXCEPT ![req[r].order] = "open"] ELSE charge
    /\ Done(r) /\ Noted(r)
    /\ UNCHANGED <<webhooks, seen, unpaid, crashes, flow>>

-----------------------------------------------------------------------------
(* Payment outcome *)

\* Mutant: the session's payment_status is not looked at.
LoadSuccessPage_Unpaid(r, o) ==
    /\ flow = "hosted"
    /\ orders[o].status \notin Accepted
    /\ Load(r, "finalize", o, "none")
    /\ UNCHANGED <<db, charge, webhooks, seen, history, crashes, flow>>

\* CheckoutSuccessView: the browser comes back from a session that Stripe says
\* is paid, any number of times.
LoadSuccessPage(r, o) ==
    /\ flow = "hosted"
    /\ charge[o] \in {"captured", "refunded"}
    /\ orders[o].status \notin Accepted
    /\ Load(r, "finalize", o, "none")
    /\ UNCHANGED <<db, charge, webhooks, seen, history, crashes, flow>>

\* PaymentIntentConfirmView: the card form says it is done.  Stripe is not
\* asked whether it has the money.
LoadConfirm(r, o) ==
    /\ flow # "mock"
    /\ orders[o].status \notin Accepted
    /\ Load(r, "confirm", o, "none")
    /\ UNCHANGED <<db, charge, webhooks, seen, history, crashes, flow>>

\* finalize_stripe_checkout past its early return, and
\* finalize_stripe_payment_intent called by the webhook.
CommitFinalize(r) ==
    /\ Serving(r, "finalize")
    /\ \/ CompletePayment(req[r].order, req[r].row, TRUE) /\ Done(r) /\ Noted(r)
       \/ OutOfStock(req[r].order, req[r].row) /\ RollBack(r)
    /\ UNCHANGED <<charge, webhooks, seen, unpaid, crashes, flow>>

\* finalize_stripe_payment_intent called by the page.  In the hosted flow the
\* intent it names need not be that of the customer's session.
CommitConfirm(r) ==
    LET o == req[r].order  row == req[r].row
    IN  /\ Serving(r, "confirm")
        /\ \/ /\ \E intent \in {TRUE, flow # "hosted"} : CompletePayment(o, row, intent)
              /\ unpaid' = IF Queues(o, row) /\ charge[o] \notin {"captured", "refunded"}
                           THEN unpaid \cup {o} ELSE unpaid
              /\ Done(r) /\ Noted(r)
           \/ OutOfStock(o, row) /\ RollBack(r)
        /\ UNCHANGED <<charge, webhooks, seen, crashes, flow>>

\* Mutant: the back link fails the payment whatever the order's status.
LoadCancelPage_Unguarded(r, o) ==
    /\ Load(r, "fail", o, "none")
    /\ UNCHANGED <<db, charge, webhooks, seen, history, crashes, flow>>

\* CheckoutCancelView, reached from the hosted page by its back link.
LoadCancelPage(r, o) ==
    /\ orders[o].status = "payment_pending"
    /\ Load(r, "fail", o, "none")
    /\ UNCHANGED <<db, charge, webhooks, seen, history, crashes, flow>>

CommitFail(r) ==
    /\ Serving(r, "fail")
    /\ RecordFailure(req[r].order, req[r].row, FALSE)
    /\ Done(r) /\ Noted(r)
    /\ UNCHANGED <<charge, webhooks, seen, unpaid, crashes, flow>>

\* Mutant: completed sessions are left to the redirect.
Handled_NoSession(e) ==
    \/ e.type = "intent.succeeded" /\ orders[e.order].status \notin Accepted
    \/ e.type = "session.expired"

\* What StripeWebhookView.post, and the services' early returns, let through.
Handled(e) ==
    LET order == orders[e.order]  pay == payments[e.order]
    IN  \/ e.type \in {"session.completed", "intent.succeeded"} /\ order.status \notin Accepted
        \/ e.type = "intent.failed" /\ order.status = "payment_pending"
        \/ e.type = "session.expired"
        \/ /\ e.type = "charge.refunded"
           /\ pay.intent /\ pay.status # "refunded"
           /\ RefundEligible(order, FALSE)

\* StripeWebhookView.post up to the service call: the dedupe row is committed
\* first, then the handler of the event's type loads its rows, or returns.
Webhooks(r, e) ==
    LET op == CASE e.type \in {"session.completed", "intent.succeeded"} -> "finalize"
                [] e.type \in {"intent.failed", "session.expired"} -> "fail"
                [] e.type = "charge.refunded" -> "refund"
    IN  /\ req[r] = Idle
        /\ e \notin seen
        /\ seen' = seen \cup {e}
        /\ IF Handled(e) THEN Load(r, op, e.order, "none") ELSE UNCHANGED req
        /\ UNCHANGED <<db, charge, webhooks, history, crashes, flow>>

ReceiveWebhook(r) == \E e \in webhooks : Webhooks(r, e)

-----------------------------------------------------------------------------
(* Cancel, refund and fulfilment *)

\* OrderCancelView: an order with a payment is refunded if eligible, one with
\* none is canceled.
LoadCancel(r, o) ==
    /\ \/ /\ payments[o].status # "none"
          /\ \E privileged \in BOOLEAN : RefundEligible(orders[o], privileged)
          /\ Load(r, "refund", o, "none")
       \/ /\ payments[o].status = "none"
          /\ "canceled" \in Allowed[orders[o].status]
          /\ Load(r, "transition", o, "canceled")
    /\ UNCHANGED <<db, charge, webhooks, seen, history, crashes, flow>>

\* Stripe refunds a captured charge and announces it.
StripeRefunds(o) ==
    /\ charge[o] = "captured"
    /\ charge' = [charge EXCEPT ![o] = "refunded"]
    /\ webhooks' = webhooks \cup {[type |-> "charge.refunded", order |-> o]}

\* Mutants: a payment with no intent, or a charge already refunded, is passed
\* over instead of raising.
RemoteRefund_NoIntent(o, pay) ==
    IF flow = "mock" \/ ~pay.intent THEN UNCHANGED <<charge, webhooks>> ELSE StripeRefunds(o)
RemoteRefund_Again(o, pay) ==
    IF flow = "mock" \/ charge[o] = "refunded" THEN UNCHANGED <<charge, webhooks>>
                                               ELSE pay.intent /\ StripeRefunds(o)

\* _ensure_remote_refund_succeeded returning
RemoteRefund(o, pay) ==
    IF flow = "mock" THEN UNCHANGED <<charge, webhooks>> ELSE pay.intent /\ StripeRefunds(o)

\* Mutant: only a queued order's units are put back.
ReturnsUnits_Queued(row) == row.status = "queued"

ReturnsUnits(row) == row.status \in {"queued", "preparing", "ready"}

\* record_refund.  The remote refund comes before the transition, inside the
\* same transaction.
CommitRefund(r) ==
    LET o == req[r].order  row == req[r].row
    IN  /\ Serving(r, "refund")
        /\ RemoteRefund(o, req[r].pay)
        /\ "refund_pending" \in Allowed[row.status]
        /\ orders' = [orders EXCEPT ![o] =
                        Transition(Transition(row, "refund_pending"), "refunded")]
        /\ payments' = [payments EXCEPT ![o] = [req[r].pay EXCEPT !.status = "refunded",
                                                                  !.refunded = TRUE]]
        /\ ledger' = [ledger EXCEPT ![o] = [sale |-> IF @.sale = 0 THEN 1 ELSE @.sale,
                                            refund |-> @.refund + 1]]
        /\ stock' = IF ReturnsUnits(row) THEN stock + Need[o] ELSE stock
        /\ Emit(o, "refunded")
        /\ Done(r) /\ Noted(r)
        /\ UNCHANGED <<seen, unpaid, crashes, flow>>

\* record_refund raising: the remote refund fails, its answer is lost or not
\* "succeeded", or the transition is refused after it.  The rollback does not
\* undo what Stripe did.
RefundRaises(r) ==
    LET o == req[r].order
    IN  /\ Serving(r, "refund")
        /\ \/ flow # "mock" /\ UNCHANGED <<charge, webhooks>>
           \/ flow # "mock" /\ req[r].pay.intent /\ StripeRefunds(o)
           \/ /\ flow = "mock"
              /\ "refund_pending" \notin Allowed[req[r].row.status]
              /\ UNCHANGED <<charge, webhooks>>
        /\ RollBack(r)
        /\ UNCHANGED <<seen, crashes, flow>>

\* MarkPreparingView, MarkReadyView, MarkPickedUpView.
LoadMark(r, o) ==
    \E to \in {"preparing", "ready", "picked_up"} :
        /\ to \in Allowed[orders[o].status]
        /\ Load(r, "transition", o, to)
        /\ UNCHANGED <<db, charge, webhooks, seen, history, crashes, flow>>

CommitTransition(r) ==
    LET o == req[r].order
    IN  /\ Serving(r, "transition")
        /\ orders' = [orders EXCEPT ![o] = Transition(req[r].row, req[r].to)]
        /\ Emit(o, req[r].to)
        /\ Done(r) /\ Noted(r)
        /\ UNCHANGED <<payments, ledger, stock, charge, webhooks, seen, unpaid, crashes, flow>>

\* The request dies before its commit: the worker is killed, a Stripe call it
\* needs raises, or (intent) nothing is left to write.
Abandon(r) ==
    /\ req[r] # Idle
    /\ IF req[r].op = "intent" THEN UNCHANGED crashes
       ELSE crashes < MaxCrashes /\ crashes' = crashes + 1
    /\ RollBack(r)
    /\ UNCHANGED <<charge, webhooks, seen, flow>>

-----------------------------------------------------------------------------
(* Stripe and the customer's browser, outside the code *)

Announce(type, o) == webhooks' = webhooks \cup {[type |-> type, order |-> o]}

\* The customer pays; the hosted page and the card form stay open whatever the
\* store does to the order meanwhile.
Pay(o) ==
    /\ charge[o] = "open"
    /\ charge' = [charge EXCEPT ![o] = "captured"]
    /\ Announce(IF flow = "hosted" THEN "session.completed" ELSE "intent.succeeded", o)
    /\ UNCHANGED <<db, seen, req, history, crashes, flow>>

\* A card declined in the card form; the same intent may be tried again.  One
\* decline per order is announced.
Decline(o) ==
    /\ flow = "elements"
    /\ charge[o] = "open"
    /\ Announce("intent.failed", o)
    /\ UNCHANGED <<db, charge, seen, req, history, crashes, flow>>

ExpireSession(o) ==
    /\ flow = "hosted"
    /\ charge[o] = "open"
    /\ charge' = [charge EXCEPT ![o] = "expired"]
    /\ Announce("session.expired", o)
    /\ UNCHANGED <<db, seen, req, history, crashes, flow>>

\* A refund issued from the Stripe dashboard.
DashboardRefund(o) ==
    /\ StripeRefunds(o)
    /\ UNCHANGED <<db, seen, req, history, crashes, flow>>

-----------------------------------------------------------------------------
Commit(r) ==
    \/ BeginHosted(r)
    \/ BeginMock(r)
    \/ CompleteMock(r)
    \/ CommitIntent(r)
    \/ CommitFinalize(r)
    \/ CommitConfirm(r)
    \/ CommitFail(r)
    \/ CommitRefund(r)
    \/ RefundRaises(r)
    \/ CommitTransition(r)

Environment(o) == Pay(o) \/ Decline(o) \/ ExpireSession(o) \/ DashboardRefund(o)

Next ==
    \/ \E r \in Requests :
         \/ Commit(r)
         \/ Abandon(r)
         \/ ReceiveWebhook(r)
         \/ \E o \in Orders :
              \/ Checkout(r, o)
              \/ LoadIntent(r, o)
              \/ LoadSuccessPage(r, o)
              \/ LoadConfirm(r, o)
              \/ LoadCancelPage(r, o)
              \/ LoadCancel(r, o)
              \/ LoadMark(r, o)
    \/ \E o \in Orders : Environment(o)

Spec == Init /\ [][Next]_vars

\* Stripe's announcement of a capture is delivered.
ReceiveCapture(r, o) ==
    \E e \in webhooks : /\ e.order = o /\ e.type \in {"session.completed", "intent.succeeded"}
                        /\ Webhooks(r, e)

\* The workers finish the transaction they have begun, and Stripe repeats a
\* delivery until it is answered: a worker is free for it again and again, so
\* strong fairness, not weak.  Of the other webhooks nothing is assumed.
Fairness ==
    /\ \A r \in Requests : WF_vars(Commit(r))
    /\ \A o \in Orders : SF_vars(\E r \in Requests : ReceiveCapture(r, o))

FairSpec == Spec /\ Fairness

-----------------------------------------------------------------------------
(* Properties that hold however the requests overlap *)

Money(o) == IF flow = "mock" THEN {"none"} ELSE {"captured", "refunded"}

\* An order the store prepares has been paid: Stripe took the money (and may
\* have given it back since), the payment row says so, and a SALE entry exists.
\* Only where the page's confirmation of the intent queued the order may the
\* money be missing: nobody asked Stripe (finalize_stripe_payment_intent).
AcceptedWasPaid ==
    \A o \in Orders : orders[o].status \in Accepted =>
        /\ ledger[o].sale >= 1
        /\ payments[o].captured
        /\ charge[o] \in Money(o) \/ o \in unpaid

\* A refunded order has had its money returned by Stripe, and the ledger shows
\* the sale and the refund (record_refund, _ensure_sale_revenue_entry).
RefundedReturnsFunds ==
    \A o \in Orders : orders[o].status = "refunded" =>
        /\ ledger[o].sale >= 1 /\ ledger[o].refund >= 1
        /\ flow # "mock" => charge[o] = "refunded"

\* No order is refunded twice: Stripe refuses the second refund of a charge,
\* and that refusal comes before the ledger entry.
RefundBookedOnce ==
    flow # "mock" => \A o \in Orders : ledger[o].refund <= 1

\* PAID and REFUND_PENDING never survive a transaction, so no crash can leave
\* an order captured but not queued, or half refunded.
NoHalfwayOrder == \A o \in Orders : orders[o].status \notin {"paid", "refund_pending"}

-----------------------------------------------------------------------------
(* The inductive strengthening of these four.  A row may be stale: it is    *)
(* either the order's own or the one a request loaded earlier.  What makes  *)
(* the properties survive a stale save is that everything they ask of the   *)
(* ledger, the payment and Stripe only ever grows.                          *)

\* What a row, current or stale, says about its order.
RowHolds(row, led, pay, ch, fl, un) ==
    /\ row.status \notin {"paid", "refund_pending", "expired"}
    /\ row.status \in Accepted =>
         led.sale >= 1 /\ pay.captured
         /\ (ch \in (IF fl = "mock" THEN {"none"} ELSE {"captured", "refunded"}) \/ un)
    /\ row.status = "refunded" =>
         led.sale >= 1 /\ led.refund >= 1 /\ (fl # "mock" => ch = "refunded")

RowInv(row, o) == RowHolds(row, ledger[o], payments[o], charge[o], flow, o \in unpaid)

\* What a request knows of its order from its load on.
RequestInv(r) ==
    LET q == req[r]
    IN  q # Idle =>
          /\ RowInv(q.row, q.order)
          /\ q.row.status # "none" /\ orders[q.order].status # "none"
          /\ q.row.status \in Accepted => q.pay.captured
          /\ q.op = "begin" => /\ flow # "elements"
                               /\ q.row.status = "pricing_validated"
                               /\ charge[q.order] = "none"
          /\ q.op = "complete" => flow = "mock"
          /\ q.op = "finalize" => charge[q.order] \in {"captured", "refunded"}
          /\ q.op = "transition" =>
               /\ q.to \in Allowed[q.row.status]
               /\ q.to \in {"preparing", "ready", "picked_up", "canceled"}

\* The request that created an order is the only one to begin its payment.
BeginOnce ==
    \A r, s \in Requests :
        ( req[r] # Idle /\ req[s] # Idle /\ req[r].op = "begin" /\ req[s].op = "begin"
          /\ req[r].order = req[s].order ) => r = s

\* What Stripe holds agrees with what it announced and what was refunded.
StripeInv ==
    /\ flow = "mock" => \A o \in Orders : charge[o] = "none"
    /\ \A o \in Orders : orders[o].status = "none" => charge[o] = "none"
    /\ \A e \in webhooks : e.type \in {"session.completed", "intent.succeeded"}
                             => charge[e.order] \in {"captured", "refunded"}
    /\ flow # "mock" => \A o \in Orders :
         ledger[o].refund <= 1 /\ (ledger[o].refund = 1 => charge[o] = "refunded")

OverlapInv ==
    /\ TypeOK
    /\ \A o \in Orders : RowInv(orders[o], o)
    /\ \A r \in Requests : RequestInv(r)
    /\ BeginOnce
    /\ StripeInv

-----------------------------------------------------------------------------
(* Properties that hold as long as no request saves a stale row *)

\* The units missing from the shelf are those of the accepted orders.
StockMatchesOrders ==
    stock + SumFunctionOnSet(Need, {o \in Orders : orders[o].status \in Accepted}) = Stock

\* The last event of an order announces the status of its row, unless a stale
\* row was saved on it; an unpaid order is announced failed when its session
\* expires and goes on all the same.
OutboxAnnouncesRow ==
    \A o \in Orders \ (raced \cup unpaid) :
        \/ outbox[o] = orders[o].status
        \/ outbox[o] = "created" /\ orders[o].status = "pricing_validated"
        \/ outbox[o] = "failed" /\ orders[o].status = "canceled"

\* The handlers keep the promise of OrderContract.
Contract == INSTANCE OrderContract WITH
    status   <- [o \in Orders |-> orders[o].status],
    sold     <- [o \in Orders |-> ledger[o].sale > 0],
    refunded <- [o \in Orders |-> ledger[o].refund > 0]

ImplementsContract == Contract!Spec

(* Their inductive strengthening, of the orders that are not in raced: the  *)
(* commits on them worked from the rows the database still held.            *)

\* How far an order is agrees with what Stripe holds and what was recorded.
StageInv(o) ==
    LET s == orders[o].status
    IN  /\ s \in {"none", "pricing_validated", "payment_pending"} => ~orders[o].queued
        /\ s = "pricing_validated" => charge[o] = "none"
        /\ payments[o].status = "none" => ~payments[o].captured

\* The status in which a request found its order.
FoundInv(r) ==
    LET q == req[r]  s == q.row.status
    IN  q # Idle /\ q.order \notin raced =>
          /\ q.op = "intent" => s \in {"pricing_validated", "payment_pending"}
          /\ q.op = "complete" => s = "payment_pending"
          /\ q.op = "fail" /\ q.order \notin unpaid => s \in {"payment_pending", "canceled"}
          /\ q.op = "transition" /\ q.to = "canceled"
               => s \in {"pricing_validated", "payment_pending"}

\* A session is announced expired only when it is.
ExpiryInv == \A e \in webhooks : e.type = "session.expired" => charge[e.order] = "expired"

RowsInv ==
    /\ \A o \in Orders \ raced : StageInv(o)
    /\ \A r \in Requests : FoundInv(r)
    /\ ExpiryInv
    /\ OutboxAnnouncesRow

\* Stripe has announced the capture of o, and the announcement was received.
Told(o) == \E e \in seen : e.order = o /\ e.type \in {"session.completed", "intent.succeeded"}

\* Once Stripe has the money the order leaves payment_pending, from the
\* redirect or from the webhook, which is handled once: unless the units it
\* needs are gone by then, or its request dies.
CapturedIsSettled ==
    \A o \in Orders :
        charge[o] = "captured" /\ ~Told(o)
          ~> orders[o].status # "payment_pending" \/ stock < Need[o] \/ crashes > 0

-----------------------------------------------------------------------------
(* What the code says of a cancellation and does not do *)

\* "Refund is allowed before preparation begins": canceling an order at
\* payment_pending whose charge Stripe then refunds ends with it refunded.
PendingCancelIsRefunded ==
    [][\A r \in Requests :
         ( /\ Serving(r, "refund")
           /\ req[r].row.status = "payment_pending"
           /\ charge[req[r].order] = "captured"
           /\ charge'[req[r].order] = "refunded"
           /\ req'[r] = Idle )
         => orders'[req[r].order].status = "refunded"]_vars

=============================================================================
