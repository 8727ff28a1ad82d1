----------------------------- MODULE Storefront -----------------------------
(***************************************************************************)
(* From the cart to the locker (server/apps/orders: cart, views, selectors *)
(* and assign_pickup_locker).  The cart and the codes that let a guest see *)
(* an order live in the browser's session: a request loads the session     *)
(* when it starts, works on its copy, and saves the whole of it when its   *)
(* response leaves, if it has changed it.  Orders are rows that commit on  *)
(* their own, in between.                                                  *)
(*                                                                         *)
(* Browsers are those of guests: a customer who is signed in sees an order *)
(* by its row.  How a payment proceeds is OrderPayment's; here it succeeds *)
(* or fails.                                                               *)
(***************************************************************************)
EXTENDS Integers, FiniteSets

CONSTANTS
    Stores,
    Browsers,       \* one session each
    Requests,       \* web workers
    Combos,         \* pickup combos: three digits, drawn with no check
    Lockers,        \* pickup lockers of a store: L01 to L24
    Flows,          \* the payment set-ups tried: "mock", "hosted", "elements"
    MaxQuantity,    \* of CartQuantityForm
    MaxItems,       \* bound: drinks put into carts
    MaxOrders       \* bound: orders placed

ASSUME StoreAssumption == "none" \notin Stores
ASSUME LockerAssumption == Lockers \in Nat \ {0}
ASSUME FlowAssumption == Flows \subseteq {"mock", "hosted", "elements"}
ASSUME LimitAssumption == MaxQuantity \in Nat \ {0} /\ MaxItems \in Nat /\ MaxOrders \in Nat

VARIABLES
    session,     \* the stored session of each browser
    req,         \* the request each worker serves
    order,       \* Order rows with their items
    minted,      \* number of drinks put into carts so far
    flow,        \* the payment set-up, fixed
    disturbed,   \* history: browsers with two requests at once, or one that died
    crowded      \* history: stores that made two orders ready at once, or ran out of lockers

vars == <<session, req, order, minted, flow, disturbed, crowded>>

-----------------------------------------------------------------------------
None == "none"
OrderIds == 1 .. MaxOrders
Statuses == {"pricing_validated", "payment_pending", "queued", "preparing",
             "ready", "picked_up", "canceled"}
Settled == {"queued", "preparing", "ready", "picked_up"}

\* An item carries the store it was added for (store_code_snapshot).
Item == [id: 1 .. MaxItems, store: Stores, quantity: 1 .. MaxQuantity]
Cart == [store: Stores \cup {None}, items: SUBSET Item]
EmptyCart == [store |-> None, items |-> {}]

\* A guest sees an order by its lookup code, here its number, or by its combo.
Code == OrderIds \cup Combos

Session == [cart: Cart, codes: SUBSET Code]
NewSession == [cart |-> EmptyCart, codes |-> {}]

OrderRow == [by: Browsers, store: Stores, items: SUBSET Item, status: Statuses,
             combo: Combos, locker: 0 .. Lockers]
NoOrder == [status |-> None]

Idle == [op |-> "idle"]
Working == [op: {"browse"}, browser: Browsers, session: Session]
Paying == [op: {"pay"}, browser: Browsers, session: Session, order: OrderIds]
Readying == [op: {"ready"}, order: OrderIds, locker: 1 .. Lockers]

TypeOK ==
    /\ session \in [Browsers -> Session]
    /\ req \in [Requests -> {Idle} \cup Working \cup Paying \cup Readying]
    /\ order \in [OrderIds -> {NoOrder} \cup OrderRow]
    /\ minted \in 0 .. MaxItems
    /\ flow \in Flows
    /\ disturbed \subseteq Browsers
    /\ crowded \subseteq Stores

Init ==
    /\ session = [b \in Browsers |-> NewSession]
    /\ req = [r \in Requests |-> Idle]
    /\ order = [o \in OrderIds |-> NoOrder]
    /\ minted = 0
    /\ flow \in Flows
    /\ disturbed = {}
    /\ crowded = {}

-----------------------------------------------------------------------------
(* Requests and sessions *)

Placed == { o \in OrderIds : order[o] # NoOrder }
Serving(b) == { r \in Requests : req[r].op \in {"browse", "pay"} /\ req[r].browser = b }
Here(r) == req[r].session

Open(r, b) ==
    /\ req[r] = Idle
    /\ req' = [req EXCEPT ![r] = [op |-> "browse", browser |-> b, session |-> session[b]]]
    /\ disturbed' = IF Serving(b) = {} THEN disturbed ELSE disturbed \cup {b}
    /\ UNCHANGED <<session, order, minted, flow, crowded>>

\* The response leaves, and the session is saved as the request left it.
Save(r, changed) ==
    /\ session' = [session EXCEPT ![req[r].browser] = changed]
    /\ req' = [req EXCEPT ![r] = Idle]

\* A page that changes nothing, and every refusal: the session is not saved.
Leave(r) ==
    /\ req[r].op = "browse"
    /\ req' = [req EXCEPT ![r] = Idle]
    /\ UNCHANGED <<session, order, minted, flow, disturbed, crowded>>

\* The process is killed, or the view raises: what has committed stays, the
\* session is not saved.
Die(r) ==
    /\ req[r].op \in {"browse", "pay"}
    /\ req' = [req EXCEPT ![r] = Idle]
    /\ disturbed' = disturbed \cup {req[r].browser}
    /\ UNCHANGED <<session, order, minted, flow, crowded>>

-----------------------------------------------------------------------------
(* The cart *)

\* Mutant: the items for the other store stay.
Refilled_Mixed(cart, s, item) == [store |-> s, items |-> cart.items \cup {item}]

\* add_cart_item: a drink for another store starts the cart anew.
Refilled(cart, s, item) ==
    [store |-> s,
     items |-> (IF cart.store \in {s, None} THEN cart.items ELSE {}) \cup {item}]

\* The store is forgotten with the last item.
WithItems(cart, items) ==
    IF items = {} THEN EmptyCart ELSE [cart EXCEPT !.items = items]

\* CustomizeDrinkView and MenuAiAddToCartView, on the menu of any store, and
\* FavoriteAddToCartView, for the store posted or the preferred one.
AddDrink(r, s) ==
    /\ req[r].op = "browse"
    /\ minted < MaxItems
    /\ minted' = minted + 1
    /\ Save(r, [Here(r) EXCEPT !.cart =
                  Refilled(@, s, [id |-> minted + 1, store |-> s, quantity |-> 1])])
    /\ UNCHANGED <<order, flow, disturbed, crowded>>

\* CustomizeSwitchStoreView: only a cart with items of another store is reset.
SwitchStore(r, s) ==
    /\ req[r].op = "browse"
    /\ Here(r).cart.store \notin {s, None}
    /\ Save(r, [Here(r) EXCEPT !.cart = EmptyCart])
    /\ UNCHANGED <<order, minted, flow, disturbed, crowded>>

\* update_cart_item, and remove_cart_item for a quantity of 0.
SetQuantity(r, i, q) ==
    LET cart == Here(r).cart
        item == CHOOSE x \in cart.items : x.id = i
        rest == cart.items \ {item}
    IN  /\ req[r].op = "browse"
        /\ \E x \in cart.items : x.id = i
        /\ Save(r, [Here(r) EXCEPT !.cart =
                      WithItems(@, IF q = 0 THEN rest
                                   ELSE rest \cup {[item EXCEPT !.quantity = q]})])
        /\ UNCHANGED <<order, minted, flow, disturbed, crowded>>

-----------------------------------------------------------------------------
(* Checkout *)

\* authorize_guest_order_access: both codes of a guest's order.
Authorized(s, o, row) == [s EXCEPT !.codes = @ \cup {o, row.combo}]

\* CheckoutView.post up to create_order, whose rows commit; the combo is drawn.
\* An item of another store would have the cart cleared: OneStore says there is none.
Place(r) ==
    LET cart == Here(r).cart
        o == Cardinality(Placed) + 1
    IN  /\ req[r].op = "browse"
        /\ cart.items # {}
        /\ \A item \in cart.items : item.store = cart.store
        /\ o \in OrderIds
        /\ \E c \in Combos :
             LET row == [by |-> req[r].browser, store |-> cart.store, items |-> cart.items,
                         status |-> "pricing_validated", combo |-> c, locker |-> 0]
             IN  /\ order' = [order EXCEPT ![o] = row]
                 /\ req' = [req EXCEPT ![r] =
                              [op |-> "pay", browser |-> req[r].browser,
                               session |-> Authorized(Here(r), o, row), order |-> o]]
        /\ UNCHANGED <<session, minted, flow, disturbed, crowded>>

\* Where initialize_order_checkout leaves the order: paid in a demo, pending at
\* the hosted page, as it was where the card form follows.
Started == [mock |-> "queued", hosted |-> "payment_pending", elements |-> "pricing_validated"]

\* Mutant: the cart is not cleared.
Receipt_KeepsCart(s) == s

Receipt(s) == [s EXCEPT !.cart = EmptyCart]

StartPayment(r) ==
    LET o == req[r].order
    IN  /\ req[r].op = "pay"
        /\ order' = [order EXCEPT ![o].status = Started[flow]]
        /\ Save(r, Receipt(Here(r)))
        /\ UNCHANGED <<minted, flow, disturbed, crowded>>

\* Mutant: the guest's codes are added after the payment step.
PaymentRefused_Forgets(r) ==
    /\ req[r].op = "pay"
    /\ flow # "elements"
    /\ order' = [order EXCEPT ![req[r].order].status = IF flow = "mock" THEN "canceled" ELSE @]
    /\ req' = [req EXCEPT ![r] = Idle]
    /\ UNCHANGED <<session, minted, flow, disturbed, crowded>>

\* PaymentGatewayError: out of stock in a demo, which cancels the order, or no
\* hosted page.  The cart stays, for another try with another order.
PaymentRefused(r) ==
    LET o == req[r].order
    IN  /\ req[r].op = "pay"
        /\ flow # "elements"
        /\ order' = [order EXCEPT ![o].status = IF flow = "mock" THEN "canceled" ELSE @]
        /\ Save(r, Here(r))
        /\ UNCHANGED <<minted, flow, disturbed, crowded>>

\* The customer has the page to pay at, or its card form.
IsPayable(o) ==
    /\ \A r \in Requests : req[r].op = "pay" => req[r].order # o
    /\ \/ flow = "hosted" /\ order[o].status = "payment_pending"
       \/ flow = "elements" /\ order[o].status = "pricing_validated"

\* The customer has paid, and no page need come back: a webhook.
PaidByWebhook(o) ==
    /\ IsPayable(o)
    /\ order' = [order EXCEPT ![o].status = "queued"]
    /\ UNCHANGED <<session, req, minted, flow, disturbed, crowded>>

\* CheckoutSuccessView and PaymentIntentConfirmView, or CheckoutCancelView: the
\* customer comes back with the order's code, and the browser may see it.
ComeBack(r, o) ==
    /\ req[r].op = "browse"
    /\ order[o].by = req[r].browser
    /\ \/ /\ IsPayable(o)
          /\ \E status \in {"queued"} \cup (IF flow = "hosted" THEN {"canceled"} ELSE {}) :
               order' = [order EXCEPT ![o].status = status]
       \/ /\ order[o].status \in Settled
          /\ UNCHANGED order
    /\ Save(r, Authorized(Here(r), o, order[o]))
    /\ UNCHANGED <<minted, flow, disturbed, crowded>>

\* GuestLookupView: a combo must belong to one guest order; the code of an order
\* finds it always.
LookUp(r, code) ==
    LET matches == { o \in Placed : code \in {o, order[o].combo} }
    IN  /\ req[r].op = "browse"
        /\ Cardinality(matches) = 1
        /\ \E o \in matches : Save(r, Authorized(Here(r), o, order[o]))
        /\ UNCHANGED <<order, minted, flow, disturbed, crowded>>

-----------------------------------------------------------------------------
(* Staff *)

Readies(s) == { o \in Placed : order[o].store = s /\ order[o].status = "ready" }

Prepare(o) ==
    /\ order[o].status = "queued"
    /\ order' = [order EXCEPT ![o].status = "preparing"]
    /\ UNCHANGED <<session, req, minted, flow, disturbed, crowded>>

FreeLockers(o) ==
    1 .. Lockers \ { order[p].locker : p \in Readies(order[o].store) \ {o} }

\* Mutant: the lowest number, whoever has it.
LockerFor_First(o) == 1

\* assign_pickup_locker: the first free one; with none free, the number of the
\* store's orders decides.
LockerFor(o) ==
    IF FreeLockers(o) # {} THEN CHOOSE n \in FreeLockers(o) : \A k \in FreeLockers(o) : n <= k
    ELSE (Cardinality({ p \in Placed : order[p].store = order[o].store }) % Lockers) + 1

\* MarkReadyView: the lockers in use are read inside the transaction...
ReadReady(r, o) ==
    LET s == order[o].store
        others == { q \in Requests : req[q].op = "ready" /\ order[req[q].order].store = s }
    IN  /\ req[r] = Idle
        /\ order[o].status = "preparing"
        /\ req' = [req EXCEPT ![r] = [op |-> "ready", order |-> o, locker |-> LockerFor(o)]]
        /\ crowded' = IF others = {} /\ FreeLockers(o) # {} THEN crowded ELSE crowded \cup {s}
        /\ UNCHANGED <<session, order, minted, flow, disturbed>>

\* ...and the order is saved with its locker at the end.
SaveReady(r) ==
    LET o == req[r].order
    IN  /\ req[r].op = "ready"
        /\ order' = [order EXCEPT ![o].status = "ready", ![o].locker = req[r].locker]
        /\ req' = [req EXCEPT ![r] = Idle]
        /\ UNCHANGED <<session, minted, flow, disturbed, crowded>>

\* The locker's number stays on the order.
PickUp(o) ==
    /\ order[o].status = "ready"
    /\ order' = [order EXCEPT ![o].status = "picked_up"]
    /\ UNCHANGED <<session, req, minted, flow, disturbed, crowded>>

-----------------------------------------------------------------------------
Browse(r) ==
    \/ \E s \in Stores : AddDrink(r, s) \/ SwitchStore(r, s)
    \/ \E i \in 1 .. MaxItems, q \in 0 .. MaxQuantity : SetQuantity(r, i, q)
    \/ \E code \in Code : LookUp(r, code)
    \/ Leave(r)

Checkout(r) ==
    \/ Place(r)
    \/ StartPayment(r)
    \/ PaymentRefused(r)
    \/ \E o \in Placed : ComeBack(r, o)

Staff ==
    \/ \E o \in Placed : Prepare(o) \/ PickUp(o)
    \/ \E r \in Requests, o \in Placed : ReadReady(r, o)
    \/ \E r \in Requests : SaveReady(r)

Next ==
    \/ \E r \in Requests : (\E b \in Browsers : Open(r, b)) \/ Browse(r) \/ Checkout(r) \/ Die(r)
    \/ \E o \in Placed : PaidByWebhook(o)
    \/ Staff

Spec == Init /\ [][Next]_vars

-----------------------------------------------------------------------------
(* Properties *)

IsOneStore(cart) == \A item \in cart.items : item.store = cart.store

\* Every order belongs to one store: so does every cart, stored or in the hands
\* of a request, however the requests of a browser overlap.
OneStore ==
    /\ \A b \in Browsers : IsOneStore(session[b].cart)
    /\ \A r \in Requests : req[r].op \in {"browse", "pay"} => IsOneStore(Here(r).cart)
    /\ \A o \in Placed : IsOneStore([store |-> order[o].store, items |-> order[o].items])

\* A guest sees the orders placed from this browser, whether they could be paid
\* or not, unless the browser sent two requests at once or one of them died:
\* the later one saves the session it loaded.
OwnOrderVisible ==
    \A o \in Placed :
        LET b == order[o].by
        IN  b \notin disturbed =>
              \/ o \in session[b].codes
              \/ \E r \in Serving(b) : o \in Here(r).codes

\* No drink is sold twice: an item of a cart is in one settled order at most,
\* though a cart outlives a refused payment and a browser may order again;
\* unless requests of the browser overlapped or died.
SoldOnce ==
    \A o, p \in Placed :
        /\ o # p
        /\ order[o].by = order[p].by
        /\ order[o].by \notin disturbed
        /\ {order[o].status, order[p].status} \subseteq Settled
        => \A x \in order[o].items, y \in order[p].items : x.id # y.id

\* Two orders that wait at a store have lockers of their own, unless they were
\* made ready at the same time or the store has run out of lockers.
LockerExclusive ==
    \A o, p \in Placed :
        /\ o # p
        /\ order[o].status = "ready"
        /\ p \in Readies(order[o].store)
        /\ order[o].store \notin crowded
        => order[o].locker # order[p].locker
=============================================================================
