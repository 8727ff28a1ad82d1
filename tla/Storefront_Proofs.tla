------------------------- MODULE Storefront_Proofs --------------------------
(***************************************************************************)
(* Machine-checked safety of Storefront for every set of stores, browsers  *)
(* and web workers, and any number of drinks, orders and lockers; and what *)
(* validate_pricing and the pickup form of its checkout promise for every  *)
(* amount and every minute.  No run reaches the operators of Pricing: they *)
(* are arithmetic, and are settled here for all numbers.                   *)
(*                                                                         *)
(* And what holds of the builder, a system of its own: of the profile that *)
(* is saved and read row by row, and of what is filled and recommended.    *)
(***************************************************************************)
EXTENDS Storefront, Builder, Pricing, FiniteSetTheorems, WellFoundedInduction, TLAPS

-----------------------------------------------------------------------------
(* Type correctness *)

\* What a worker holds, by the kind of its request.
LEMMA ReqTypes ==
    ASSUME TypeOK, NEW r \in Requests
    PROVE  /\ req[r].op \in {"idle", "browse", "pay", "ready"}
           /\ req[r].op = "browse" => req[r] \in Working
           /\ req[r].op = "pay" => req[r] \in Paying
           /\ req[r].op = "ready" => req[r] \in Readying
           /\ req[r].op \in {"browse", "pay"} => req[r].browser \in Browsers /\ Here(r) \in Session
BY DEF TypeOK, Idle, Working, Paying, Readying, Here

\* An order that is placed is a whole row.
LEMMA PlacedTypes ==
    ASSUME TypeOK, NEW o \in Placed
    PROVE  o \in OrderIds /\ order[o] \in OrderRow
BY DEF TypeOK, Placed

\* Placed orders are few enough to count.
LEMMA PlacedFinite ==
    ASSUME NEW S \in SUBSET OrderIds
    PROVE  IsFiniteSet(S) /\ Cardinality(S) \in Nat
<1>1. IsFiniteSet(OrderIds)
  BY LimitAssumption, FS_Interval DEF OrderIds
<1> QED
  BY <1>1, FS_Subset, FS_CardinalityType

\* The session a request saves.
LEMMA SaveTypes ==
    ASSUME TypeOK, NEW r \in Requests, req[r].op \in {"browse", "pay"},
           NEW changed \in Session, Save(r, changed)
    PROVE  /\ session' \in [Browsers -> Session]
           /\ req' \in [Requests -> {Idle} \cup Working \cup Paying \cup Readying]
BY ReqTypes DEF TypeOK, Save

\* A session with another cart, and what it keeps.
LEMMA CartTypes ==
    ASSUME NEW s \in Session, NEW c \in Cart
    PROVE  /\ s.cart \in Cart /\ s.codes \subseteq Code
           /\ [s EXCEPT !.cart = c] \in Session
           /\ [s EXCEPT !.cart = c].cart = c
           /\ [s EXCEPT !.cart = c].codes = s.codes
BY DEF Session

\* A session that may see one more order.
LEMMA CodeTypes ==
    ASSUME NEW s \in Session, NEW o \in OrderIds, NEW row \in OrderRow
    PROVE  /\ Authorized(s, o, row) \in Session
           /\ Authorized(s, o, row).cart = s.cart
           /\ Authorized(s, o, row).codes = s.codes \cup {o, row.combo}
<1>1. {o, row.combo} \subseteq Code
  BY DEF OrderRow, Code
<1> QED
  BY <1>1 DEF Session, Authorized

LEMMA EmptyIsCart == EmptyCart \in Cart /\ EmptyCart.items = {} /\ EmptyCart.store = None
BY DEF EmptyCart, Cart

LEMMA ReceiptTypes ==
    ASSUME NEW s \in Session
    PROVE  /\ Receipt(s) \in Session
           /\ Receipt(s).cart = EmptyCart /\ Receipt(s).codes = s.codes
BY EmptyIsCart DEF Receipt, Session

\* A non-empty finite set of numbers has a least one: its initial segments are
\* ordered by inclusion.
LEMMA SmallestExists ==
    ASSUME NEW S \in SUBSET Nat, S # {}, IsFiniteSet(S)
    PROVE  \E n \in S : \A k \in S : n <= k
<1> DEFINE below(n) == { x \in S : x < n }
           segments == { below(n) : n \in S }
<1>1. IsWellFoundedOn(StrictSubsetOrdering(S), SUBSET S)
  BY FS_StrictSubsetOrderingWellFounded, FS_FiniteSubsetsOfFinite
<1>2. segments \subseteq SUBSET S /\ segments # {}
  OBVIOUS
<1>3. PICK X \in segments : \A Y \in segments : ~ (<<Y, X>> \in StrictSubsetOrdering(S))
  BY <1>1, <1>2, WFMin
<1>4. PICK n \in S : X = below(n)
  BY <1>3
<1>5. ASSUME NEW k \in S, k < n
      PROVE  FALSE
  <2>1. below(k) \subseteq below(n) /\ below(k) # below(n)
    <3>1. ASSUME NEW x \in S, x < k
          PROVE  x < n
      BY <3>1, <1>5
    <3>2. k \in below(n) /\ k \notin below(k)
      BY <1>5
    <3> QED
      BY <3>1, <3>2
  <2>2. <<below(k), below(n)>> \in StrictSubsetOrdering(S)
    BY <2>1 DEF StrictSubsetOrdering
  <2> QED
    BY <2>2, <1>3, <1>4
<1>6. \A k \in S : n <= k
  BY <1>5
<1> QED
  BY <1>6

\* assign_pickup_locker gives one of the lockers, a free one when there is one.
LEMMA LockerFits ==
    ASSUME TypeOK, NEW o \in OrderIds
    PROVE  /\ LockerFor(o) \in 1 .. Lockers
           /\ FreeLockers(o) # {} => LockerFor(o) \in FreeLockers(o)
<1>1. CASE FreeLockers(o) # {}
  <2>1. FreeLockers(o) \in SUBSET Nat /\ FreeLockers(o) \subseteq 1 .. Lockers
    BY LockerAssumption DEF FreeLockers
  <2>2. IsFiniteSet(1 .. Lockers)
    BY LockerAssumption, FS_Interval
  <2>3. IsFiniteSet(FreeLockers(o))
    BY <2>1, <2>2, FS_Subset
  <2> QED
    BY <1>1, <2>1, <2>3, SmallestExists DEF LockerFor
<1>2. CASE FreeLockers(o) = {}
  <2> DEFINE there == { p \in Placed : order[p].store = order[o].store }
  <2>1. Cardinality(there) \in Nat
    BY PlacedFinite DEF Placed
  <2>2. Cardinality(there) % Lockers \in 0 .. Lockers - 1
    BY <2>1, LockerAssumption
  <2> QED
    BY <1>2, <2>2, LockerAssumption DEF LockerFor
<1> QED
  BY <1>1, <1>2

\* add_cart_item, update_cart_item and remove_cart_item leave a cart.
LEMMA RefilledTypes ==
    ASSUME NEW c \in Cart, NEW s \in Stores, NEW n \in 1 .. MaxItems
    PROVE  Refilled(c, s, [id |-> n, store |-> s, quantity |-> 1]) \in Cart
<1>1. [id |-> n, store |-> s, quantity |-> 1] \in Item
  BY LimitAssumption DEF Item
<1> QED
  BY <1>1 DEF Cart, Refilled

LEMMA WithItemsTypes ==
    ASSUME NEW c \in Cart, NEW items \in SUBSET Item
    PROVE  WithItems(c, items) \in Cart
BY EmptyIsCart DEF Cart, WithItems

LEMMA SetQuantityTypes ==
    ASSUME NEW c \in Cart, NEW i, \E x \in c.items : x.id = i, NEW q \in 0 .. MaxQuantity
    PROVE  LET item == CHOOSE x \in c.items : x.id = i
               rest == c.items \ {item}
           IN  /\ item \in c.items /\ item.id = i
               /\ rest \in SUBSET Item
               /\ q # 0 => [item EXCEPT !.quantity = q] \in Item
<1> DEFINE item == CHOOSE x \in c.items : x.id = i
<1>1. item \in c.items /\ item.id = i
  OBVIOUS
<1>2. c.items \subseteq Item
  BY DEF Cart
<1>3. q # 0 => q \in 1 .. MaxQuantity
  BY LimitAssumption
<1> QED
  BY <1>1, <1>2, <1>3 DEF Item

\* The row CheckoutView.post makes.
LEMMA PlaceTypes ==
    ASSUME TypeOK, NEW r \in Requests, req[r].op = "browse", Here(r).cart.items # {},
           NEW c \in Combos, IsOneStore(Here(r).cart)
    PROVE  [by |-> req[r].browser, store |-> Here(r).cart.store, items |-> Here(r).cart.items,
            status |-> "pricing_validated", combo |-> c, locker |-> 0] \in OrderRow
<1>1. req[r].browser \in Browsers /\ Here(r).cart \in Cart
  BY ReqTypes DEF Session
<1>2. Here(r).cart.items \subseteq Item /\ Here(r).cart.store \in Stores
  <2>1. PICK x \in Here(r).cart.items : TRUE
    OBVIOUS
  <2> QED
    BY <1>1, <2>1 DEF IsOneStore, Cart, Item
<1>3. 0 \in 0 .. Lockers
  BY LockerAssumption
<1> QED
  BY <1>1, <1>2, <1>3 DEF OrderRow, Statuses

\* What the three ways of changing a cart have in common: the items of the new
\* cart were in the old one, but for the drink just made.
CartSaved(r, c) ==
    /\ c \in Cart
    /\ Save(r, [Here(r) EXCEPT !.cart = c])
    /\ minted' \in minted .. MaxItems
    /\ IsOneStore(Here(r).cart) => IsOneStore(c)
    /\ \A x \in c.items : \/ x.id = minted + 1 /\ minted' = minted + 1
                          \/ \E y \in Here(r).cart.items : y.id = x.id

LEMMA CartStep ==
    ASSUME TypeOK, NEW r \in Requests,
           \/ \E s \in Stores : AddDrink(r, s) \/ SwitchStore(r, s)
           \/ \E i \in 1 .. MaxItems, q \in 0 .. MaxQuantity : SetQuantity(r, i, q)
    PROVE  /\ \E c : CartSaved(r, c)
           /\ req[r].op = "browse"
           /\ UNCHANGED <<order, flow, disturbed, crowded>>
<1>1. minted \in 0 .. MaxItems /\ MaxItems \in Nat
  BY LimitAssumption DEF TypeOK
<1>2. req[r].op = "browse" => Here(r) \in Session /\ Here(r).cart \in Cart
  BY ReqTypes DEF Session
<1>3. ASSUME NEW s \in Stores, AddDrink(r, s)
      PROVE  \E c : CartSaved(r, c)
  <2> DEFINE item == [id |-> minted + 1, store |-> s, quantity |-> 1]
             c == Refilled(Here(r).cart, s, item)
  <2>1. c \in Cart
    BY <1>1, <1>2, <1>3, RefilledTypes DEF AddDrink
  <2>2. IsOneStore(Here(r).cart) => IsOneStore(c)
    <3>1. \A x \in Here(r).cart.items : x.store # None
      BY <1>2, <1>3, StoreAssumption DEF AddDrink, Cart, Item, None
    <3> QED
      BY <3>1 DEF IsOneStore, Refilled
  <2>3. \A x \in c.items : x.id = minted + 1 \/ \E y \in Here(r).cart.items : y.id = x.id
    BY DEF Refilled
  <2>4. Save(r, [Here(r) EXCEPT !.cart = c]) /\ minted' = minted + 1 /\ minted < MaxItems
    BY <1>3 DEF AddDrink
  <2>5. minted' \in minted .. MaxItems
    BY <1>1, <2>4
  <2> HIDE DEF c
  <2>6. CartSaved(r, c)
    BY <2>1, <2>2, <2>3, <2>4, <2>5 DEF CartSaved
  <2> QED
    BY <2>6
<1>4. ASSUME NEW s \in Stores, SwitchStore(r, s)
      PROVE  \E c : CartSaved(r, c)
  <2>1. CartSaved(r, EmptyCart)
    BY <1>1, <1>2, <1>4, EmptyIsCart DEF SwitchStore, CartSaved, IsOneStore
  <2> QED
    BY <2>1
<1>5. ASSUME NEW i \in 1 .. MaxItems, NEW q \in 0 .. MaxQuantity, SetQuantity(r, i, q)
      PROVE  \E c : CartSaved(r, c)
  <2> DEFINE cart == Here(r).cart
             item == CHOOSE x \in cart.items : x.id = i
             rest == cart.items \ {item}
             items == IF q = 0 THEN rest ELSE rest \cup {[item EXCEPT !.quantity = q]}
             c == WithItems(cart, items)
  <2>1. cart \in Cart /\ \E x \in cart.items : x.id = i
    BY <1>2, <1>5 DEF SetQuantity
  <2>2. /\ item \in cart.items /\ item.id = i
        /\ rest \in SUBSET Item
        /\ q # 0 => [item EXCEPT !.quantity = q] \in Item
    <3> HIDE DEF cart
    <3> QED
      BY <2>1, SetQuantityTypes
  <2>3. /\ q # 0 => /\ [item EXCEPT !.quantity = q].id = item.id
                    /\ [item EXCEPT !.quantity = q].store = item.store
    <3>1. item \in Item
      BY <2>1, <2>2 DEF Cart
    <3> HIDE DEF item
    <3> QED
      BY <3>1 DEF Item
  <2> HIDE DEF item
  <2>4. /\ items \in SUBSET Item
        /\ \A x \in items : \E y \in cart.items : y.id = x.id /\ y.store = x.store
    BY <2>2, <2>3
  <2>5. Save(r, [Here(r) EXCEPT !.cart = c])
    BY <1>5 DEF SetQuantity, item
  <2> HIDE DEF items
  <2>6. /\ c \in Cart
        /\ IsOneStore(cart) => IsOneStore(c)
        /\ \A x \in c.items : \E y \in cart.items : y.id = x.id
    <3>1. c \in Cart
      BY <2>1, <2>4, WithItemsTypes
    <3>2. \A x \in c.items : x \in items
      BY EmptyIsCart, <2>1 DEF WithItems, Cart
    <3>3. c.items # {} => c.store = cart.store
      BY EmptyIsCart, <2>1 DEF WithItems, Cart
    <3> QED
      BY <2>4, <3>1, <3>2, <3>3 DEF IsOneStore
  <2>7. minted' \in minted .. MaxItems
    BY <1>1, <1>5 DEF SetQuantity
  <2> HIDE DEF c
  <2>8. CartSaved(r, c)
    BY <2>5, <2>6, <2>7 DEF CartSaved
  <2> QED
    BY <2>8
<1>6. /\ req[r].op = "browse"
      /\ UNCHANGED <<order, flow, disturbed, crowded>>
  BY DEF AddDrink, SwitchStore, SetQuantity
<1> QED
  BY <1>3, <1>4, <1>5, <1>6

\* A status is all that most actions write of an order.
LEMMA StatusWritten ==
    ASSUME TypeOK, NEW o \in Placed, NEW status \in Statuses,
           order' = [order EXCEPT ![o].status = status]
    PROVE  /\ order' \in [OrderIds -> {NoOrder} \cup OrderRow]
           /\ Placed' = Placed
           /\ \A p \in OrderIds : p # o => order'[p] = order[p]
           /\ order'[o].status = status
           /\ \A p \in Placed : /\ order'[p].by = order[p].by
                                /\ order'[p].store = order[p].store
                                /\ order'[p].items = order[p].items
                                /\ order'[p].combo = order[p].combo
                                /\ order'[p].locker = order[p].locker
<1>1. o \in OrderIds /\ order[o] \in OrderRow
  BY PlacedTypes
<1>2. [order[o] EXCEPT !.status = status] \in OrderRow
  BY <1>1 DEF OrderRow
<1>3. \A row \in OrderRow : row # NoOrder
  BY DEF OrderRow, NoOrder, None, Statuses
<1>4. order'[o] = [order[o] EXCEPT !.status = status]
  BY <1>1 DEF TypeOK
<1>5. \A p \in OrderIds : p # o => order'[p] = order[p]
  BY DEF TypeOK
<1>6. order' \in [OrderIds -> {NoOrder} \cup OrderRow]
  BY <1>1, <1>2 DEF TypeOK
<1>7. Placed' = Placed
  BY <1>1, <1>2, <1>3, <1>4, <1>5 DEF Placed
<1>8. /\ order'[o].status = status /\ order'[o].by = order[o].by
      /\ order'[o].store = order[o].store /\ order'[o].items = order[o].items
      /\ order'[o].combo = order[o].combo /\ order'[o].locker = order[o].locker
  BY <1>1, <1>4 DEF OrderRow
<1> QED
  BY <1>5, <1>6, <1>7, <1>8 DEF Placed

\* Orders are numbered as they come.
PlacedInOrder == Placed = 1 .. Cardinality(Placed)

\* The order that a worker holds: being paid, it is as it was placed; being
\* made ready, it has left the queue.
OrderHeld ==
    \A r \in Requests :
        /\ req[r].op \in {"pay", "ready"} => req[r].order \in Placed
        /\ req[r].op = "pay" =>
             /\ order[req[r].order].status = "pricing_validated"
             /\ order[req[r].order].by = req[r].browser
             /\ \A q \in Requests : req[q].op = "pay" /\ req[q].order = req[r].order => q = r
        /\ req[r].op = "ready" =>
             order[req[r].order].status \in {"preparing", "ready", "picked_up"}

Sound == TypeOK /\ PlacedInOrder /\ OrderHeld

\* The new order of CheckoutView.post.
NewRow(r, o, c) ==
    [by |-> req[r].browser, store |-> Here(r).cart.store, items |-> Here(r).cart.items,
     status |-> "pricing_validated", combo |-> c, locker |-> 0]

OrderMade(r, o, c) ==
    /\ o \in OrderIds /\ o \notin Placed /\ c \in Combos
    /\ NewRow(r, o, c) \in OrderRow
    /\ order'[o] = NewRow(r, o, c)
    /\ \A p \in OrderIds : p # o => order'[p] = order[p]
    /\ Placed' = Placed \cup {o}
    /\ req' = [req EXCEPT ![r] =
                 [op |-> "pay", browser |-> req[r].browser,
                  session |-> Authorized(Here(r), o, NewRow(r, o, c)), order |-> o]]

LEMMA PlaceStep ==
    ASSUME TypeOK, PlacedInOrder, NEW r \in Requests, Place(r)
    PROVE  /\ \E o, c : OrderMade(r, o, c)
           /\ TypeOK' /\ PlacedInOrder'
           /\ req[r].op = "browse" /\ IsOneStore(Here(r).cart)
           /\ UNCHANGED <<session, minted, flow, disturbed, crowded>>
<1> DEFINE o == Cardinality(Placed) + 1
<1>1. PICK c \in Combos :
        /\ order' = [order EXCEPT ![o] = NewRow(r, o, c)]
        /\ req' = [req EXCEPT ![r] =
                     [op |-> "pay", browser |-> req[r].browser,
                      session |-> Authorized(Here(r), o, NewRow(r, o, c)), order |-> o]]
  BY DEF Place, NewRow
<1>2. Placed \subseteq OrderIds /\ Cardinality(Placed) \in Nat
  BY PlacedFinite DEF Placed
<1>3. o \in OrderIds /\ o \notin Placed /\ Placed \cup {o} = 1 .. o
  BY <1>2 DEF Place, PlacedInOrder
<1>4. req[r].op = "browse" /\ IsOneStore(Here(r).cart)
  BY DEF Place, IsOneStore
<1>5. NewRow(r, o, c) \in OrderRow
  BY <1>4, PlaceTypes DEF Place, NewRow
<1> HIDE DEF o
<1>6. order'[o] = NewRow(r, o, c) /\ \A p \in OrderIds : p # o => order'[p] = order[p]
  BY <1>1, <1>3 DEF TypeOK
<1>7. NewRow(r, o, c) # NoOrder
  BY DEF NewRow, NoOrder, None
<1>8. Placed' = Placed \cup {o}
  BY <1>3, <1>6, <1>7 DEF Placed
<1>9. OrderMade(r, o, c)
  BY <1>1, <1>3, <1>5, <1>6, <1>8 DEF OrderMade
<1>10. PlacedInOrder'
  <2>1. o \in Nat /\ 1 <= o
    BY <1>3, LimitAssumption DEF OrderIds
  <2>2. Cardinality(1 .. o) = IF 1 > o THEN 0 ELSE o - 1 + 1
    BY <2>1, FS_Interval
  <2>3. Cardinality(1 .. o) = o
    BY <2>1, <2>2
  <2> QED
    BY <1>3, <1>8, <2>3 DEF PlacedInOrder
<1>11. TypeOK'
  <2>1. /\ Authorized(Here(r), o, NewRow(r, o, c)) \in Session
        /\ req[r].browser \in Browsers
    BY <1>3, <1>4, <1>5, ReqTypes, CodeTypes
  <2>2. req' \in [Requests -> {Idle} \cup Working \cup Paying \cup Readying]
    BY <1>1, <1>3, <2>1 DEF TypeOK, Paying
  <2>3. order' \in [OrderIds -> {NoOrder} \cup OrderRow]
    BY <1>1, <1>3, <1>5 DEF TypeOK
  <2> QED
    BY <2>2, <2>3 DEF TypeOK, Place
<1> QED
  BY <1>4, <1>9, <1>10, <1>11 DEF Place

\* A request that ends holds no order any more; the others hold what they held.
LEMMA HeldAfterEnd ==
    ASSUME TypeOK, OrderHeld, NEW r \in Requests, req' = [req EXCEPT ![r] = Idle],
           Placed' = Placed,
           \A q \in Requests \ {r} :
              req[q].op \in {"pay", "ready"} =>
                 /\ order'[req[q].order].by = order[req[q].order].by
                 /\ order'[req[q].order].status = order[req[q].order].status
    PROVE  OrderHeld'
<1>1. req'[r].op = "idle" /\ \A q \in Requests \ {r} : req'[q] = req[q]
  BY DEF TypeOK, Idle
<1> QED
  BY <1>1 DEF OrderHeld

\* A status changes while no request pays for the order.
LEMMA HeldAfterStatus ==
    ASSUME TypeOK, OrderHeld, NEW o \in Placed, NEW status \in Statuses,
           order' = [order EXCEPT ![o].status = status], UNCHANGED req,
           \A q \in Requests : req[q].op = "pay" => req[q].order # o,
           order[o].status \in {"preparing", "ready", "picked_up"}
             => status \in {"preparing", "ready", "picked_up"}
    PROVE  OrderHeld'
<1>1. /\ Placed' = Placed /\ order'[o].status = status /\ order'[o].by = order[o].by
      /\ \A p \in OrderIds : p # o => order'[p] = order[p]
  BY StatusWritten
<1>2. ASSUME NEW r \in Requests, req[r].op = "pay"
      PROVE  req[r].order # o /\ order'[req[r].order] = order[req[r].order]
  BY <1>1, <1>2 DEF OrderHeld, Placed
<1>3. ASSUME NEW r \in Requests, req[r].op = "ready"
      PROVE  order'[req[r].order].status \in {"preparing", "ready", "picked_up"}
  <2>1. req[r].order \in OrderIds
    BY <1>3 DEF OrderHeld, Placed
  <2> QED
    BY <1>1, <1>3, <2>1 DEF OrderHeld
<1> QED
  BY <1>1, <1>2, <1>3 DEF OrderHeld

\* What the payment step writes of its order.
LEMMA PaymentStatus ==
    ASSUME Sound, NEW r \in Requests, StartPayment(r) \/ PaymentRefused(r)
    PROVE  /\ req[r].op = "pay" /\ req[r].order \in Placed
           /\ order[req[r].order].status = "pricing_validated"
           /\ \E status \in Statuses : order' = [order EXCEPT ![req[r].order].status = status]
<1> USE DEF Sound
<1> DEFINE o == req[r].order
<1>1. o \in Placed /\ order[o].status = "pricing_validated" /\ req[r].op = "pay"
  BY DEF StartPayment, PaymentRefused, OrderHeld
<1>2. CASE StartPayment(r)
  <2>1. Started[flow] \in Statuses
    BY FlowAssumption DEF TypeOK, Started, Statuses
  <2> QED
    BY <1>1, <1>2, <2>1 DEF StartPayment
<1>3. CASE PaymentRefused(r)
  <2> DEFINE status == IF flow = "mock" THEN "canceled" ELSE order[o].status
  <2>1. status \in Statuses
    BY <1>1 DEF Statuses
  <2>2. order' = [order EXCEPT ![o].status = status]
    BY <1>3 DEF PaymentRefused
  <2> QED
    BY <1>1, <2>1, <2>2
<1> QED
  BY <1>2, <1>3

\* What MarkReadyView writes of its order.
LEMMA ReadyRow ==
    ASSUME Sound, NEW r \in Requests, SaveReady(r)
    PROVE  /\ req[r].order \in Placed
           /\ order' \in [OrderIds -> {NoOrder} \cup OrderRow]
           /\ Placed' = Placed
           /\ \A p \in Placed :
                 /\ order'[p].by = order[p].by
                 /\ order'[p].store = order[p].store
                 /\ order'[p].items = order[p].items
                 /\ order'[p].status = IF p = req[r].order THEN "ready" ELSE order[p].status
                 /\ order'[p].locker = IF p = req[r].order THEN req[r].locker ELSE order[p].locker
<1> USE DEF Sound
<1> DEFINE o == req[r].order
           row == [order[o] EXCEPT !.status = "ready", !.locker = req[r].locker]
<1>1. req[r] \in Readying /\ o \in Placed /\ o \in OrderIds /\ order[o] \in OrderRow
  BY ReqTypes, PlacedTypes DEF SaveReady, OrderHeld
<1>2. /\ row \in OrderRow /\ row.status = "ready" /\ row.by = order[o].by
      /\ row.store = order[o].store /\ row.items = order[o].items
      /\ row.locker = req[r].locker
  <2>1. req[r].locker \in 0 .. Lockers /\ "ready" \in Statuses
    BY <1>1, LockerAssumption DEF Readying, Statuses
  <2> QED
    BY <1>1, <2>1 DEF OrderRow
<1>3. row # NoOrder
  BY <1>2 DEF NoOrder, None
<1>4. order' = [order EXCEPT ![o] = row]
  BY DEF SaveReady
<1> HIDE DEF row
<1>5. order' \in [OrderIds -> {NoOrder} \cup OrderRow]
  BY <1>1, <1>2, <1>4 DEF TypeOK
<1>6. order'[o] = row /\ \A p \in OrderIds : p # o => order'[p] = order[p]
  BY <1>1, <1>4 DEF TypeOK
<1>7. Placed' = Placed
  BY <1>1, <1>3, <1>6 DEF Placed
<1> QED
  BY <1>1, <1>2, <1>5, <1>6, <1>7 DEF Placed

LEMMA SoundStep == Sound /\ [Next]_vars => Sound'
<1> SUFFICES ASSUME Sound, [Next]_vars
             PROVE  Sound'
  OBVIOUS
<1> USE DEF Sound
<1>1. ASSUME NEW r \in Requests, NEW b \in Browsers, Open(r, b)
      PROVE  Sound'
  <2>1. TypeOK'
    BY <1>1 DEF Open, Working, TypeOK
  <2>2. req'[r].op = "browse" /\ \A q \in Requests \ {r} : req'[q] = req[q]
    BY <1>1 DEF Open, TypeOK
  <2>3. OrderHeld' /\ PlacedInOrder'
    BY <1>1, <2>2 DEF Open, OrderHeld, PlacedInOrder, Placed
  <2> QED
    BY <2>1, <2>3
<1>2. ASSUME NEW r \in Requests, Leave(r) \/ Die(r)
      PROVE  Sound'
  <2>1. TypeOK'
    BY <1>2, ReqTypes DEF Leave, Die, TypeOK
  <2>2. PlacedInOrder' /\ Placed' = Placed
    BY <1>2 DEF Leave, Die, PlacedInOrder, Placed
  <2>3. OrderHeld'
    BY <1>2, <2>2, HeldAfterEnd DEF Leave, Die
  <2> QED
    BY <2>1, <2>2, <2>3
<1>3. ASSUME NEW r \in Requests,
             \/ \E s \in Stores : AddDrink(r, s) \/ SwitchStore(r, s)
             \/ \E i \in 1 .. MaxItems, q \in 0 .. MaxQuantity : SetQuantity(r, i, q)
      PROVE  Sound'
  <2>1. PICK c : CartSaved(r, c)
    BY <1>3, CartStep
  <2>2. req[r].op = "browse" /\ UNCHANGED <<order, flow, disturbed, crowded>>
    BY <1>3, CartStep
  <2>3. [Here(r) EXCEPT !.cart = c] \in Session
    BY <2>1, <2>2, ReqTypes, CartTypes DEF CartSaved
  <2>4. minted' \in 0 .. MaxItems
    BY <2>1, LimitAssumption DEF CartSaved, TypeOK
  <2>5. TypeOK'
    BY <2>1, <2>2, <2>3, <2>4, SaveTypes DEF CartSaved, TypeOK
  <2>6. PlacedInOrder' /\ Placed' = Placed
    BY <2>2 DEF PlacedInOrder, Placed
  <2>7. OrderHeld'
    BY <2>1, <2>2, <2>6, HeldAfterEnd DEF CartSaved, Save
  <2> QED
    BY <2>5, <2>6, <2>7
<1>4. ASSUME NEW r \in Requests, NEW code, LookUp(r, code)
      PROVE  Sound'
  <2>1. PICK o \in Placed : Save(r, Authorized(Here(r), o, order[o]))
    BY <1>4 DEF LookUp
  <2>2. Authorized(Here(r), o, order[o]) \in Session
    BY <1>4, ReqTypes, PlacedTypes, CodeTypes DEF LookUp
  <2>3. TypeOK'
    BY <1>4, <2>1, <2>2, SaveTypes DEF LookUp, TypeOK
  <2>4. PlacedInOrder' /\ Placed' = Placed
    BY <1>4 DEF LookUp, PlacedInOrder, Placed
  <2>5. OrderHeld'
    BY <1>4, <2>1, <2>4, HeldAfterEnd DEF LookUp, Save
  <2> QED
    BY <2>3, <2>4, <2>5
<1>5. ASSUME NEW r \in Requests, NEW o \in Placed, ComeBack(r, o)
      PROVE  Sound'
  <2>1. req[r].op = "browse" /\ Save(r, Authorized(Here(r), o, order[o]))
        /\ UNCHANGED <<minted, flow, disturbed, crowded>>
    BY <1>5 DEF ComeBack
  <2>2. Authorized(Here(r), o, order[o]) \in Session
    BY <2>1, ReqTypes, PlacedTypes, CodeTypes
  <2>3. /\ session' \in [Browsers -> Session]
        /\ req' \in [Requests -> {Idle} \cup Working \cup Paying \cup Readying]
    BY <2>1, <2>2, SaveTypes
  <2>4. CASE UNCHANGED order
    <3>1. PlacedInOrder' /\ Placed' = Placed
      BY <2>4 DEF PlacedInOrder, Placed
    <3>2. OrderHeld'
      BY <2>1, <2>4, <3>1, HeldAfterEnd DEF Save
    <3> QED
      BY <2>1, <2>3, <2>4, <3>1, <3>2 DEF TypeOK
  <2>5. ASSUME IsPayable(o), NEW status \in {"queued", "canceled"},
               order' = [order EXCEPT ![o].status = status]
        PROVE  Sound'
    <3>1. status \in Statuses
      BY DEF Statuses
    <3>2. /\ order' \in [OrderIds -> {NoOrder} \cup OrderRow] /\ Placed' = Placed
          /\ \A p \in OrderIds : p # o => order'[p] = order[p]
      BY <2>5, <3>1, StatusWritten
    <3>3. \A q \in Requests : req[q].op \in {"pay", "ready"} => req[q].order # o
      BY <2>5 DEF IsPayable, OrderHeld
    <3>4. \A q \in Requests : req[q].op \in {"pay", "ready"} =>
             order'[req[q].order] = order[req[q].order]
      BY <3>2, <3>3 DEF OrderHeld, Placed
    <3>5. OrderHeld'
      BY <2>1, <3>2, <3>4, HeldAfterEnd DEF Save
    <3> QED
      BY <2>1, <2>3, <3>2, <3>5 DEF TypeOK, PlacedInOrder
  <2> QED
    BY <1>5, <2>4, <2>5 DEF ComeBack
<1>6. ASSUME NEW r \in Requests, Place(r)
      PROVE  Sound'
  <2>1. TypeOK' /\ PlacedInOrder'
    BY <1>6, PlaceStep
  <2>2. PICK o, c : OrderMade(r, o, c)
    BY <1>6, PlaceStep
  <2>3. /\ req'[r].op = "pay" /\ req'[r].order = o /\ req'[r].browser = req[r].browser
        /\ \A q \in Requests \ {r} : req'[q] = req[q]
    BY <2>2 DEF OrderMade, TypeOK
  <2>4. order'[o].status = "pricing_validated" /\ order'[o].by = req[r].browser
    BY <2>2 DEF OrderMade, NewRow
  <2>5. \A p \in Placed : p # o /\ p \in Placed' /\ order'[p] = order[p]
    BY <2>2 DEF OrderMade, Placed
  <2>6. o \in Placed'
    BY <2>2 DEF OrderMade
  <2>7. OrderHeld'
    BY <2>3, <2>4, <2>5, <2>6 DEF OrderHeld
  <2> QED
    BY <2>1, <2>7
<1>7. ASSUME NEW r \in Requests, StartPayment(r) \/ PaymentRefused(r)
      PROVE  Sound'
  <2> DEFINE o == req[r].order
  <2>1. o \in Placed /\ order[o].status = "pricing_validated" /\ req[r].op = "pay"
    BY <1>7, PaymentStatus
  <2>2. \E status \in Statuses : order' = [order EXCEPT ![o].status = status]
    BY <1>7, PaymentStatus
  <2>3. \E changed \in Session : Save(r, changed)
    BY <1>7, <2>1, ReqTypes, CartTypes, EmptyIsCart DEF StartPayment, PaymentRefused, Receipt
  <2>4. /\ order' \in [OrderIds -> {NoOrder} \cup OrderRow] /\ Placed' = Placed
        /\ \A p \in OrderIds : p # o => order'[p] = order[p]
    BY <2>1, <2>2, StatusWritten
  <2>5. TypeOK'
    BY <1>7, <2>1, <2>3, <2>4, SaveTypes DEF TypeOK, StartPayment, PaymentRefused
  <2>6. \A q \in Requests \ {r} : req[q].op \in {"pay", "ready"} => req[q].order # o
    BY <1>7, <2>1 DEF OrderHeld
  <2>7. \A q \in Requests \ {r} : req[q].op \in {"pay", "ready"} =>
           order'[req[q].order] = order[req[q].order]
    BY <2>4, <2>6 DEF OrderHeld, Placed
  <2>8. req' = [req EXCEPT ![r] = Idle]
    BY <2>3 DEF Save
  <2>9. OrderHeld'
    BY <2>4, <2>7, <2>8, HeldAfterEnd
  <2> QED
    BY <2>4, <2>5, <2>9 DEF PlacedInOrder
<1>8. ASSUME NEW o \in Placed, PaidByWebhook(o) \/ Prepare(o) \/ PickUp(o)
      PROVE  Sound'
  <2>1. PICK status \in {"queued", "preparing", "picked_up"} :
          order' = [order EXCEPT ![o].status = status]
    BY <1>8 DEF PaidByWebhook, Prepare, PickUp
  <2>2. status \in Statuses
    BY DEF Statuses
  <2>3. /\ order' \in [OrderIds -> {NoOrder} \cup OrderRow] /\ Placed' = Placed
    BY <2>1, <2>2, StatusWritten
  <2>4. \A q \in Requests : req[q].op = "pay" => req[q].order # o
    BY <1>8 DEF PaidByWebhook, IsPayable, Prepare, PickUp, OrderHeld
  <2>5. order[o].status \in {"preparing", "ready", "picked_up"}
          => status \in {"preparing", "ready", "picked_up"}
    <3>1. CASE PaidByWebhook(o)
      BY <3>1 DEF PaidByWebhook, IsPayable
    <3>2. CASE Prepare(o) \/ PickUp(o)
      BY <2>1, <2>3, <3>2, StatusWritten, <2>2 DEF Prepare, PickUp, Statuses
    <3> QED
      BY <1>8, <3>1, <3>2
  <2>6. OrderHeld'
    BY <1>8, <2>1, <2>2, <2>4, <2>5, HeldAfterStatus DEF PaidByWebhook, Prepare, PickUp
  <2> QED
    BY <1>8, <2>3, <2>6 DEF TypeOK, PlacedInOrder, PaidByWebhook, Prepare, PickUp
<1>9. ASSUME NEW r \in Requests, NEW o \in Placed, ReadReady(r, o)
      PROVE  Sound'
  <2>1. o \in OrderIds /\ order[o] \in OrderRow /\ LockerFor(o) \in 1 .. Lockers
    BY PlacedTypes, LockerFits
  <2>2. req' = [req EXCEPT ![r] = [op |-> "ready", order |-> o, locker |-> LockerFor(o)]]
    BY <1>9 DEF ReadReady
  <2>3. order[o].store \in Stores
    BY <2>1 DEF OrderRow
  <2>4. TypeOK'
    BY <1>9, <2>1, <2>2, <2>3 DEF ReadReady, TypeOK, Readying
  <2>5. /\ req'[r].op = "ready" /\ req'[r].order = o
        /\ \A q \in Requests \ {r} : req'[q] = req[q]
    BY <2>2 DEF TypeOK
  <2>6. OrderHeld' /\ PlacedInOrder'
    BY <1>9, <2>5 DEF ReadReady, OrderHeld, PlacedInOrder, Placed
  <2> QED
    BY <2>4, <2>6
<1>10. ASSUME NEW r \in Requests, SaveReady(r)
       PROVE  Sound'
  <2> DEFINE o == req[r].order
  <2>1. /\ o \in Placed /\ order' \in [OrderIds -> {NoOrder} \cup OrderRow] /\ Placed' = Placed
        /\ \A p \in Placed : /\ order'[p].by = order[p].by
                             /\ order'[p].status = IF p = o THEN "ready" ELSE order[p].status
    BY <1>10, ReadyRow
  <2>2. /\ order[o].status \in {"preparing", "ready", "picked_up"}
        /\ \A q \in Requests \ {r} : req[q].op = "pay" => req[q].order # o
    BY <1>10 DEF SaveReady, OrderHeld
  <2>3. /\ req'[r].op = "idle" /\ \A q \in Requests \ {r} : req'[q] = req[q]
        /\ req' \in [Requests -> {Idle} \cup Working \cup Paying \cup Readying]
    BY <1>10 DEF SaveReady, TypeOK, Idle
  <2>4. OrderHeld'
    BY <2>1, <2>2, <2>3 DEF OrderHeld
  <2> QED
    BY <1>10, <2>1, <2>3, <2>4 DEF SaveReady, TypeOK, PlacedInOrder
<1>11. CASE UNCHANGED vars
  BY <1>11 DEF vars, TypeOK, PlacedInOrder, OrderHeld, Placed
<1> QED
  BY <1>1, <1>2, <1>3, <1>4, <1>5, <1>6, <1>7, <1>8, <1>9, <1>10, <1>11
  DEF Next, Browse, Checkout, Staff

LEMMA SoundInit == Init => Sound
<1> SUFFICES ASSUME Init
             PROVE  Sound
  OBVIOUS
<1>1. Placed = {}
  BY DEF Init, Placed
<1>2. PlacedInOrder
  BY <1>1, FS_EmptySet DEF PlacedInOrder
<1>3. NewSession \in Session
  BY EmptyIsCart DEF NewSession, Session
<1>4. TypeOK
  BY <1>3, LimitAssumption DEF Init, TypeOK
<1>5. OrderHeld
  BY DEF Init, OrderHeld, Idle
<1> QED
  BY <1>2, <1>4, <1>5 DEF Sound

\* Sessions, requests and orders keep their shape, orders are numbered as they
\* come, and an order that is being paid stays as it was placed.
THEOREM SoundAlways == Spec => []Sound
BY SoundInit, SoundStep, PTL DEF Spec

\* Every session, request and order keeps its shape: a placed order is a whole
\* row whatever wrote it (views and selectors of orders).
THEOREM TypeCorrect == Spec => []TypeOK
<1>1. Sound => TypeOK
  BY DEF Sound
<1> QED
  BY <1>1, SoundAlways, PTL

-----------------------------------------------------------------------------
(* One store in every cart and order *)

\* The session a request saves, as it reaches the store and leaves the worker.
LEMMA SavedSession ==
    ASSUME TypeOK, NEW r \in Requests, req[r].op \in {"browse", "pay"}, NEW changed,
           Save(r, changed)
    PROVE  /\ req[r].browser \in Browsers
           /\ session'[req[r].browser] = changed
           /\ \A b \in Browsers : b # req[r].browser => session'[b] = session[b]
           /\ req'[r].op = "idle"
           /\ \A q \in Requests : q # r => req'[q] = req[q]
BY ReqTypes DEF Save, TypeOK, Idle

LEMMA OneStoreStep == Sound /\ OneStore /\ [Next]_vars => OneStore'
<1> SUFFICES ASSUME Sound, OneStore, [Next]_vars
             PROVE  OneStore'
  OBVIOUS
<1> USE DEF Sound
<1>1. ASSUME NEW r \in Requests, NEW changed, Save(r, changed), IsOneStore(changed.cart),
             req[r].op \in {"browse", "pay"},
             Placed' = Placed,
             \A p \in Placed : /\ order'[p].store = order[p].store
                               /\ order'[p].items = order[p].items
      PROVE  OneStore'
  <2>1. /\ req[r].browser \in Browsers
        /\ session'[req[r].browser] = changed
        /\ \A b \in Browsers : b # req[r].browser => session'[b] = session[b]
        /\ req'[r].op = "idle"
        /\ \A q \in Requests : q # r => req'[q] = req[q]
    BY <1>1, SavedSession
  <2>2. \A b \in Browsers : IsOneStore(session'[b].cart)
    BY <1>1, <2>1 DEF OneStore
  <2>3. \A q \in Requests : req'[q].op \in {"browse", "pay"} => IsOneStore(req'[q].session.cart)
    BY <2>1 DEF OneStore, Here
  <2>4. \A p \in Placed : IsOneStore([store |-> order'[p].store, items |-> order'[p].items])
    BY <1>1 DEF OneStore
  <2> QED
    BY <1>1, <2>2, <2>3, <2>4 DEF OneStore, Here
<1>2. ASSUME UNCHANGED session,
             \A q \in Requests : req'[q].op \in {"browse", "pay"} => IsOneStore(req'[q].session.cart),
             Placed' = Placed,
             \A p \in Placed : /\ order'[p].store = order[p].store
                               /\ order'[p].items = order[p].items
      PROVE  OneStore'
  <2>1. \A p \in Placed : IsOneStore([store |-> order'[p].store, items |-> order'[p].items])
    BY <1>2 DEF OneStore
  <2> QED
    BY <1>2, <2>1 DEF OneStore, Here
<1>3. ASSUME NEW r \in Requests, NEW b \in Browsers, Open(r, b)
      PROVE  OneStore'
  <2>1. /\ req'[r].session = session[b]
        /\ \A q \in Requests : q # r => req'[q] = req[q]
    BY <1>3 DEF Open, TypeOK
  <2> QED
    BY <1>2, <1>3, <2>1 DEF Open, OneStore, Here, Placed
<1>4. ASSUME NEW r \in Requests, Leave(r) \/ Die(r)
      PROVE  OneStore'
  <2>1. req'[r].op = "idle" /\ \A q \in Requests : q # r => req'[q] = req[q]
    BY <1>4 DEF Leave, Die, TypeOK, Idle
  <2> QED
    BY <1>2, <1>4, <2>1 DEF Leave, Die, OneStore, Here, Placed
<1>5. ASSUME NEW r \in Requests,
             \/ \E s \in Stores : AddDrink(r, s) \/ SwitchStore(r, s)
             \/ \E i \in 1 .. MaxItems, q \in 0 .. MaxQuantity : SetQuantity(r, i, q)
      PROVE  OneStore'
  <2>1. PICK c : CartSaved(r, c)
    BY <1>5, CartStep
  <2>2. req[r].op = "browse" /\ UNCHANGED order
    BY <1>5, CartStep
  <2>3. IsOneStore(Here(r).cart)
    BY <2>2 DEF OneStore
  <2>4. [Here(r) EXCEPT !.cart = c].cart = c
    BY <2>1, <2>2, ReqTypes, CartTypes DEF CartSaved
  <2> QED
    BY <1>1, <2>1, <2>2, <2>3, <2>4 DEF CartSaved, Placed
<1>6. ASSUME NEW r \in Requests, NEW o \in Placed, req[r].op = "browse",
             Save(r, Authorized(Here(r), o, order[o])),
             Placed' = Placed,
             \A p \in Placed : /\ order'[p].store = order[p].store
                               /\ order'[p].items = order[p].items
      PROVE  OneStore'
  <2>1. Authorized(Here(r), o, order[o]).cart = Here(r).cart
    BY <1>6, ReqTypes, PlacedTypes, CodeTypes
  <2>2. IsOneStore(Here(r).cart)
    BY <1>6 DEF OneStore
  <2> QED
    BY <1>1, <1>6, <2>1, <2>2
<1>7. ASSUME NEW o \in Placed, NEW status \in Statuses,
             order' = [order EXCEPT ![o].status = status]
      PROVE  /\ Placed' = Placed
             /\ \A p \in Placed : /\ order'[p].store = order[p].store
                                  /\ order'[p].items = order[p].items
  BY <1>7, StatusWritten
<1>8. ASSUME NEW r \in Requests, NEW code, LookUp(r, code)
      PROVE  OneStore'
  <2>1. PICK o \in Placed : Save(r, Authorized(Here(r), o, order[o]))
    BY <1>8 DEF LookUp
  <2> QED
    BY <1>6, <1>8, <2>1 DEF LookUp, Placed
<1>9. ASSUME NEW r \in Requests, NEW o \in Placed, ComeBack(r, o)
      PROVE  OneStore'
  <2>1. \/ UNCHANGED order
        \/ \E status \in Statuses : order' = [order EXCEPT ![o].status = status]
    BY <1>9 DEF ComeBack, Statuses
  <2>2. /\ Placed' = Placed
        /\ \A p \in Placed : /\ order'[p].store = order[p].store
                             /\ order'[p].items = order[p].items
    BY <1>7, <2>1 DEF Placed
  <2> QED
    BY <1>6, <1>9, <2>2 DEF ComeBack
<1>10. ASSUME NEW r \in Requests, Place(r)
       PROVE  OneStore'
  <2>1. PICK o, c : OrderMade(r, o, c)
    BY <1>10, PlaceStep
  <2>2. req[r].op = "browse" /\ IsOneStore(Here(r).cart) /\ UNCHANGED session
    BY <1>10, PlaceStep
  <2>3. order'[o].store = Here(r).cart.store /\ order'[o].items = Here(r).cart.items
    BY <2>1 DEF OrderMade, NewRow
  <2>4. \A p \in Placed : p # o /\ order'[p] = order[p]
    BY <2>1 DEF OrderMade, Placed
  <2>5. \A p \in Placed' : IsOneStore([store |-> order'[p].store, items |-> order'[p].items])
    BY <2>1, <2>2, <2>3, <2>4 DEF OrderMade, OneStore, IsOneStore
  <2>6. req'[r].session = Authorized(Here(r), o, NewRow(r, o, c))
        /\ \A q \in Requests : q # r => req'[q] = req[q]
    BY <2>1 DEF OrderMade, TypeOK
  <2>7. req'[r].session.cart = Here(r).cart
    BY <2>1, <2>2, <2>6, ReqTypes, CodeTypes DEF OrderMade
  <2> QED
    BY <2>2, <2>5, <2>6, <2>7 DEF OneStore, Here
<1>11. ASSUME NEW r \in Requests, StartPayment(r) \/ PaymentRefused(r)
       PROVE  OneStore'
  <2> DEFINE o == req[r].order
  <2>1. req[r].op = "pay" /\ o \in Placed /\ IsOneStore(Here(r).cart)
    BY <1>11 DEF StartPayment, PaymentRefused, OneStore, OrderHeld
  <2>2. \E status \in Statuses : order' = [order EXCEPT ![o].status = status]
    BY <1>11, <2>1, PaymentStatus
  <2>3. IsOneStore(Receipt(Here(r)).cart)
    BY <2>1, ReqTypes, ReceiptTypes, EmptyIsCart DEF IsOneStore
  <2>4. \E changed : Save(r, changed) /\ IsOneStore(changed.cart)
    BY <1>11, <2>1, <2>3 DEF StartPayment, PaymentRefused
  <2> QED
    BY <1>1, <1>7, <2>1, <2>2, <2>4
<1>12. ASSUME NEW o \in Placed, PaidByWebhook(o) \/ Prepare(o) \/ PickUp(o)
       PROVE  OneStore'
  <2>1. \E status \in Statuses : order' = [order EXCEPT ![o].status = status]
    BY <1>12 DEF PaidByWebhook, Prepare, PickUp, Statuses
  <2>2. UNCHANGED <<session, req>>
    BY <1>12 DEF PaidByWebhook, Prepare, PickUp
  <2> QED
    BY <1>2, <1>7, <2>1, <2>2 DEF OneStore, Here
<1>13. ASSUME NEW r \in Requests, NEW o \in Placed, ReadReady(r, o)
       PROVE  OneStore'
  <2>1. req'[r].op = "ready" /\ \A q \in Requests : q # r => req'[q] = req[q]
    BY <1>13 DEF ReadReady, TypeOK
  <2> QED
    BY <1>2, <1>13, <2>1 DEF ReadReady, OneStore, Here, Placed
<1>14. ASSUME NEW r \in Requests, SaveReady(r)
       PROVE  OneStore'
  <2>1. req'[r].op = "idle" /\ \A q \in Requests : q # r => req'[q] = req[q]
    BY <1>14 DEF SaveReady, TypeOK, Idle
  <2>2. /\ Placed' = Placed
        /\ \A p \in Placed : /\ order'[p].store = order[p].store
                             /\ order'[p].items = order[p].items
    BY <1>14, ReadyRow
  <2> QED
    BY <1>2, <1>14, <2>1, <2>2 DEF SaveReady, OneStore, Here
<1>15. CASE UNCHANGED vars
  BY <1>2, <1>15 DEF vars, OneStore, Here, Placed
<1> QED
  BY <1>3, <1>4, <1>5, <1>8, <1>9, <1>10, <1>11, <1>12, <1>13, <1>14, <1>15
  DEF Next, Browse, Checkout, Staff

\* Every cart and every order is of one store, whatever the requests of a
\* browser do at once (add_cart_item, CheckoutView.post).
THEOREM CartsOfOneStore == Spec => []OneStore
<1>1. Init => OneStore
  BY EmptyIsCart DEF Init, OneStore, NewSession, IsOneStore, Placed, Idle
<1> QED
  BY <1>1, SoundAlways, OneStoreStep, PTL DEF Spec

-----------------------------------------------------------------------------
(* What a browser may count on while it sends one request at a time *)

\* An order that is sold, or may yet be without a new request.
Live(o) ==
    \/ order[o].status \in Settled \cup {"payment_pending"}
    \/ flow = "elements" /\ order[o].status = "pricing_validated"

IsBeingPaid(o, b) == \E r \in Serving(b) : req[r].op = "pay" /\ req[r].order = o

Disjoint(s, t) == \A x \in s, y \in t : x.id # y.id

OneAtATime(b) == \A q, r \in Serving(b) : q = r

\* The request works on what is stored; one that pays has added a code to it.
InStep(b) ==
    \A r \in Serving(b) :
        /\ Here(r).cart = session[b].cart
        /\ session[b].codes \subseteq Here(r).codes
        /\ req[r].op = "browse" => Here(r).codes = session[b].codes
        /\ req[r].op = "pay" => order[req[r].order].items = session[b].cart.items

Visible(b) ==
    \A o \in Placed : order[o].by = b =>
        \/ o \in session[b].codes
        \/ \E r \in Serving(b) : o \in Here(r).codes

\* What is sold is not in the cart, nor in another order that is.
Apart(b) ==
    \A o \in Placed : order[o].by = b /\ Live(o) =>
        /\ IsBeingPaid(o, b) \/ Disjoint(order[o].items, session[b].cart.items)
        /\ \A p \in Placed : p # o /\ order[p].by = b /\ Live(p) =>
               Disjoint(order[o].items, order[p].items)

Kept(b) == OneAtATime(b) /\ InStep(b) /\ Visible(b) /\ Apart(b)

\* No drink is numbered beyond those made.
Minted ==
    /\ \A b \in Browsers : \A x \in session[b].cart.items : x.id <= minted
    /\ \A r \in Requests : req[r].op \in {"browse", "pay"} =>
          \A x \in Here(r).cart.items : x.id <= minted
    /\ \A o \in Placed : \A x \in order[o].items : x.id <= minted

Coherent == Minted /\ \A b \in Browsers \ disturbed : Kept(b)

\* A browser that a step does not concern.
LEMMA KeptElsewhere ==
    ASSUME NEW b, Kept(b),
           session'[b] = session[b],
           Serving(b)' = Serving(b),
           \A q \in Serving(b) : req'[q] = req[q],
           \A o \in Placed' : order'[o].by = b =>
              /\ o \in Placed /\ order[o].by = b
              /\ order'[o].items = order[o].items
              /\ Live(o)' => Live(o),
           \A q \in Serving(b) : req[q].op = "pay" =>
              order'[req[q].order].items = order[req[q].order].items
    PROVE  Kept(b)'
<1>1. OneAtATime(b)' /\ InStep(b)'
  BY DEF Kept, OneAtATime, InStep, Here
<1>2. Visible(b)'
  BY DEF Kept, Visible, Here
<1>3. \A o : IsBeingPaid(o, b) => IsBeingPaid(o, b)'
  BY DEF IsBeingPaid
<1>4. Apart(b)'
  BY <1>3 DEF Kept, Apart, Disjoint
<1> QED
  BY <1>1, <1>2, <1>4 DEF Kept

\* When the only request of a browser has been answered.
LEMMA KeptAfterSave ==
    ASSUME Sound, NEW r \in Requests, req[r].op \in {"browse", "pay"},
           NEW b, b = req[r].browser, Kept(b),
           NEW changed, Save(r, changed),
           Here(r).codes \subseteq changed.codes,
           Placed' = Placed,
           \A p \in Placed : order'[p].by = order[p].by /\ order'[p].items = order[p].items,
           \A o \in Placed : order[o].by = b /\ Live(o)' =>
              /\ Disjoint(order[o].items, changed.cart.items)
              /\ \A p \in Placed : p # o /\ order[p].by = b /\ Live(p)' =>
                     Disjoint(order[o].items, order[p].items)
    PROVE  Kept(b)'
<1>1. Serving(b) = {r}
  BY DEF Kept, OneAtATime, Serving
<1>2. /\ b \in Browsers /\ session'[b] = changed
      /\ req'[r].op = "idle" /\ \A q \in Requests : q # r => req'[q] = req[q]
  BY SavedSession DEF Sound
<1>3. Serving(b)' = {}
  BY <1>1, <1>2 DEF Serving
<1>4. OneAtATime(b)' /\ InStep(b)'
  BY <1>3 DEF OneAtATime, InStep
<1>5. Visible(b)'
  <2>1. session[b].codes \subseteq Here(r).codes
    BY <1>1 DEF Kept, InStep
  <2> QED
    BY <1>1, <1>2, <2>1 DEF Kept, Visible
<1>6. Apart(b)'
  BY <1>2 DEF Apart, Disjoint
<1> QED
  BY <1>4, <1>5, <1>6 DEF Kept

\* The others, when a request of one browser has been answered.
LEMMA KeptBesideSave ==
    ASSUME Sound, NEW r \in Requests, req[r].op \in {"browse", "pay"},
           NEW b \in Browsers, b # req[r].browser, Kept(b),
           NEW changed, Save(r, changed),
           Placed' = Placed,
           \A p \in Placed : order'[p].by = order[p].by /\ order'[p].items = order[p].items,
           \A o \in Placed : order[o].by = b /\ Live(o)' => Live(o)
    PROVE  Kept(b)'
<1>1. /\ session'[b] = session[b]
      /\ req'[r].op = "idle" /\ \A q \in Requests : q # r => req'[q] = req[q]
  BY SavedSession DEF Sound
<1>2. r \notin Serving(b) /\ Serving(b)' = Serving(b)
  BY <1>1 DEF Serving
<1>3. \A q \in Serving(b) : req'[q] = req[q]
  BY <1>1, <1>2 DEF Serving
<1>4. \A q \in Serving(b) : req[q].op = "pay" => req[q].order \in Placed
  BY DEF Serving, Sound, OrderHeld
<1> QED
  BY <1>1, <1>2, <1>3, <1>4, KeptElsewhere

\* A browser whose only request is not paying has nothing being paid.
LEMMA NothingPaid ==
    ASSUME NEW r \in Requests, req[r].op = "browse", NEW b, b = req[r].browser, Kept(b)
    PROVE  /\ Serving(b) = {r}
           /\ \A o : ~ IsBeingPaid(o, b)
           /\ Here(r).cart = session[b].cart /\ Here(r).codes = session[b].codes
<1>1. Serving(b) = {r}
  BY DEF Kept, OneAtATime, Serving
<1> QED
  BY <1>1 DEF IsBeingPaid, Kept, InStep

\* A status that leaves an order as live as it was.
LEMMA LiveAfterStatus ==
    ASSUME Sound, NEW o \in Placed, NEW status \in Statuses, UNCHANGED flow,
           order' = [order EXCEPT ![o].status = status],
           Live(o) \/ status = "canceled"
    PROVE  \A p \in Placed : Live(p)' => Live(p)
<1>1. order'[o].status = status /\ \A p \in OrderIds : p # o => order'[p] = order[p]
  BY StatusWritten DEF Sound
<1>2. ASSUME NEW p \in Placed, p # o, Live(p)'
      PROVE  Live(p)
  BY <1>1, <1>2 DEF Live, Placed
<1>3. ASSUME Live(o)'
      PROVE  Live(o)
  BY <1>1, <1>3 DEF Live, Settled
<1> QED
  BY <1>2, <1>3

LEMMA KeptStep ==
    ASSUME Sound, Minted, [Next]_vars, NEW b \in Browsers, b \notin disturbed', 
           b \notin disturbed => Kept(b)
    PROVE  Kept(b)'
<1> USE DEF Sound
<1>1. ASSUME NEW r \in Requests, NEW c \in Browsers, Open(r, c)
      PROVE  Kept(b)'
  <2>1. /\ req[r].op = "idle"
        /\ req'[r] = [op |-> "browse", browser |-> c, session |-> session[c]]
        /\ \A q \in Requests : q # r => req'[q] = req[q]
        /\ UNCHANGED <<session, order, flow>>
    BY <1>1 DEF Open, TypeOK, Idle
  <2>2. b \notin disturbed /\ Placed' = Placed
    BY <1>1 DEF Open, Placed
  <2>3. \A o : Live(o)' = Live(o)
    BY <2>1 DEF Live
  <2>4. CASE b # c
    <3>1. Serving(b)' = Serving(b) /\ r \notin Serving(b)
      BY <2>1, <2>4 DEF Serving
    <3>2. \A q \in Serving(b) : req'[q] = req[q]
      BY <2>1, <3>1 DEF Serving
    <3> QED
      BY <2>1, <2>2, <2>3, <3>1, <3>2, KeptElsewhere
  <2>5. CASE b = c
    <3>1. Serving(b) = {} /\ Serving(b)' = {r}
      BY <1>1, <2>1, <2>2, <2>5 DEF Open, Serving
    <3>2. OneAtATime(b)' /\ InStep(b)'
      BY <2>1, <2>5, <3>1 DEF OneAtATime, InStep, Here
    <3>3. Visible(b)'
      BY <2>1, <2>2, <3>1 DEF Kept, Visible
    <3>4. Apart(b)'
      BY <2>1, <2>2, <2>3, <3>1 DEF Kept, Apart, IsBeingPaid
    <3> QED
      BY <3>2, <3>3, <3>4 DEF Kept
  <2> QED
    BY <2>4, <2>5
<1>2. ASSUME NEW r \in Requests, Leave(r) \/ Die(r)
      PROVE  Kept(b)'
  <2> DEFINE c == req[r].browser
  <2>1. /\ req[r].op \in {"browse", "pay"} /\ req'[r].op = "idle"
        /\ \A q \in Requests : q # r => req'[q] = req[q]
        /\ UNCHANGED <<session, order, flow>>
    BY <1>2 DEF Leave, Die, TypeOK, Idle
  <2>2. b \notin disturbed /\ Placed' = Placed
    BY <1>2 DEF Leave, Die, Placed
  <2>3. \A o : Live(o)' = Live(o)
    BY <2>1 DEF Live
  <2>4. CASE b # c
    <3>1. Serving(b)' = Serving(b) /\ r \notin Serving(b)
      BY <2>1, <2>4 DEF Serving
    <3>2. \A q \in Serving(b) : req'[q] = req[q]
      BY <2>1, <3>1 DEF Serving
    <3> QED
      BY <2>1, <2>2, <2>3, <3>1, <3>2, KeptElsewhere
  <2>5. CASE b = c
    <3>1. req[r].op = "browse"
      BY <1>2, <2>5 DEF Leave, Die
    <3>2. /\ Serving(b) = {r} /\ Here(r).codes = session[b].codes
          /\ \A o : ~ IsBeingPaid(o, b)
      BY <2>2, <2>5, <3>1, NothingPaid
    <3>3. Serving(b)' = {}
      BY <2>1, <3>2 DEF Serving
    <3>4. OneAtATime(b)' /\ InStep(b)'
      BY <3>3 DEF OneAtATime, InStep
    <3>5. Visible(b)'
      BY <2>1, <2>2, <3>2 DEF Kept, Visible
    <3>6. Apart(b)'
      BY <2>1, <2>2, <2>3, <3>2 DEF Kept, Apart
    <3> QED
      BY <3>4, <3>5, <3>6 DEF Kept
  <2> QED
    BY <2>4, <2>5
<1>3. ASSUME NEW r \in Requests,
             \/ \E s \in Stores : AddDrink(r, s) \/ SwitchStore(r, s)
             \/ \E i \in 1 .. MaxItems, q \in 0 .. MaxQuantity : SetQuantity(r, i, q)
      PROVE  Kept(b)'
  <2>1. PICK c : CartSaved(r, c)
    BY <1>3, CartStep
  <2>2. req[r].op = "browse" /\ UNCHANGED <<order, flow, disturbed>>
    BY <1>3, CartStep
  <2> DEFINE changed == [Here(r) EXCEPT !.cart = c]
  <2>3. changed.cart = c /\ changed.codes = Here(r).codes
    BY <2>1, <2>2, ReqTypes, CartTypes DEF CartSaved
  <2>4. Save(r, changed)
    BY <2>1 DEF CartSaved
  <2>5. Placed' = Placed /\ \A o : Live(o)' = Live(o)
    BY <2>2 DEF Placed, Live
  <2> HIDE DEF changed
  <2>6. CASE b # req[r].browser
    BY <2>2, <2>4, <2>5, <2>6, KeptBesideSave
  <2>7. CASE b = req[r].browser
    <3>1. Here(r).cart = session[b].cart /\ \A o : ~ IsBeingPaid(o, b)
      BY <2>2, <2>7, NothingPaid
    <3>2. ASSUME NEW o \in Placed, order[o].by = b, Live(o)
          PROVE  /\ Disjoint(order[o].items, changed.cart.items)
                 /\ \A p \in Placed : p # o /\ order[p].by = b /\ Live(p) =>
                        Disjoint(order[o].items, order[p].items)
      <4>1. /\ Disjoint(order[o].items, Here(r).cart.items)
            /\ \A p \in Placed : p # o /\ order[p].by = b /\ Live(p) =>
                   Disjoint(order[o].items, order[p].items)
        BY <2>2, <3>1, <3>2 DEF Kept, Apart
      <4>2. ASSUME NEW x \in order[o].items, NEW y \in c.items
            PROVE  x.id # y.id
        <5>1. x.id <= minted /\ x.id \in Nat /\ minted \in Nat
          <6>1. x \in Item
            BY PlacedTypes DEF OrderRow
          <6> QED
            BY <6>1, LimitAssumption DEF Minted, TypeOK, Item
        <5>2. x.id # minted + 1
          BY <5>1
        <5> QED
          BY <2>1, <4>1, <5>2 DEF CartSaved, Disjoint
      <4> QED
        BY <2>3, <4>1, <4>2 DEF Disjoint
    <3> QED
      BY <2>2, <2>3, <2>4, <2>5, <2>7, <3>2, KeptAfterSave
  <2> QED
    BY <2>6, <2>7
<1>4. ASSUME NEW r \in Requests, NEW o \in Placed, req[r].op = "browse",
             Save(r, Authorized(Here(r), o, order[o])),
             UNCHANGED disturbed, Placed' = Placed,
             \A p \in Placed : order'[p].by = order[p].by /\ order'[p].items = order[p].items,
             \A p \in Placed : Live(p)' => Live(p)
      PROVE  Kept(b)'
  <2> DEFINE changed == Authorized(Here(r), o, order[o])
  <2>1. changed.cart = Here(r).cart /\ Here(r).codes \subseteq changed.codes
    BY <1>4, ReqTypes, PlacedTypes, CodeTypes
  <2>2. Save(r, changed)
    BY <1>4
  <2> HIDE DEF changed
  <2>3. CASE b # req[r].browser
    BY <1>4, <2>2, <2>3, KeptBesideSave
  <2>4. CASE b = req[r].browser
    <3>1. Here(r).cart = session[b].cart /\ \A p : ~ IsBeingPaid(p, b)
      BY <1>4, <2>4, NothingPaid
    <3>2. ASSUME NEW q \in Placed, order[q].by = b, Live(q)
          PROVE  /\ Disjoint(order[q].items, changed.cart.items)
                 /\ \A p \in Placed : p # q /\ order[p].by = b /\ Live(p) =>
                        Disjoint(order[q].items, order[p].items)
      BY <1>4, <2>1, <3>1, <3>2 DEF Kept, Apart
    <3> QED
      BY <1>4, <2>1, <2>2, <2>4, <3>2, KeptAfterSave
  <2> QED
    BY <2>3, <2>4
<1>5. ASSUME NEW r \in Requests, NEW code, LookUp(r, code)
      PROVE  Kept(b)'
  <2>1. PICK o \in Placed : Save(r, Authorized(Here(r), o, order[o]))
    BY <1>5 DEF LookUp
  <2> QED
    BY <1>4, <1>5, <2>1 DEF LookUp, Placed, Live
<1>6. ASSUME NEW r \in Requests, NEW o \in Placed, ComeBack(r, o)
      PROVE  Kept(b)'
  <2>1. req[r].op = "browse" /\ Save(r, Authorized(Here(r), o, order[o]))
        /\ UNCHANGED <<flow, disturbed>>
    BY <1>6 DEF ComeBack
  <2>2. /\ Placed' = Placed /\ \A p \in Placed : Live(p)' => Live(p)
        /\ \A p \in Placed : order'[p].by = order[p].by /\ order'[p].items = order[p].items
    <3>1. CASE UNCHANGED order
      BY <2>1, <3>1 DEF Placed, Live
    <3>2. ASSUME IsPayable(o), NEW status \in Statuses,
                 order' = [order EXCEPT ![o].status = status]
          PROVE  /\ Placed' = Placed /\ \A p \in Placed : Live(p)' => Live(p)
                 /\ \A p \in Placed : order'[p].by = order[p].by /\ order'[p].items = order[p].items
      <4>1. Live(o)
        BY <3>2 DEF IsPayable, Live
      <4> QED
        BY <2>1, <3>2, <4>1, StatusWritten, LiveAfterStatus
    <3>3. {"queued", "canceled"} \subseteq Statuses
      BY DEF Statuses
    <3> QED
      BY <1>6, <3>1, <3>2, <3>3 DEF ComeBack
  <2> QED
    BY <1>4, <2>1, <2>2
<1>7. ASSUME NEW r \in Requests, Place(r)
      PROVE  Kept(b)'
  <2>1. PICK o, c : OrderMade(r, o, c)
    BY <1>7, PlaceStep
  <2>2. req[r].op = "browse" /\ UNCHANGED <<session, flow, disturbed>>
    BY <1>7, PlaceStep
  <2>3. /\ req'[r] = [op |-> "pay", browser |-> req[r].browser,
                      session |-> Authorized(Here(r), o, NewRow(r, o, c)), order |-> o]
        /\ \A q \in Requests : q # r => req'[q] = req[q]
    BY <2>1 DEF OrderMade, TypeOK
  <2>4. /\ o \notin Placed /\ Placed' = Placed \cup {o}
        /\ \A p \in Placed : order'[p] = order[p]
        /\ order'[o] = NewRow(r, o, c)
    BY <2>1 DEF OrderMade, Placed
  <2>5. \A p \in Placed : Live(p)' = Live(p)
    BY <2>2, <2>4 DEF Live
  <2>6. Serving(b)' = Serving(b)
    BY <2>2, <2>3 DEF Serving
  <2>7. \A q \in Requests : req[q].op = "pay" => req[q].order \in Placed
    BY DEF OrderHeld
  <2>8. CASE b # req[r].browser
    <3>1. r \notin Serving(b) /\ order'[o].by # b
      BY <2>4, <2>8 DEF Serving, NewRow
    <3>2. \A q \in Serving(b) : req'[q] = req[q]
      BY <2>3, <3>1 DEF Serving
    <3>3. \A p \in Placed' : order'[p].by = b =>
             /\ p \in Placed /\ order[p].by = b
             /\ order'[p].items = order[p].items
             /\ Live(p)' => Live(p)
      BY <2>4, <2>5, <3>1
    <3>4. \A q \in Serving(b) : req[q].op = "pay" =>
             order'[req[q].order].items = order[req[q].order].items
      BY <2>4, <2>7 DEF Serving
    <3> QED
      BY <2>2, <2>6, <3>2, <3>3, <3>4, KeptElsewhere
  <2>9. CASE b = req[r].browser
    <3>1. /\ Serving(b) = {r} /\ \A p : ~ IsBeingPaid(p, b)
          /\ Here(r).cart = session[b].cart /\ Here(r).codes = session[b].codes
      BY <2>2, <2>9, NothingPaid
    <3>2. /\ req'[r].session.cart = Here(r).cart
          /\ req'[r].session.codes = Here(r).codes \cup {o, NewRow(r, o, c).combo}
      BY <2>1, <2>2, <2>3, ReqTypes, CodeTypes DEF OrderMade
    <3>3. order'[o].items = session[b].cart.items /\ order'[o].by = b
      BY <2>4, <2>9, <3>1 DEF NewRow
    <3>4. OneAtATime(b)'
      BY <2>6, <3>1 DEF OneAtATime
    <3>5. InStep(b)'
      BY <2>2, <2>3, <2>6, <3>1, <3>2, <3>3 DEF InStep, Here
    <3>6. Visible(b)'
      BY <2>2, <2>4, <2>6, <3>1, <3>2 DEF Kept, Visible, Here
    <3>7. IsBeingPaid(o, b)'
      BY <2>3, <2>6, <3>1 DEF IsBeingPaid
    <3>8. \A p \in Placed : order[p].by = b /\ Live(p) =>
             /\ Disjoint(order[p].items, session[b].cart.items)
             /\ \A q \in Placed : q # p /\ order[q].by = b /\ Live(q) =>
                    Disjoint(order[p].items, order[q].items)
      BY <2>2, <2>9, <3>1 DEF Kept, Apart
    <3>9. ASSUME NEW p \in Placed', order'[p].by = b, Live(p)'
          PROVE  /\ IsBeingPaid(p, b)' \/ Disjoint(order'[p].items, session'[b].cart.items)
                 /\ \A q \in Placed' : q # p /\ order'[q].by = b /\ Live(q)' =>
                        Disjoint(order'[p].items, order'[q].items)
      <4>1. CASE p = o
        BY <2>4, <2>5, <3>3, <3>7, <3>8, <4>1 DEF Disjoint
      <4>2. CASE p \in Placed
        BY <2>2, <2>4, <2>5, <3>3, <3>8, <3>9, <4>2 DEF Disjoint
      <4> QED
        BY <2>4, <4>1, <4>2
    <3>10. Apart(b)'
      BY <3>9 DEF Apart, Disjoint
    <3> QED
      BY <3>4, <3>5, <3>6, <3>10 DEF Kept
  <2> QED
    BY <2>8, <2>9
<1>8. ASSUME NEW r \in Requests, StartPayment(r) \/ PaymentRefused(r)
      PROVE  Kept(b)'
  <2>1. PICK o \in Placed :
        /\ o = req[r].order /\ req[r].op = "pay" /\ order[o].by = req[r].browser
        /\ UNCHANGED <<flow, disturbed>> /\ Here(r) \in Session
    BY <1>8, PaymentStatus, ReqTypes DEF StartPayment, PaymentRefused, OrderHeld
  <2>2. PICK status \in Statuses : order' = [order EXCEPT ![o].status = status]
    BY <1>8, <2>1, PaymentStatus
  <2>3. /\ Placed' = Placed /\ \A p \in OrderIds : p # o => order'[p] = order[p]
        /\ \A p \in Placed : order'[p].by = order[p].by /\ order'[p].items = order[p].items
    BY <2>1, <2>2, StatusWritten
  <2>4. \A p \in Placed : p # o => Live(p)' = Live(p)
    BY <2>1, <2>3 DEF Live, Placed
  <2>5. PICK changed :
          /\ Save(r, changed) /\ changed.codes = Here(r).codes
          /\ \/ StartPayment(r) /\ changed.cart = EmptyCart
             \/ PaymentRefused(r) /\ changed.cart = Here(r).cart
    BY <1>8, <2>1, ReceiptTypes DEF StartPayment, PaymentRefused
  <2>6. CASE b # req[r].browser
    BY <2>1, <2>3, <2>4, <2>5, <2>6, KeptBesideSave
  <2>7. CASE b = req[r].browser
    <3>1. Serving(b) = {r} /\ order[o].items = session[b].cart.items
          /\ Here(r).cart = session[b].cart
      BY <2>1, <2>7 DEF Kept, OneAtATime, InStep, Serving
    <3>2. \A p : IsBeingPaid(p, b) => p = o
      BY <2>1, <3>1 DEF IsBeingPaid
    <3>3. \A p \in Placed : p # o /\ order[p].by = b /\ Live(p) =>
             /\ Disjoint(order[p].items, session[b].cart.items)
             /\ \A q \in Placed : q # p /\ order[q].by = b /\ Live(q) =>
                    Disjoint(order[p].items, order[q].items)
      BY <2>1, <3>2 DEF Kept, Apart
    <3>4. PaymentRefused(r) => ~ Live(o)'
      <4>1. ASSUME PaymentRefused(r)
            PROVE  order'[o].status \in {"canceled", "pricing_validated"} /\ flow # "elements"
        <5>1. order[o].status = "pricing_validated"
          BY <1>8, <2>1, PaymentStatus
        <5>2. order' = [order EXCEPT ![o].status = IF flow = "mock" THEN "canceled" ELSE @]
          BY <2>1, <4>1 DEF PaymentRefused
        <5>3. order'[o].status = IF flow = "mock" THEN "canceled" ELSE order[o].status
          BY <2>1, <5>2, PlacedTypes DEF TypeOK, OrderRow
        <5> QED
          BY <4>1, <5>1, <5>3 DEF PaymentRefused
      <4> QED
        BY <2>1, <4>1 DEF Live, Settled
    <3>5. ASSUME NEW p \in Placed, order[p].by = b, Live(p)'
          PROVE  /\ Disjoint(order[p].items, changed.cart.items)
                 /\ \A q \in Placed : q # p /\ order[q].by = b /\ Live(q)' =>
                        Disjoint(order[p].items, order[q].items)
      <4>1. Disjoint(order[p].items, changed.cart.items)
        <5>1. CASE StartPayment(r) /\ changed.cart = EmptyCart
          BY <5>1, EmptyIsCart DEF Disjoint
        <5>2. CASE PaymentRefused(r) /\ changed.cart = Here(r).cart
          BY <2>4, <3>1, <3>3, <3>4, <3>5, <5>2
        <5> QED
          BY <2>5, <5>1, <5>2
      <4>2. ASSUME NEW q \in Placed, q # p, order[q].by = b, Live(q)'
            PROVE  Disjoint(order[p].items, order[q].items)
        <5>1. CASE p = o
          BY <2>4, <3>1, <3>3, <4>2, <5>1 DEF Disjoint
        <5>2. CASE q = o
          BY <2>4, <3>1, <3>3, <3>5, <4>2, <5>2
        <5>3. CASE p # o /\ q # o
          BY <2>4, <3>3, <3>5, <4>2, <5>3
        <5> QED
          BY <5>1, <5>2, <5>3
      <4> QED
        BY <4>1, <4>2
    <3> QED
      BY <2>1, <2>3, <2>5, <2>7, <3>5, KeptAfterSave
  <2> QED
    BY <2>6, <2>7
<1>9. ASSUME UNCHANGED <<session, flow, disturbed>>,
             \A q \in Requests : req'[q] = req[q] \/ {req[q].op, req'[q].op} \cap {"browse", "pay"} = {},
             Placed' = Placed, \A p \in Placed : Live(p)' => Live(p),
             \A p \in Placed : order'[p].by = order[p].by /\ order'[p].items = order[p].items
      PROVE  Kept(b)'
  <2>1. Serving(b)' = Serving(b) /\ \A q \in Serving(b) : req'[q] = req[q]
    BY <1>9 DEF Serving
  <2>2. \A q \in Serving(b) : req[q].op = "pay" => req[q].order \in Placed
    BY DEF Serving, OrderHeld
  <2> QED
    BY <1>9, <2>1, <2>2, KeptElsewhere
<1>10. ASSUME NEW o \in Placed, PaidByWebhook(o) \/ Prepare(o) \/ PickUp(o)
       PROVE  Kept(b)'
  <2>1. PICK status \in Statuses : order' = [order EXCEPT ![o].status = status]
    BY <1>10 DEF PaidByWebhook, Prepare, PickUp, Statuses
  <2>2. Live(o)
    BY <1>10 DEF PaidByWebhook, IsPayable, Prepare, PickUp, Live, Settled
  <2>3. UNCHANGED <<session, req, flow, disturbed>>
    BY <1>10 DEF PaidByWebhook, Prepare, PickUp
  <2> QED
    BY <1>9, <2>1, <2>2, <2>3, StatusWritten, LiveAfterStatus
<1>11. ASSUME NEW r \in Requests, NEW o \in Placed, ReadReady(r, o)
       PROVE  Kept(b)'
  <2>1. /\ req[r].op = "idle" /\ req'[r].op = "ready"
        /\ \A q \in Requests : q # r => req'[q] = req[q]
        /\ UNCHANGED <<session, order, flow, disturbed>>
    BY <1>11 DEF ReadReady, TypeOK, Idle
  <2> QED
    BY <1>9, <2>1 DEF Placed, Live
<1>12. ASSUME NEW r \in Requests, SaveReady(r)
       PROVE  Kept(b)'
  <2>1. /\ req[r].op = "ready" /\ req'[r].op = "idle"
        /\ \A q \in Requests : q # r => req'[q] = req[q]
        /\ UNCHANGED <<session, flow, disturbed>>
    BY <1>12 DEF SaveReady, TypeOK, Idle
  <2>2. /\ Placed' = Placed
        /\ \A p \in Placed : /\ order'[p].by = order[p].by /\ order'[p].items = order[p].items
                             /\ order'[p].status = IF p = req[r].order THEN "ready" ELSE order[p].status
    BY <1>12, ReadyRow
  <2>3. Live(req[r].order)
    BY <2>1 DEF OrderHeld, Live, Settled
  <2>4. \A p \in Placed : Live(p)' => Live(p)
    BY <2>1, <2>2, <2>3 DEF Live
  <2> QED
    BY <1>9, <2>1, <2>2, <2>4
<1>13. CASE UNCHANGED vars
  BY <1>9, <1>13 DEF vars, Placed, Live
<1> QED
  BY <1>1, <1>2, <1>3, <1>5, <1>6, <1>7, <1>8, <1>10, <1>11, <1>12, <1>13
  DEF Next, Browse, Checkout, Staff

LEMMA MintedStep == Sound /\ Minted /\ [Next]_vars => Minted'
<1> SUFFICES ASSUME Sound, Minted, [Next]_vars
             PROVE  Minted'
  OBVIOUS
<1> USE DEF Sound
<1> DEFINE Below(items, n) == \A x \in items : x.id <= n
<1>1. ASSUME NEW r \in Requests, req[r].op \in {"browse", "pay"}, NEW changed, Save(r, changed),
             Below(changed.cart.items, minted'), minted' \in minted .. MaxItems,
             Placed' = Placed, \A p \in Placed : order'[p].items = order[p].items
      PROVE  Minted'
  <2>1. /\ session'[req[r].browser] = changed
        /\ \A c \in Browsers : c # req[r].browser => session'[c] = session[c]
        /\ req'[r].op = "idle" /\ \A q \in Requests : q # r => req'[q] = req[q]
    BY <1>1, SavedSession
  <2>2. ASSUME NEW items \in SUBSET Item, Below(items, minted)
        PROVE  Below(items, minted')
    <3>1. \A x \in items : x.id \in Nat /\ x.id <= minted
      BY <2>2 DEF Item
    <3>2. minted \in Nat /\ minted' \in Nat /\ minted <= minted'
      BY <1>1, LimitAssumption DEF TypeOK
    <3> QED
      BY <3>1, <3>2
  <2>3. \A c \in Browsers : session[c].cart.items \in SUBSET Item
    BY DEF TypeOK, Session, Cart
  <2>4. \A q \in Requests : req[q].op \in {"browse", "pay"} => Here(q).cart.items \in SUBSET Item
    BY ReqTypes DEF Session, Cart
  <2>5. \A p \in Placed : order[p].items \in SUBSET Item
    BY PlacedTypes DEF OrderRow
  <2>6. \A c \in Browsers : Below(session'[c].cart.items, minted')
    BY <1>1, <2>1, <2>2, <2>3 DEF Minted
  <2>7. \A q \in Requests : req'[q].op \in {"browse", "pay"} => Below(req'[q].session.cart.items, minted')
    BY <2>1, <2>2, <2>4 DEF Minted, Here
  <2>8. \A p \in Placed : Below(order'[p].items, minted')
    BY <1>1, <2>2, <2>5 DEF Minted
  <2> QED
    BY <1>1, <2>6, <2>7, <2>8 DEF Minted, Here
<1>2. ASSUME UNCHANGED <<session, minted>>,
             \A q \in Requests : req'[q].op \in {"browse", "pay"} => Below(req'[q].session.cart.items, minted),
             \A p \in Placed' : Below(order'[p].items, minted)
      PROVE  Minted'
  BY <1>2 DEF Minted, Here
<1>3. ASSUME NEW r \in Requests, NEW b \in Browsers, Open(r, b)
      PROVE  Minted'
  <2>1. /\ req'[r].session = session[b]
        /\ \A q \in Requests : q # r => req'[q] = req[q]
    BY <1>3 DEF Open, TypeOK
  <2> QED
    BY <1>2, <1>3, <2>1 DEF Open, Minted, Here, Placed
<1>4. ASSUME NEW r \in Requests, Leave(r) \/ Die(r)
      PROVE  Minted'
  <2>1. req'[r].op = "idle" /\ \A q \in Requests : q # r => req'[q] = req[q]
    BY <1>4 DEF Leave, Die, TypeOK, Idle
  <2> QED
    BY <1>2, <1>4, <2>1 DEF Leave, Die, Minted, Here, Placed
<1>5. ASSUME NEW r \in Requests,
             \/ \E s \in Stores : AddDrink(r, s) \/ SwitchStore(r, s)
             \/ \E i \in 1 .. MaxItems, q \in 0 .. MaxQuantity : SetQuantity(r, i, q)
      PROVE  Minted'
  <2>1. PICK c : CartSaved(r, c)
    BY <1>5, CartStep
  <2>2. req[r].op = "browse" /\ UNCHANGED order
    BY <1>5, CartStep
  <2>3. [Here(r) EXCEPT !.cart = c].cart = c
    BY <2>1, <2>2, ReqTypes, CartTypes DEF CartSaved
  <2>4. minted \in Nat /\ minted' \in Nat /\ minted <= minted' /\ minted' \in minted .. MaxItems
    BY <2>1, LimitAssumption DEF CartSaved, TypeOK
  <2>5. ASSUME NEW x \in c.items
        PROVE  x.id <= minted'
    <3>1. CASE x.id = minted + 1 /\ minted' = minted + 1
      BY <2>4, <3>1
    <3>2. ASSUME NEW y \in Here(r).cart.items, y.id = x.id
          PROVE  x.id <= minted'
      <4>1. y.id \in Nat /\ y.id <= minted
        BY <2>2, ReqTypes DEF Minted, Session, Cart, Item
      <4> QED
        BY <2>4, <3>2, <4>1
    <3> QED
      BY <2>1, <3>1, <3>2 DEF CartSaved
  <2>6. Save(r, [Here(r) EXCEPT !.cart = c]) /\ Placed' = Placed
    BY <2>1, <2>2 DEF CartSaved, Placed
  <2> QED
    BY <1>1, <2>2, <2>3, <2>4, <2>5, <2>6
<1>6. ASSUME NEW r \in Requests, NEW o \in Placed, req[r].op = "browse", UNCHANGED minted,
             Save(r, Authorized(Here(r), o, order[o])),
             Placed' = Placed, \A p \in Placed : order'[p].items = order[p].items
      PROVE  Minted'
  <2>1. Authorized(Here(r), o, order[o]).cart = Here(r).cart
    BY <1>6, ReqTypes, PlacedTypes, CodeTypes
  <2>2. Below(Here(r).cart.items, minted') /\ minted' \in minted .. MaxItems
    BY <1>6, LimitAssumption DEF Minted, TypeOK
  <2> QED
    BY <1>1, <1>6, <2>1, <2>2
<1>7. ASSUME NEW o \in Placed, NEW status \in Statuses,
             order' = [order EXCEPT ![o].status = status]
      PROVE  Placed' = Placed /\ \A p \in Placed : order'[p].items = order[p].items
  BY <1>7, StatusWritten
<1>8. ASSUME NEW r \in Requests, NEW code, LookUp(r, code)
      PROVE  Minted'
  <2>1. PICK o \in Placed : Save(r, Authorized(Here(r), o, order[o]))
    BY <1>8 DEF LookUp
  <2> QED
    BY <1>6, <1>8, <2>1 DEF LookUp, Placed
<1>9. ASSUME NEW r \in Requests, NEW o \in Placed, ComeBack(r, o)
      PROVE  Minted'
  <2>1. \/ UNCHANGED order
        \/ \E status \in Statuses : order' = [order EXCEPT ![o].status = status]
    BY <1>9 DEF ComeBack, Statuses
  <2>2. Placed' = Placed /\ \A p \in Placed : order'[p].items = order[p].items
    BY <1>7, <2>1 DEF Placed
  <2> QED
    BY <1>6, <1>9, <2>2 DEF ComeBack
<1>10. ASSUME NEW r \in Requests, Place(r)
       PROVE  Minted'
  <2>1. PICK o, c : OrderMade(r, o, c)
    BY <1>10, PlaceStep
  <2>2. req[r].op = "browse" /\ UNCHANGED <<session, minted>>
    BY <1>10, PlaceStep
  <2>3. /\ req'[r].session = Authorized(Here(r), o, NewRow(r, o, c))
        /\ \A q \in Requests : q # r => req'[q] = req[q]
    BY <2>1 DEF OrderMade, TypeOK
  <2>4. req'[r].session.cart = Here(r).cart
    BY <2>1, <2>2, <2>3, ReqTypes, CodeTypes DEF OrderMade
  <2>5. order'[o].items = Here(r).cart.items /\ \A p \in Placed : p # o /\ order'[p] = order[p]
    BY <2>1 DEF OrderMade, NewRow, Placed
  <2>6. \A p \in Placed' : Below(order'[p].items, minted)
    BY <2>1, <2>2, <2>5 DEF OrderMade, Minted
  <2> QED
    BY <1>2, <2>2, <2>3, <2>4, <2>6 DEF Minted, Here
<1>11. ASSUME NEW r \in Requests, StartPayment(r) \/ PaymentRefused(r)
       PROVE  Minted'
  <2>1. /\ req[r].op = "pay" /\ req[r].order \in Placed
        /\ \E status \in Statuses : order' = [order EXCEPT ![req[r].order].status = status]
    BY <1>11, PaymentStatus
  <2>2. Below(Receipt(Here(r)).cart.items, minted) /\ Below(Here(r).cart.items, minted)
    BY <2>1, ReqTypes, ReceiptTypes, EmptyIsCart DEF Minted
  <2>3. UNCHANGED minted /\ minted' \in minted .. MaxItems
    BY <1>11, LimitAssumption DEF StartPayment, PaymentRefused, TypeOK
  <2>4. \E changed : Save(r, changed) /\ Below(changed.cart.items, minted')
    BY <1>11, <2>2, <2>3 DEF StartPayment, PaymentRefused
  <2> QED
    BY <1>1, <1>7, <2>1, <2>3, <2>4
<1>12. ASSUME NEW o \in Placed, PaidByWebhook(o) \/ Prepare(o) \/ PickUp(o)
       PROVE  Minted'
  <2>1. \E status \in Statuses : order' = [order EXCEPT ![o].status = status]
    BY <1>12 DEF PaidByWebhook, Prepare, PickUp, Statuses
  <2>2. UNCHANGED <<session, req, minted>>
    BY <1>12 DEF PaidByWebhook, Prepare, PickUp
  <2> QED
    BY <1>2, <1>7, <2>1, <2>2 DEF Minted, Here
<1>13. ASSUME NEW r \in Requests, NEW o \in Placed, ReadReady(r, o)
       PROVE  Minted'
  <2>1. req'[r].op = "ready" /\ \A q \in Requests : q # r => req'[q] = req[q]
    BY <1>13 DEF ReadReady, TypeOK
  <2> QED
    BY <1>2, <1>13, <2>1 DEF ReadReady, Minted, Here, Placed
<1>14. ASSUME NEW r \in Requests, SaveReady(r)
       PROVE  Minted'
  <2>1. req'[r].op = "idle" /\ \A q \in Requests : q # r => req'[q] = req[q]
    BY <1>14 DEF SaveReady, TypeOK, Idle
  <2>2. Placed' = Placed /\ \A p \in Placed : order'[p].items = order[p].items
    BY <1>14, ReadyRow
  <2>3. \A p \in Placed' : Below(order'[p].items, minted)
    BY <2>2 DEF Minted
  <2>4. \A q \in Requests : req'[q].op \in {"browse", "pay"} => Below(req'[q].session.cart.items, minted)
    BY <2>1 DEF Minted, Here
  <2>5. UNCHANGED <<session, minted>>
    BY <1>14 DEF SaveReady
  <2> QED
    BY <1>2, <2>3, <2>4, <2>5
<1>15. CASE UNCHANGED vars
  BY <1>2, <1>15 DEF vars, Minted, Here, Placed
<1> QED
  BY <1>3, <1>4, <1>5, <1>8, <1>9, <1>10, <1>11, <1>12, <1>13, <1>14, <1>15
  DEF Next, Browse, Checkout, Staff

\* Once two requests have overlapped, or one has died, the browser stays marked.
LEMMA StaysDisturbed == ASSUME [Next]_vars PROVE disturbed \subseteq disturbed'
<1>1. ASSUME NEW r \in Requests, (\E b \in Browsers : Open(r, b)) \/ Die(r)
      PROVE  disturbed \subseteq disturbed'
  BY <1>1 DEF Open, Die
<1>2. ASSUME NEW r \in Requests, Browse(r) \/ Checkout(r)
      PROVE  disturbed' = disturbed
  <2>1. Browse(r) => disturbed' = disturbed
    BY DEF Browse, AddDrink, SwitchStore, SetQuantity, LookUp, Leave
  <2>2. Checkout(r) => disturbed' = disturbed
    BY DEF Checkout, Place, StartPayment, PaymentRefused, ComeBack
  <2> QED
    BY <1>2, <2>1, <2>2
<1>3. ASSUME (\E o \in Placed : PaidByWebhook(o)) \/ Staff
      PROVE  disturbed' = disturbed
  BY <1>3 DEF Staff, PaidByWebhook, Prepare, PickUp, ReadReady, SaveReady
<1>4. CASE UNCHANGED vars
  BY <1>4 DEF vars
<1> QED
  BY <1>1, <1>2, <1>3, <1>4 DEF Next

LEMMA CoherentStep == Sound /\ Coherent /\ [Next]_vars => Coherent'
BY MintedStep, KeptStep, StaysDisturbed DEF Coherent

LEMMA CoherentInit == Init => Coherent
<1> SUFFICES ASSUME Init
             PROVE  Coherent
  OBVIOUS
<1>1. Placed = {} /\ \A b : Serving(b) = {}
  BY DEF Init, Placed, Serving, Idle
<1>2. Minted
  BY <1>1, EmptyIsCart DEF Init, Minted, NewSession, Idle
<1>3. \A b \in Browsers : Kept(b)
  BY <1>1 DEF Kept, OneAtATime, InStep, Visible, Apart
<1> QED
  BY <1>2, <1>3 DEF Coherent

\* A browser that sends one request at a time finds its session as it left it,
\* with its orders in sight and what it bought out of its cart.
THEOREM CoherentAlways == Spec => [](Sound /\ Coherent)
BY SoundInit, SoundStep, CoherentInit, CoherentStep, PTL DEF Spec

\* A guest sees every order placed from this browser, unless its requests
\* overlapped or died (authorize_guest_order_access, and sessions saved whole).
THEOREM OrdersVisible == Spec => []OwnOrderVisible
<1>1. Sound /\ Coherent => OwnOrderVisible
  BY PlacedTypes DEF Sound, Coherent, Kept, Visible, OwnOrderVisible, OrderRow
<1> QED
  BY <1>1, CoherentAlways, PTL

\* No drink of a cart is sold in two orders, however often a refused payment has
\* the customer order again (CheckoutView.post, initialize_order_checkout).
THEOREM DrinksSoldOnce == Spec => []SoldOnce
<1>1. Sound /\ Coherent => SoldOnce
  <2> SUFFICES ASSUME Sound, Coherent, NEW o \in Placed, NEW p \in Placed,
                      o # p, order[o].by = order[p].by, order[o].by \notin disturbed,
                      {order[o].status, order[p].status} \subseteq Settled
               PROVE  \A x \in order[o].items, y \in order[p].items : x.id # y.id
    BY DEF SoldOnce
  <2>1. Kept(order[o].by)
    BY PlacedTypes DEF Sound, Coherent, OrderRow
  <2> QED
    BY <2>1 DEF Kept, Apart, Live, Disjoint
<1> QED
  BY <1>1, CoherentAlways, PTL

-----------------------------------------------------------------------------
(* One locker for one order *)

\* A store that is not crowded makes one order ready at a time, in a locker
\* that no order of the store waits in.
Roomy(s) ==
    /\ \A o \in Readies(s), p \in Readies(s) : o # p => order[o].locker # order[p].locker
    /\ \A r \in Requests : req[r].op = "ready" /\ order[req[r].order].store = s =>
         /\ order[req[r].order].status = "preparing"
         /\ \A p \in Readies(s) : order[p].locker # req[r].locker
         /\ \A q \in Requests :
              req[q].op = "ready" /\ order[req[q].order].store = s => q = r

\* A step that fills no locker and takes none.
LEMMA RoomyElsewhere ==
    ASSUME OrderHeld, NEW s, Roomy(s), Readies(s)' \subseteq Readies(s),
           \A p \in Placed : /\ order'[p].store = order[p].store
                             /\ order'[p].locker = order[p].locker
                             /\ order[p].status = "preparing" => order'[p].status = "preparing",
           \A r \in Requests : req'[r].op = "ready" => req'[r] = req[r]
    PROVE  Roomy(s)'
<1>1. Readies(s) \subseteq Placed
  BY DEF Readies
<1>2. \A o \in Readies(s)', p \in Readies(s)' : o # p => order'[o].locker # order'[p].locker
  BY <1>1 DEF Roomy
<1>3. \A r \in Requests : req'[r].op = "ready" =>
         /\ req'[r] = req[r] /\ req[r].order \in Placed
         /\ order'[req[r].order].store = order[req[r].order].store
  BY DEF OrderHeld
<1>4. ASSUME NEW r \in Requests, req'[r].op = "ready", order'[req'[r].order].store = s
      PROVE  /\ order'[req'[r].order].status = "preparing"
             /\ \A p \in Readies(s)' : order'[p].locker # req'[r].locker
             /\ \A q \in Requests :
                  req'[q].op = "ready" /\ order'[req'[q].order].store = s => q = r
  BY <1>1, <1>3, <1>4 DEF Roomy
<1> QED
  BY <1>2, <1>4 DEF Roomy

\* A status that is not one of waiting in a locker.
LEMMA RoomyAfterStatus ==
    ASSUME Sound, NEW s, Roomy(s), NEW o \in Placed, NEW status \in Statuses,
           order' = [order EXCEPT ![o].status = status], status # "ready",
           order[o].status # "preparing",
           \A r \in Requests : req'[r].op = "ready" => req'[r] = req[r]
    PROVE  Roomy(s)'
<1>1. /\ Placed' = Placed /\ order'[o].status = status
      /\ \A p \in OrderIds : p # o => order'[p] = order[p]
      /\ \A p \in Placed : /\ order'[p].store = order[p].store
                           /\ order'[p].locker = order[p].locker
  BY StatusWritten DEF Sound
<1>2. Readies(s)' \subseteq Readies(s)
  BY <1>1 DEF Readies, Placed
<1>3. \A p \in Placed : order[p].status = "preparing" => order'[p].status = "preparing"
  BY <1>1 DEF Placed
<1> QED
  BY <1>1, <1>2, <1>3, RoomyElsewhere DEF Sound

LEMMA RoomyStep ==
    ASSUME Sound, [Next]_vars, NEW s \in Stores, s \notin crowded', s \notin crowded => Roomy(s)
    PROVE  Roomy(s)'
<1> USE DEF Sound
<1>1. ASSUME Roomy(s), UNCHANGED order, \A r \in Requests : req'[r].op = "ready" => req'[r] = req[r]
      PROVE  Roomy(s)'
  <2>1. Readies(s)' = Readies(s)
    BY <1>1 DEF Readies, Placed
  <2> QED
    BY <1>1, <2>1, RoomyElsewhere
<1>2. ASSUME NEW r \in Requests,
             \/ \E b \in Browsers : Open(r, b)
             \/ Leave(r) \/ Die(r)
             \/ \E code \in Code : LookUp(r, code)
      PROVE  Roomy(s)'
  <2>1. UNCHANGED order /\ s \notin crowded
    BY <1>2 DEF Open, Leave, Die, LookUp
  <2>2. \/ req' = [req EXCEPT ![r] = Idle]
        \/ \E b \in Browsers :
              req' = [req EXCEPT ![r] = [op |-> "browse", browser |-> b, session |-> session[b]]]
    BY <1>2 DEF Open, Leave, Die, LookUp, Save
  <2>3. req'[r].op # "ready" /\ \A q \in Requests : q # r => req'[q] = req[q]
    BY <2>2 DEF TypeOK, Idle
  <2> QED
    BY <1>1, <2>1, <2>3
<1>3. ASSUME NEW r \in Requests,
             \/ \E t \in Stores : AddDrink(r, t) \/ SwitchStore(r, t)
             \/ \E i \in 1 .. MaxItems, q \in 0 .. MaxQuantity : SetQuantity(r, i, q)
      PROVE  Roomy(s)'
  <2>1. /\ UNCHANGED <<order, crowded>> /\ req' = [req EXCEPT ![r] = Idle]
    BY <1>3, CartStep DEF CartSaved, Save
  <2>2. \A q \in Requests : req'[q].op = "ready" => req'[q] = req[q]
    BY <2>1 DEF TypeOK, Idle
  <2> QED
    BY <1>1, <2>1, <2>2
<1>4. ASSUME NEW r \in Requests, NEW o \in Placed, ComeBack(r, o)
      PROVE  Roomy(s)'
  <2>1. s \notin crowded /\ \A q \in Requests : req'[q].op = "ready" => req'[q] = req[q]
    BY <1>4 DEF ComeBack, Save, TypeOK, Idle
  <2>2. CASE UNCHANGED order
    BY <1>1, <2>1, <2>2
  <2>3. ASSUME IsPayable(o), NEW status \in {"queued", "canceled"},
               order' = [order EXCEPT ![o].status = status]
        PROVE  Roomy(s)'
    <3>1. status \in Statuses /\ status # "ready" /\ order[o].status # "preparing"
      BY <2>3 DEF Statuses, IsPayable
    <3> QED
      BY <2>1, <2>3, <3>1, RoomyAfterStatus
  <2> QED
    BY <1>4, <2>2, <2>3 DEF ComeBack
<1>5. ASSUME NEW r \in Requests, Place(r)
      PROVE  Roomy(s)'
  <2>1. PICK o, c : OrderMade(r, o, c)
    BY <1>5, PlaceStep
  <2>2. s \notin crowded /\ \A q \in Requests : req'[q].op = "ready" => req'[q] = req[q]
    BY <1>5, <2>1, PlaceStep DEF OrderMade, TypeOK
  <2>3. /\ Placed' = Placed \cup {o} /\ order'[o].status = "pricing_validated"
        /\ \A p \in Placed : order'[p] = order[p]
    BY <2>1 DEF OrderMade, NewRow, Placed
  <2>4. Readies(s)' \subseteq Readies(s)
    BY <2>3 DEF Readies
  <2> QED
    BY <2>2, <2>3, <2>4, RoomyElsewhere
<1>6. ASSUME NEW r \in Requests, StartPayment(r) \/ PaymentRefused(r)
      PROVE  Roomy(s)'
  <2>1. PICK o \in Placed : o = req[r].order /\ order[o].status = "pricing_validated"
    BY <1>6, PaymentStatus
  <2>2. PICK status \in Statuses : order' = [order EXCEPT ![o].status = status] /\ status # "ready"
    <3>1. CASE StartPayment(r)
      <4>1. Started[flow] \in Statuses /\ Started[flow] # "ready"
        BY FlowAssumption DEF TypeOK, Started, Statuses
      <4> QED
        BY <2>1, <3>1, <4>1 DEF StartPayment
    <3>2. CASE PaymentRefused(r)
      BY <2>1, <3>2 DEF PaymentRefused, Statuses
    <3> QED
      BY <1>6, <3>1, <3>2
  <2>3. s \notin crowded /\ \A q \in Requests : req'[q].op = "ready" => req'[q] = req[q]
    BY <1>6 DEF StartPayment, PaymentRefused, Save, TypeOK, Idle
  <2> QED
    BY <2>1, <2>2, <2>3, RoomyAfterStatus
<1>7. ASSUME NEW o \in Placed, PaidByWebhook(o) \/ PickUp(o)
      PROVE  Roomy(s)'
  <2>1. /\ s \notin crowded /\ UNCHANGED req
        /\ order[o].status # "preparing"
        /\ \E status \in Statuses \ {"ready"} : order' = [order EXCEPT ![o].status = status]
    BY <1>7 DEF PaidByWebhook, IsPayable, PickUp, Statuses
  <2> QED
    BY <2>1, RoomyAfterStatus
<1>8. ASSUME NEW o \in Placed, Prepare(o)
      PROVE  Roomy(s)'
  <2>1. s \notin crowded /\ UNCHANGED req /\ order[o].status = "queued"
        /\ order' = [order EXCEPT ![o].status = "preparing"]
    BY <1>8 DEF Prepare
  <2>2. "preparing" \in Statuses
    BY DEF Statuses
  <2> QED
    BY <2>1, <2>2, RoomyAfterStatus
<1>9. ASSUME NEW r \in Requests, NEW o \in Placed, ReadReady(r, o)
      PROVE  Roomy(s)'
  <2>1. /\ req[r].op = "idle" /\ order[o].status = "preparing"
        /\ req'[r] = [op |-> "ready", order |-> o, locker |-> LockerFor(o)]
        /\ \A q \in Requests : q # r => req'[q] = req[q]
        /\ UNCHANGED order
    BY <1>9 DEF ReadReady, TypeOK, Idle
  <2>2. s \notin crowded /\ Readies(s)' = Readies(s)
    BY <1>9 DEF ReadReady, Readies, Placed
  <2>3. CASE order[o].store # s
    BY <2>1, <2>2, <2>3 DEF Roomy
  <2>4. CASE order[o].store = s
    <3>1. /\ \A q \in Requests : ~ (req[q].op = "ready" /\ order[req[q].order].store = s)
          /\ FreeLockers(o) # {}
      BY <1>9, <2>2, <2>4 DEF ReadReady
    <3>2. LockerFor(o) \in FreeLockers(o)
      BY <3>1, PlacedTypes, LockerFits
    <3>3. o \notin Readies(s)
      BY <2>1 DEF Readies
    <3>4. \A p \in Readies(s) : order[p].locker # LockerFor(o)
      BY <2>4, <3>2, <3>3 DEF FreeLockers
    <3> QED
      BY <2>1, <2>2, <2>4, <3>1, <3>4 DEF Roomy
  <2> QED
    BY <2>3, <2>4
<1>10. ASSUME NEW r \in Requests, SaveReady(r)
       PROVE  Roomy(s)'
  <2>1. PICK o \in Placed : o = req[r].order
    BY <1>10, ReadyRow
  <2>2. /\ Placed' = Placed
        /\ \A p \in Placed :
              /\ order'[p].store = order[p].store
              /\ order'[p].status = IF p = o THEN "ready" ELSE order[p].status
              /\ order'[p].locker = IF p = o THEN req[r].locker ELSE order[p].locker
    BY <1>10, <2>1, ReadyRow
  <2>3. /\ s \notin crowded /\ req[r].op = "ready" /\ req'[r].op = "idle"
        /\ \A q \in Requests : q # r => req'[q] = req[q]
    BY <1>10 DEF SaveReady, TypeOK, Idle
  <2>4. \A q \in Requests : req'[q].op = "ready" => req'[q] = req[q]
    BY <2>3
  <2>5. CASE order[o].store # s
    <3>1. Readies(s)' = Readies(s) /\ o \notin Readies(s) /\ Readies(s) \subseteq Placed
      BY <2>2, <2>5 DEF Readies
    <3>2. \A q \in Requests : req[q].op = "ready" => req[q].order \in Placed
      BY DEF OrderHeld
    <3> QED
      BY <2>2, <2>3, <2>4, <2>5, <3>1, <3>2 DEF Roomy
  <2>6. CASE order[o].store = s
    <3>1. /\ \A p \in Readies(s) : order[p].locker # req[r].locker
          /\ \A q \in Requests : req[q].op = "ready" /\ order[req[q].order].store = s => q = r
          /\ order[o].status = "preparing"
      BY <2>1, <2>3, <2>6 DEF Roomy
    <3>2. Readies(s)' = Readies(s) \cup {o} /\ o \notin Readies(s) /\ Readies(s) \subseteq Placed
      BY <2>2, <2>6, <3>1 DEF Readies
    <3>3. \A q \in Requests : req'[q].op = "ready" => order'[req'[q].order].store # s
      BY <2>2, <2>3, <3>1 DEF OrderHeld
    <3> QED
      BY <2>2, <2>3, <3>1, <3>2, <3>3 DEF Roomy
  <2> QED
    BY <2>5, <2>6
<1>11. CASE UNCHANGED vars
  BY <1>1, <1>11 DEF vars
<1> QED
  BY <1>2, <1>3, <1>4, <1>5, <1>6, <1>7, <1>8, <1>9, <1>10, <1>11
  DEF Next, Browse, Checkout, Staff

LEMMA StaysCrowded == ASSUME [Next]_vars PROVE crowded \subseteq crowded'
<1>1. ASSUME NEW r \in Requests, (\E b \in Browsers : Open(r, b)) \/ Die(r) \/ Checkout(r)
      PROVE  crowded' = crowded
  BY <1>1 DEF Open, Die, Checkout, Place, StartPayment, PaymentRefused, ComeBack
<1>2. ASSUME NEW r \in Requests, Browse(r)
      PROVE  crowded' = crowded
  BY <1>2 DEF Browse, AddDrink, SwitchStore, SetQuantity, LookUp, Leave
<1>3. ASSUME (\E o \in Placed : PaidByWebhook(o)) \/ Staff
      PROVE  crowded \subseteq crowded'
  BY <1>3 DEF Staff, PaidByWebhook, Prepare, PickUp, ReadReady, SaveReady
<1>4. CASE UNCHANGED vars
  BY <1>4 DEF vars
<1> QED
  BY <1>1, <1>2, <1>3, <1>4 DEF Next

\* Orders that wait at a store have lockers of their own, unless they were made
\* ready at once or the lockers had run out (assign_pickup_locker, MarkReadyView).
THEOREM LockersExclusive == Spec => []LockerExclusive
<1> DEFINE AllRoomy == \A s \in Stores \ crowded : Roomy(s)
<1>1. Init => AllRoomy
  <2> SUFFICES ASSUME Init
               PROVE  AllRoomy
    OBVIOUS
  <2>1. Placed = {}
    BY DEF Init, Placed
  <2> QED
    BY <2>1 DEF Init, Roomy, Readies, Idle
<1>2. Sound /\ AllRoomy /\ [Next]_vars => AllRoomy'
  BY RoomyStep, StaysCrowded
<1>3. Sound /\ AllRoomy => LockerExclusive
  <2> SUFFICES ASSUME Sound, AllRoomy, NEW o \in Placed, NEW p \in Readies(order[o].store), o # p,
                      order[o].status = "ready", order[o].store \notin crowded
               PROVE  order[o].locker # order[p].locker
    BY DEF LockerExclusive, Readies
  <2>1. order[o].store \in Stores /\ o \in Readies(order[o].store)
    BY PlacedTypes DEF Sound, OrderRow, Readies
  <2> QED
    BY <2>1 DEF Roomy
<1> QED
  BY <1>1, <1>2, <1>3, SoundAlways, PTL DEF Spec

-----------------------------------------------------------------------------
(* Prices *)

\* Rounding half up is at most half a cent off, and never turns the order of
\* two amounts around (the quantize calls of validate_pricing).
LEMMA RoundedToNearest ==
    ASSUME NEW a \in Nat
    PROVE  /\ Rounded(a) \in Nat
           /\ 10000 * Rounded(a) - 5000 <= a
           /\ a < 10000 * Rounded(a) + 5000
<1>1. /\ 10000 * ((a + 5000) \div 10000) <= a + 5000
      /\ a + 5000 < 10000 * ((a + 5000) \div 10000) + 10000
      /\ (a + 5000) \div 10000 \in Nat
  OBVIOUS
<1> QED
  BY <1>1 DEF Rounded

\* The tax of an order is its share of the subtotal to the nearest cent, a half
\* cent going to the state (validate_pricing).
THEOREM TaxIsNearestCent ==
    ASSUME NEW subtotal \in Nat
    PROVE  /\ Tax(subtotal) \in Nat
           /\ 10000 * Tax(subtotal) - 5000 <= subtotal * TaxRate
           /\ subtotal * TaxRate < 10000 * Tax(subtotal) + 5000
<1>1. subtotal * TaxRate \in Nat
  BY DEF TaxRate
<1> QED
  BY <1>1, RoundedToNearest DEF Tax

\* A dearer order is never taxed less, so no drink added to an order, and no
\* larger quantity, makes it cheaper (validate_pricing).
THEOREM TotalGrows ==
    ASSUME NEW less \in Nat, NEW more \in Nat, less < more
    PROVE  Tax(less) <= Tax(more) /\ less + Tax(less) < more + Tax(more)
<1>1. /\ less * TaxRate \in Nat /\ more * TaxRate \in Nat
      /\ less * TaxRate <= more * TaxRate
  BY DEF TaxRate
<1>2. /\ Tax(less) \in Nat /\ Tax(more) \in Nat
      /\ 10000 * Tax(less) - 5000 <= less * TaxRate
      /\ more * TaxRate < 10000 * Tax(more) + 5000
  BY TaxIsNearestCent
<1> DEFINE tl == Tax(less)
           tm == Tax(more)
           al == less * TaxRate
           am == more * TaxRate
<1>3. tl \in Nat /\ tm \in Nat /\ al \in Nat /\ am \in Nat /\ al <= am
      /\ 10000 * tl - 5000 <= al /\ am < 10000 * tm + 5000
  BY <1>1, <1>2
<1> HIDE DEF tl, tm, al, am
<1>4. tl <= tm
  BY <1>3
<1> QED
  BY <1>3, <1>4 DEF tl, tm

-----------------------------------------------------------------------------
(* Pickup slots *)

\* Rounding up to five minutes adds at most four.
LEMMA RoundedUp ==
    ASSUME NEW m \in Nat
    PROVE  /\ RoundedUpToFive(m) \in m .. m + 4
           /\ RoundedUpToFive(m) % 5 = 0
<1>1. /\ m % 5 \in 0 .. 4 /\ m \div 5 \in Nat
      /\ m % 5 = m - 5 * (m \div 5)
  OBVIOUS
<1>2. CASE m % 5 = 0
  BY <1>1, <1>2 DEF RoundedUpToFive
<1>3. CASE m % 5 # 0
  <2>1. RoundedUpToFive(m) = 5 * (m \div 5 + 1)
    BY <1>1, <1>3 DEF RoundedUpToFive
  <2> DEFINE k == m \div 5 + 1
  <2>2. k \in Nat /\ (5 * k) % 5 = 0
    BY <1>1
  <2> QED
    BY <1>1, <1>3, <2>1, <2>2 DEF RoundedUpToFive
<1> QED
  BY <1>2, <1>3

\* "As soon as possible" is 12 to 16 minutes ahead, to the minute: seconds are cut
\* off (compute_asap_pickup_time).
THEOREM AsapIsSoon ==
    ASSUME NEW now \in Nat
    PROVE  Asap(now) \in now + MinPrepBuffer .. now + MinPrepBuffer + 4
<1>1. now + MinPrepBuffer \in Nat
  BY DEF MinPrepBuffer
<1> QED
  BY <1>1, RoundedUp DEF Asap

\* Whatever the form showed and however long it stayed open, the time an order
\* is accepted for leaves the kitchen its buffer, and was shown or is the first
\* there is (parse_pickup_choice, and the choices of the checkout form).
THEOREM AcceptedIsOffered ==
    ASSUME NEW shown \in Nat, NEW now \in Nat, NEW s \in PickupTimes(shown, now), s # 0
    PROVE  /\ s >= now + MinPrepBuffer
           /\ s \in Slots(shown) \cup {Asap(now)}
<1>1. Asap(now) \in Nat /\ Asap(now) >= now + MinPrepBuffer
  BY AsapIsSoon DEF MinPrepBuffer
<1>2. \A k \in 0..1 : Asap(now) + SlotSpacing * k >= now + MinPrepBuffer
  BY <1>1 DEF SlotSpacing, MinPrepBuffer
<1> QED
  BY <1>1, <1>2 DEF PickupTimes, AcceptedSlots, Slots

\* A form sent before the next five minutes begin has all its slots accepted;
\* one sent later has none of them, but for the last when the first has moved
\* on by exactly its spacing: a slot that is still a quarter of an hour away is
\* refused (the form is checked against pickup_time_choices of that moment).
THEOREM SlotsExpire ==
    ASSUME NEW shown \in Nat, NEW now \in Nat, shown <= now
    PROVE  /\ Asap(now) = Asap(shown) => AcceptedSlots(shown, now) = Slots(shown)
           /\ Asap(now) = Asap(shown) + SlotSpacing =>
                AcceptedSlots(shown, now) = {Asap(now)}
           /\ Asap(now) \notin {Asap(shown), Asap(shown) + SlotSpacing} =>
                AcceptedSlots(shown, now) = {}
<1>1. /\ Asap(shown) \in Nat /\ Asap(now) \in Nat /\ Asap(now) > now
      /\ now + MinPrepBuffer <= Asap(now)
      /\ shown + MinPrepBuffer <= Asap(shown)
  BY AsapIsSoon DEF MinPrepBuffer
<1>2. \A m \in Nat : Asap(m) \in Int => Slots(m) = {Asap(m), Asap(m) + SlotSpacing}
  BY DEF Slots, SlotSpacing
<1>3. Asap(shown) <= Asap(now)
  <2>1. Asap(shown) % 5 = 0 /\ Asap(now) % 5 = 0 /\ Asap(shown) <= shown + MinPrepBuffer + 4
    BY RoundedUp, AsapIsSoon DEF Asap, MinPrepBuffer
  <2> DEFINE a == Asap(shown)
             b == Asap(now)
  <2>2. a \in Nat /\ b \in Nat /\ a % 5 = 0 /\ b % 5 = 0 /\ a <= b + 4
    BY <1>1, <2>1 DEF MinPrepBuffer
  <2> HIDE DEF a, b
  <2>3. a = 5 * (a \div 5) /\ b = 5 * (b \div 5) /\ a \div 5 \in Nat /\ b \div 5 \in Nat
    BY <2>2
  <2>4. a <= b
    BY <2>2, <2>3
  <2> QED
    BY <2>4 DEF a, b
<1>4. Slots(shown) = {Asap(shown), Asap(shown) + SlotSpacing}
      /\ Slots(now) = {Asap(now), Asap(now) + SlotSpacing}
  BY <1>1, <1>2
<1> DEFINE a == Asap(shown)
           b == Asap(now)
<1>5. a \in Nat /\ b \in Nat /\ a <= b /\ b > now
  BY <1>1, <1>3
<1>6. AcceptedSlots(shown, now) = {s \in {a, a + 15} : s \in {b, b + 15} /\ s > now}
  BY <1>4 DEF AcceptedSlots, SlotSpacing
<1> HIDE DEF a, b
<1>7. /\ b = a => {s \in {a, a + 15} : s \in {b, b + 15} /\ s > now} = {a, a + 15}
      /\ b = a + 15 => {s \in {a, a + 15} : s \in {b, b + 15} /\ s > now} = {b}
      /\ b \notin {a, a + 15} => {s \in {a, a + 15} : s \in {b, b + 15} /\ s > now} = {}
  BY <1>5
<1> QED
  BY <1>4, <1>6, <1>7 DEF a, b, SlotSpacing

-----------------------------------------------------------------------------
(* The taste profile *)

\* A profile as a form leaves it: nothing in it is liked and avoided.
CleanForm ==
    { f \in [liked: SUBSET Options, disliked: SUBSET Options, diet: SUBSET Diets, bold: BOOLEAN] :
        f.liked \cap f.disliked = {} }

\* The rows a profile may have, and a save of one.
Rowable == {"favorite", "dislike", "dietary"} \X (Options \cup Diets)
SaveJob == [form: CleanForm, todo: SUBSET Rowable]

\* Who saves the profile with nobody in between has created the rows that are not
\* left to create; and when nobody saves it, they are those of the last one asked for.
ProfileInv ==
    /\ saving \in [Savers -> {Nothing} \cup SaveJob]
    /\ asked \in CleanForm
    /\ ~torn => \A v, w \in Saving : v = w
    /\ ~torn => \A w \in Saving : prefs \cup saving[w].todo = Rows(saving[w].form)
    /\ ProfileSettled => prefs = Rows(asked) /\ bold = asked.bold

\* PreferenceProfileForm.clean.
LEMMA CleanedIsClean ==
    ASSUME NEW f \in Forms
    PROVE  Cleaned(f) \in CleanForm
BY FormAssumption DEF CleanForm, Cleaned

\* The rows of a profile.
LEMMA RowsAre ==
    ASSUME NEW f \in CleanForm
    PROVE  Rows(f) \in SUBSET Rowable
BY DEF CleanForm, Rows, Rowable

\* A worker that saves a profile is not idle.
LEMMA SaveIs ==
    ASSUME NEW s \in SaveJob
    PROVE  s # Nothing /\ s.form \in CleanForm
BY DEF SaveJob, Nothing

\* The profile is empty at first.
LEMMA ProfileInit == BuilderInit => ProfileInv
<1> SUFFICES ASSUME BuilderInit
             PROVE  ProfileInv
  OBVIOUS
<1>1. asked \in CleanForm /\ Rows(asked) = {} /\ bold = asked.bold
  BY DEF BuilderInit, CleanForm, Rows
<1>2. Saving = {}
  BY DEF BuilderInit, Saving
<1> QED
  BY <1>1, <1>2 DEF BuilderInit, ProfileInv

\* save_preference_profile deletes the rows.
LEMMA StartSaveStep ==
    ASSUME ProfileInv, NEW w \in Savers, NEW form \in Forms, StartSave(w, form)
    PROVE  ProfileInv'
<1>1. PICK f : f = Cleaned(form)
  OBVIOUS
<1>2. PICK s : s = [form |-> f, todo |-> Rows(f)]
  OBVIOUS
<1>3. f \in CleanForm
  BY <1>1, CleanedIsClean
<1>4. s \in SaveJob
  BY <1>2, <1>3, RowsAre DEF SaveJob
<1>5. s # Nothing
  BY <1>4, SaveIs
<1>6. saving' = [saving EXCEPT ![w] = s]
  BY <1>1, <1>2 DEF StartSave
<1>7. /\ saving' \in [Savers -> {Nothing} \cup SaveJob]
      /\ saving'[w] = s
      /\ \A v \in Savers : v # w => saving'[v] = saving[v]
  BY <1>4, <1>6 DEF ProfileInv
<1>8. w \in Saving' /\ (~torn' => ~torn /\ Saving' = {w})
  BY <1>5, <1>7 DEF StartSave, Saving
<1>9. ~torn' => prefs' = {} /\ s.todo = Rows(s.form)
  BY <1>2 DEF StartSave
<1> QED
  BY <1>7, <1>8, <1>9 DEF ProfileInv, ProfileSettled, StartSave

\* It creates one, unless it is there already.
LEMMA CreateRowStep ==
    ASSUME ProfileInv, NEW w \in Savers, CreateRow(w)
    PROVE  ProfileInv'
<1>1. PICK row \in NextRows(saving[w].todo) :
        IF row \in prefs
        THEN /\ saving' = [saving EXCEPT ![w] = Nothing]
             /\ torn' = TRUE
             /\ UNCHANGED prefs
        ELSE /\ prefs' = prefs \cup {row}
             /\ saving' = [saving EXCEPT ![w].todo = @ \ {row}]
             /\ UNCHANGED torn
  BY DEF CreateRow
<1>2. CASE row \in prefs
  <2>1. saving' \in [Savers -> {Nothing} \cup SaveJob] /\ torn'
    BY <1>1, <1>2 DEF ProfileInv
  <2> QED
    BY <2>1 DEF ProfileInv, ProfileSettled, CreateRow
<1>3. CASE row \notin prefs
  <2>1. saving[w] \in SaveJob /\ row \in saving[w].todo
    BY <1>1 DEF ProfileInv, CreateRow, NextRows
  <2>2. PICK s : s = [saving[w] EXCEPT !.todo = @ \ {row}]
    OBVIOUS
  <2>3. s \in SaveJob /\ s.form = saving[w].form /\ s.todo = saving[w].todo \ {row}
    BY <2>1, <2>2 DEF SaveJob
  <2>4. s # Nothing
    BY <2>3, SaveIs
  <2>5. saving' = [saving EXCEPT ![w] = s]
    BY <1>1, <1>3, <2>2
  <2>6. /\ saving' \in [Savers -> {Nothing} \cup SaveJob]
        /\ saving'[w] = s
        /\ \A v \in Savers : v # w => saving'[v] = saving[v]
    BY <2>3, <2>5 DEF ProfileInv
  <2>7. w \in Saving /\ Saving' = Saving
    BY <2>4, <2>6 DEF Saving, CreateRow
  <2>8. prefs' \cup s.todo = prefs \cup saving[w].todo
    BY <1>1, <1>3, <2>1, <2>3
  <2>9. ~torn => \A v \in Saving' : prefs' \cup saving'[v].todo = Rows(saving'[v].form)
    BY <2>3, <2>6, <2>7, <2>8 DEF ProfileInv
  <2> QED
    BY <1>1, <1>3, <2>6, <2>7, <2>9 DEF ProfileInv, ProfileSettled, CreateRow
<1> QED
  BY <1>2, <1>3

\* It saves the user's own columns.
LEMMA EndSaveStep ==
    ASSUME ProfileInv, NEW w \in Savers, EndSave(w)
    PROVE  ProfileInv'
<1>1. saving[w] \in SaveJob
  BY DEF ProfileInv, EndSave
<1>2. saving[w].form \in CleanForm
  BY <1>1, SaveIs
<1>3. /\ saving' \in [Savers -> {Nothing} \cup SaveJob]
      /\ saving'[w] = Nothing
      /\ \A v \in Savers : v # w => saving'[v] = saving[v]
  BY DEF ProfileInv, EndSave
<1>4. Saving' = Saving \ {w} /\ w \in Saving
  BY <1>3 DEF Saving, EndSave
<1>5. ~torn' => Saving = {w} /\ prefs = Rows(saving[w].form)
  BY <1>4 DEF EndSave, ProfileInv
<1>6. ~torn' => Saving' = {}
  BY <1>4, <1>5
<1> QED
  BY <1>2, <1>3, <1>5, <1>6 DEF ProfileInv, ProfileSettled, EndSave

\* Its worker dies.
LEMMA DieSavingStep ==
    ASSUME ProfileInv, NEW w \in Savers, DieSaving(w)
    PROVE  ProfileInv'
<1>1. saving' \in [Savers -> {Nothing} \cup SaveJob] /\ torn'
  BY DEF ProfileInv, DieSaving
<1> QED
  BY <1>1 DEF ProfileInv, ProfileSettled, DieSaving

\* The pages, the assistant and the cart leave the profile alone.
LEMMA ProfileLeftAlone ==
    ASSUME ProfileInv, UNCHANGED profileVars
    PROVE  ProfileInv'
BY DEF ProfileInv, ProfileSettled, Saving, profileVars

\* One step of the builder.
LEMMA ProfileStep == ProfileInv /\ [BuilderNext]_builderVars => ProfileInv'
<1> SUFFICES ASSUME ProfileInv, [BuilderNext]_builderVars
             PROVE  ProfileInv'
  OBVIOUS
<1>1. CASE SaveProfile
  BY <1>1, StartSaveStep, CreateRowStep, EndSaveStep, DieSavingStep DEF SaveProfile
<1>2. Build => UNCHANGED profileVars
  BY DEF Build, OpenBuilder, Tick, Fill, SwitchBuilderStore
<1>3. Assist => UNCHANGED profileVars
  BY DEF Assist, Prompt, Recommend, OpenDraft, AddDraft, SaveDraft, shownVars
<1>4. Buy => UNCHANGED profileVars
  BY DEF Buy, AddToCart, AddFavorite, RemoveFavorite, Order
<1>5. CASE UNCHANGED builderVars
  BY <1>5, ProfileLeftAlone DEF builderVars
<1> QED
  BY <1>1, <1>2, <1>3, <1>4, <1>5, ProfileLeftAlone DEF BuilderNext

\* The profile, at every time.
LEMMA ProfileAlways == BuilderSpec => []ProfileInv
BY ProfileInit, ProfileStep, PTL DEF BuilderSpec

\* What a fill, a suggestion and the menu read of a whole profile is what was saved.
LEMMA TasteIsAsked ==
    ASSUME ProfileInv, ProfileSettled
    PROVE  /\ TasteOf.liked = asked.liked
           /\ TasteOf.disliked = asked.disliked
           /\ TasteOf.diet = asked.diet
<1>1. asked \in CleanForm /\ prefs = Rows(asked)
  BY DEF ProfileInv
<1>2. \A t : /\ <<"favorite", t>> \in prefs <=> t \in asked.liked
             /\ <<"dislike", t>> \in prefs <=> t \in asked.disliked
             /\ <<"dietary", t>> \in prefs <=> t \in asked.diet
  BY <1>1 DEF Rows
<1>3. asked.liked \subseteq Options /\ asked.disliked \subseteq Options /\ asked.diet \subseteq Diets
  BY <1>1 DEF CleanForm
<1> QED
  BY <1>2, <1>3 DEF TasteOf

\* The profile is the one saved last, and nothing in it is both liked and avoided,
\* unless saves overlapped or died (save_preference_profile, clean).
THEOREM ProfileWholeAlways == BuilderSpec => []ProfileWhole
<1>1. ProfileInv => ProfileWhole
  BY TasteIsAsked DEF ProfileInv, ProfileWhole, CleanForm
<1> QED
  BY <1>1, ProfileAlways, PTL

\* A selection, and a builder's page, have all their fields.
WholeSelection(sel) ==
    sel = [size |-> sel.size, soda |-> sel.soda, syrups |-> sel.syrups,
           addIns |-> sel.addIns, iceCream |-> sel.iceCream]

WholePage(p) ==
    /\ p = [is |-> p.is, item |-> p.item, sel |-> p.sel, edits |-> p.edits]
    /\ WholeSelection(p.sel)

\* The page shown.
PageInv == page.is = "builder" => WholePage(page)

-----------------------------------------------------------------------------
(* Fills *)

\* The first of a sequence of groups are members of a group.
LEMMA FirstAreMembers ==
    ASSUME NEW groups, NEW n, NEW R \in FirstOf(groups, n)
    PROVE  \A o \in R : \E j \in 1 .. Len(groups) : o \in groups[j]
<1>1. R \in SUBSET UpTo(groups, Len(groups))
  BY DEF FirstOf, kSubset
<1> QED
  BY <1>1 DEF UpTo

\* The first of some options are of them.
LEMMA CappedIs ==
    ASSUME NEW options, NEW n, NEW R \in Capped(options, n)
    PROVE  R \subseteq options
<1>1. Len(<<options>>) = 1 /\ <<options>>[1] = options
  OBVIOUS
<1>2. \A o \in R : \E j \in 1 .. Len(<<options>>) : o \in <<options>>[j]
  BY FirstAreMembers DEF Capped
<1>3. \A o \in R : \E j \in 1 .. 1 : o \in <<options>>[j]
  BY <1>1, <1>2
<1> QED
  BY <1>1, <1>3

\* _pick_best.
LEMMA FillSodaIs ==
    ASSUME NEW p, NEW soda, NEW item, NEW s \in FillSoda(p, soda, item)
    PROVE  \/ s = soda /\ soda # NoOption
           \/ Allowed(s, p.diet)
           \/ s = MENU_ITEMS[item].soda
BY DEF FillSoda, AllowedOf

\* _recommended_syrups.
LEMMA FillSyrupsAre ==
    ASSUME NEW p, NEW syrups, NEW item, NEW y \in FillSyrups(p, syrups, item), NEW o \in y
    PROVE  \/ o \in syrups
           \/ Allowed(o, p.diet)
           \/ o \in MENU_ITEMS[item].syrups
<1> DEFINE wanted == Syrups \ p.disliked
           ranked == << AllowedOf(wanted \cap p.counted, p.diet),
                        AllowedOf(wanted \cap p.liked, p.diet),
                        AllowedOf(MENU_ITEMS[item].syrups \ p.disliked, p.diet) >>
<1>1. CASE syrups # {}
  BY <1>1, CappedIs DEF FillSyrups
<1>2. CASE syrups = {} /\ UpTo(ranked, 3) = {}
  BY <1>2 DEF FillSyrups
<1>3. CASE syrups = {} /\ UpTo(ranked, 3) # {}
  <2>1. PICK n : y \in FirstOf(ranked, n)
    BY <1>3 DEF FillSyrups
  <2>2. PICK j \in 1 .. Len(ranked) : o \in ranked[j]
    BY <2>1, FirstAreMembers
  <2>3. \E options : o \in AllowedOf(options, p.diet)
    BY <2>2
  <2> QED
    BY <2>3 DEF AllowedOf
<1> QED
  BY <1>1, <1>2, <1>3

\* What goes with a soda is a sequence of groups.
Pairs == { {"fresh-mint"}, {"coconut-cream"}, {"lime-wedge"}, {"cream"} }

LEMMA PairingsAre ==
    ASSUME NEW soda
    PROVE  Pairings(soda) \in Seq(Pairs)
<1>1. << {"fresh-mint"}, {"coconut-cream"}, {"lime-wedge"} >> \in Seq(Pairs)
  BY DEF Pairs
<1>2. << {"lime-wedge"}, {"cream"} >> \in Seq(Pairs)
  BY DEF Pairs
<1>3. <<>> \in Seq(Pairs)
  OBVIOUS
<1> QED
  BY <1>1, <1>2, <1>3 DEF Pairings

\* _recommended_add_ins.
LEMMA FillAddInsAre ==
    ASSUME NEW p, NEW addIns, NEW item, NEW soda, NEW a \in FillAddIns(p, addIns, item, soda),
           NEW o \in a
    PROVE  o \in addIns \/ Allowed(o, p.diet)
<1> DEFINE wanted == AddIns \ p.disliked
           first == << wanted \cap p.counted, wanted \cap p.liked,
                       MENU_ITEMS[item].addIns \ p.disliked >>
           ranked == first \o Pairings(soda)
           allowed == [i \in DOMAIN ranked |-> AllowedOf(ranked[i], p.diet)]
<1>1. CASE addIns # {}
  BY <1>1, CappedIs DEF FillAddIns
<1>2. CASE addIns = {}
  <2>1. a \in FirstOf(allowed, 2)
    BY <1>2 DEF FillAddIns
  <2>2. PICK j \in 1 .. Len(allowed) : o \in allowed[j]
    BY <2>1, FirstAreMembers
  <2>3. DOMAIN ranked = 1 .. Len(ranked) /\ Len(ranked) \in Nat
    <3> DEFINE G == {first[1], first[2], first[3]} \cup Pairs
    <3>1. first \in Seq(G)
      OBVIOUS
    <3>2. Pairings(soda) \in Seq(G)
      BY PairingsAre
    <3>3. first \o Pairings(soda) \in Seq(G)
      BY <3>1, <3>2
    <3> QED
      BY <3>3
  <2>4. Len(allowed) = Len(ranked)
    BY <2>3
  <2>5. o \in AllowedOf(ranked[j], p.diet)
    BY <2>2, <2>3, <2>4
  <2> QED
    BY <2>5 DEF AllowedOf
<1> QED
  BY <1>1, <1>2

\* _recommended_ice_cream.
LEMMA FillIceCreamIs ==
    ASSUME NEW p, NEW iceCream, NEW item, NEW i \in FillIceCream(p, iceCream, item)
    PROVE  i = iceCream \/ i = NoOption \/ "dairy-free" \notin p.diet
BY DEF FillIceCream

\* What a fill adds to a selection, for any profile and any menu item.
LEMMA FillAdds ==
    ASSUME NEW p, NEW item, NEW posted, NEW sel, WholeSelection(sel),
           NEW soda \in FillSoda(p, posted, item),
           NEW syrups \in FillSyrups(p, sel.syrups, item),
           NEW addIns \in FillAddIns(p, sel.addIns, item, soda),
           NEW iceCream \in FillIceCream(p, sel.iceCream, item),
           NEW filled, filled = Filled(sel, soda, syrups, addIns, iceCream),
           NEW o \in {filled.soda} \cup Extras(filled)
    PROVE  \/ o \in ({posted} \ {NoOption}) \cup Extras(sel)
           \/ Allowed(o, p.diet)
           \/ o \in {MENU_ITEMS[item].soda} \cup MENU_ITEMS[item].syrups
           \/ o \in Scoop(filled) /\ "dairy-free" \notin p.diet
<1>1. /\ filled.soda = soda /\ filled.syrups = syrups
      /\ filled.addIns = addIns /\ filled.iceCream = iceCream
  BY DEF Filled, WholeSelection
<1>2. CASE o = soda
  BY <1>2, FillSodaIs
<1>3. CASE o \in syrups
  BY <1>3, FillSyrupsAre DEF Extras
<1>4. CASE o \in addIns
  BY <1>4, FillAddInsAre DEF Extras
<1>5. CASE o \in Scoop(filled)
  BY <1>1, <1>5, FillIceCreamIs DEF Scoop, Extras
<1> QED
  BY <1>1, <1>2, <1>3, <1>4, <1>5 DEF Extras

-----------------------------------------------------------------------------
(* The builder's page *)

\* No page at first.
LEMMA PageInit == BuilderInit => PageInv
BY DEF BuilderInit, PageInv, Nothing

\* A page that is opened.
LEMMA ShowStep ==
    ASSUME NEW item, NEW sel, WholeSelection(sel), Show(item, sel)
    PROVE  PageInv'
BY DEF Show, PageInv, WholePage

\* A tick changes one field.
LEMMA TickedIsWhole ==
    ASSUME NEW sel, WholeSelection(sel), NEW o \in Picks
    PROVE  WholeSelection(Ticked(sel, o))
<1>1. o \in Sodas \/ o \in Syrups \/ o \in AddIns \/ o \in IceCreams
  BY PickAssumption DEF Options
<1> QED
  BY <1>1 DEF WholeSelection, Ticked

\* One step of the builder.
LEMMA PageStep == PageInv /\ [BuilderNext]_builderVars => PageInv'
<1> SUFFICES ASSUME PageInv, [BuilderNext]_builderVars
             PROVE  PageInv'
  OBVIOUS
<1>1. CASE page' = page
  BY <1>1 DEF PageInv
<1>2. ASSUME NEW item \in Opened, OpenBuilder(item)
      PROVE  PageInv'
  <2>1. WholeSelection(Default(item))
    BY DEF WholeSelection, Default
  <2> QED
    BY <1>2, <2>1, ShowStep DEF OpenBuilder
<1>3. ASSUME NEW o \in Picks, Tick(o)
      PROVE  PageInv'
  <2>1. WholePage(page)
    BY <1>3 DEF PageInv, Tick
  <2>2. PICK sel : sel = Ticked(page.sel, o)
    OBVIOUS
  <2>3. WholeSelection(sel)
    BY <2>1, <2>2, TickedIsWhole DEF WholePage
  <2>4. page' = [page EXCEPT !.sel = sel, !.edits = @ + 1]
    BY <1>3, <2>2 DEF Tick
  <2> QED
    BY <2>1, <2>3, <2>4 DEF PageInv, WholePage
<1>4. ASSUME Fill
      PROVE  PageInv'
  <2>1. WholePage(page)
    BY <1>4 DEF PageInv, Fill
  <2>2. PICK s, y, a, i : page' = [page EXCEPT !.sel = Filled(@, s, y, a, i)]
    BY <1>4 DEF Fill
  <2>3. PICK sel : sel = Filled(page.sel, s, y, a, i)
    OBVIOUS
  <2>4. WholeSelection(sel)
    BY <2>1, <2>3 DEF WholePage, WholeSelection, Filled
  <2>5. page' = [page EXCEPT !.sel = sel]
    BY <2>2, <2>3
  <2> QED
    BY <2>1, <2>4, <2>5 DEF PageInv, WholePage
<1>5. ASSUME SwitchBuilderStore
      PROVE  PageInv'
  <2>1. WholePage(page)
    BY <1>5 DEF PageInv, SwitchBuilderStore
  <2>2. PICK sel : sel = Reopened(page.item, page.sel)
    OBVIOUS
  <2>3. WholeSelection(sel)
    BY <2>2 DEF WholeSelection, Reopened
  <2>4. page' = [page EXCEPT !.sel = sel]
    BY <1>5, <2>2 DEF SwitchBuilderStore
  <2> QED
    BY <2>1, <2>3, <2>4 DEF PageInv, WholePage
<1>6. ASSUME OpenDraft
      PROVE  PageInv'
  <2>1. WholeSelection(Reopened(draft.item, draft.sel))
    BY DEF WholeSelection, Reopened
  <2> QED
    BY <1>6, <2>1, ShowStep DEF OpenDraft
<1>7. ASSUME Recommend
      PROVE  PageInv'
  BY <1>7 DEF Recommend, PageInv
<1>8. ASSUME NEW item, NEW sel, page' = BuiltLine(item, sel)
      PROVE  PageInv'
  BY <1>8 DEF BuiltLine, PageInv
<1>9. ASSUME NEW name, AddFavorite(name)
      PROVE  PageInv'
  <2>1. PICK f : f = favorites[name]
    OBVIOUS
  <2>2. FavoriteLine(f).is = "cart"
    BY DEF FavoriteLine, BuiltLine
  <2>3. page' = FavoriteLine(f)
    BY <1>9, <2>1 DEF AddFavorite
  <2> QED
    BY <2>2, <2>3 DEF PageInv
<1>10. CASE SaveProfile
  BY <1>1, <1>10 DEF SaveProfile, StartSave, CreateRow, EndSave, DieSaving, shownVars
<1>11. CASE Build
  BY <1>2, <1>3, <1>4, <1>5, <1>11 DEF Build
<1>12. CASE Assist
  BY <1>1, <1>6, <1>7, <1>8, <1>12 DEF Assist, Prompt, AddDraft, SaveDraft, shownVars
<1>13. CASE Buy
  <2>1. CASE Order
    BY <2>1 DEF Order, PageInv, Nothing
  <2> QED
    BY <1>1, <1>8, <1>9, <1>13, <2>1 DEF Buy, AddToCart, RemoveFavorite, shownVars
<1>14. CASE UNCHANGED builderVars
  BY <1>1, <1>14 DEF builderVars, shownVars
<1> QED
  BY <1>10, <1>11, <1>12, <1>13, <1>14 DEF BuilderNext

\* What a fill adds suits the diet saved last.
LEMMA FillKeeps ==
    ASSUME ProfileInv, PageInv, ProfileSettled, Fill,
           NEW o \in OptionsOf(page'.sel) \ OptionsOf(page.sel)
    PROVE  \/ Allowed(o, asked.diet)
           \/ o \in {MENU_ITEMS[page.item].soda} \cup MENU_ITEMS[page.item].syrups
           \/ o \in Scoop(page'.sel) /\ "dairy-free" \notin asked.diet
<1>1. WholePage(page)
  BY DEF PageInv, Fill
<1>2. PICK p, sel, item : p = TasteOf /\ sel = page.sel /\ item = page.item
  OBVIOUS
<1>3. PICK posted, soda, syrups, addIns, iceCream :
        /\ posted \in {NoOption, sel.soda}
        /\ soda \in FillSoda(p, posted, item)
        /\ syrups \in FillSyrups(p, sel.syrups, item)
        /\ addIns \in FillAddIns(p, sel.addIns, item, soda)
        /\ iceCream \in FillIceCream(p, sel.iceCream, item)
        /\ page' = [page EXCEPT !.sel = Filled(@, soda, syrups, addIns, iceCream)]
  BY <1>2 DEF Fill
<1>4. PICK filled : filled = Filled(sel, soda, syrups, addIns, iceCream)
  OBVIOUS
<1>5. page'.sel = filled
  <2>1. page' = [page EXCEPT !.sel = filled]
    BY <1>2, <1>3, <1>4
  <2> QED
    BY <1>1, <2>1 DEF WholePage
<1>6. WholeSelection(sel)
  BY <1>1, <1>2 DEF WholePage
<1>7. o \in {filled.soda} \cup Extras(filled) /\ o \notin {sel.soda} \cup Extras(sel)
  BY <1>2, <1>5 DEF OptionsOf
<1>8. \/ o \in ({posted} \ {NoOption}) \cup Extras(sel)
      \/ Allowed(o, p.diet)
      \/ o \in {MENU_ITEMS[item].soda} \cup MENU_ITEMS[item].syrups
      \/ o \in Scoop(filled) /\ "dairy-free" \notin p.diet
  BY <1>3, <1>4, <1>6, <1>7, FillAdds
<1>9. p.diet = asked.diet
  BY <1>2, TasteIsAsked
<1> QED
  BY <1>2, <1>3, <1>5, <1>7, <1>8, <1>9

\* What a fill adds suits the diet saved last, but for the menu item's own soda and
\* syrups, and for ice cream unless the diet is free of dairy
\* (recommend_builder_configuration).
THEOREM FillKeepsDietAlways == BuilderSpec => FillKeepsDiet
<1>1. ProfileInv /\ PageInv /\ [BuilderNext]_builderVars =>
        [ProfileSettled /\ page' # page /\ Fill =>
           \A o \in OptionsOf(page'.sel) \ OptionsOf(page.sel) :
              \/ Allowed(o, asked.diet)
              \/ o \in {MENU_ITEMS[page.item].soda} \cup MENU_ITEMS[page.item].syrups
              \/ o \in Scoop(page'.sel) /\ "dairy-free" \notin asked.diet]_builderVars
  BY FillKeeps
<1>2. BuilderSpec => []ProfileInv
  BY ProfileAlways
<1>3. BuilderSpec => []PageInv
  BY PageInit, PageStep, PTL DEF BuilderSpec
<1> QED
  BY <1>1, <1>2, <1>3, PTL DEF BuilderSpec, FillKeepsDiet

-----------------------------------------------------------------------------
(* Recommendations *)

\* What the menu says of an item.
LEMMA MenuItemIs ==
    ASSUME NEW i \in Items
    PROVE  /\ IsFiniteSet(MENU_ITEMS[i].syrups) /\ IsFiniteSet(MENU_ITEMS[i].addIns)
           /\ MENU_ITEMS[i].soda \in Ingredients(i)
           /\ MENU_ITEMS[i].syrups \subseteq Ingredients(i)
           /\ MENU_ITEMS[i].addIns \subseteq Ingredients(i)
           /\ {MENU_ITEMS[i].iceCream} \ {NoOption} \subseteq Ingredients(i)
           /\ IsFiniteSet(Ingredients(i))
<1>1. /\ i \in DOMAIN MENU_ITEMS
      /\ IsFiniteSet(Syrups) /\ IsFiniteSet(AddIns)
      /\ MENU_ITEMS[i].syrups \subseteq Syrups /\ MENU_ITEMS[i].addIns \subseteq AddIns
  BY ItemAssumption, CatalogAssumption
<1>2. IsFiniteSet(MENU_ITEMS[i].syrups) /\ IsFiniteSet(MENU_ITEMS[i].addIns)
  BY <1>1, FS_Subset
<1>3. IsFiniteSet({MENU_ITEMS[i].soda}) /\ IsFiniteSet({MENU_ITEMS[i].iceCream} \ {NoOption})
  BY FS_Singleton, FS_Difference
<1>4. IsFiniteSet(Ingredients(i))
  <2> DEFINE A == {MENU_ITEMS[i].soda} \cup MENU_ITEMS[i].syrups
             B == A \cup MENU_ITEMS[i].addIns
  <2>1. IsFiniteSet(A)
    BY <1>2, <1>3, FS_Union
  <2>2. IsFiniteSet(B)
    BY <1>2, <2>1, FS_Union
  <2>3. IsFiniteSet(B \cup ({MENU_ITEMS[i].iceCream} \ {NoOption}))
    BY <1>3, <2>2, FS_Union
  <2> QED
    BY <2>3 DEF Ingredients
<1> QED
  BY <1>2, <1>4 DEF Ingredients

\* Nothing chosen is no option.
LEMMA NoOptionIsNone == NoOption \notin Options
BY DEF NoOption, Options, Sodas, Syrups, AddIns, IceCreams

\* The liked ingredients of an item by their kind, the avoided ones, and its score.
Parts(p, i, a, b, c, d, n) ==
    /\ Score(p, i) = 1 + (IF i \in p.recipes THEN 6 ELSE 0)
                       + 4 * a + 3 * b + 2 * c + 2 * d - 5 * n
    /\ a = Cardinality({MENU_ITEMS[i].soda} \cap p.liked)
    /\ b = Cardinality(MENU_ITEMS[i].syrups \cap p.liked)
    /\ c = Cardinality(MENU_ITEMS[i].addIns \cap p.liked)
    /\ d = Cardinality({MENU_ITEMS[i].iceCream} \cap p.liked)
    /\ n = Cardinality(Ingredients(i) \cap p.disliked)

\* What likes add is not below zero, and the dislikes are counted.
LEMMA ScoreParts ==
    ASSUME NEW p, NEW i \in Items
    PROVE  \E a, b, c, d, n \in Nat : Parts(p, i, a, b, c, d, n)
<1> DEFINE Liked(S) == Cardinality(S \cap p.liked)
           n == Cardinality(Ingredients(i) \cap p.disliked)
<1>1. \A S : IsFiniteSet(S) => Liked(S) \in Nat
  BY FS_Intersection, FS_CardinalityType
<1>2. Liked({MENU_ITEMS[i].soda}) \in Nat /\ Liked({MENU_ITEMS[i].iceCream}) \in Nat
  BY <1>1, FS_Singleton
<1>3. Liked(MENU_ITEMS[i].syrups) \in Nat /\ Liked(MENU_ITEMS[i].addIns) \in Nat
  BY <1>1, MenuItemIs
<1>4. n \in Nat
  BY MenuItemIs, FS_Intersection, FS_CardinalityType
<1>5. Score(p, i) = 1 + (IF i \in p.recipes THEN 6 ELSE 0)
                      + 4 * Liked({MENU_ITEMS[i].soda}) + 3 * Liked(MENU_ITEMS[i].syrups)
                      + 2 * Liked(MENU_ITEMS[i].addIns) + 2 * Liked({MENU_ITEMS[i].iceCream})
                      - 5 * n
  BY DEF Score
<1> QED
  BY <1>2, <1>3, <1>4, <1>5 DEF Parts

\* An item with something avoided and nothing liked is below zero.
LEMMA AvoidedIsLow ==
    ASSUME NEW p, p.liked \subseteq Options, NEW i \in Items,
           Ingredients(i) \cap p.disliked # {}, Ingredients(i) \cap p.liked = {}, i \notin p.recipes
    PROVE  Score(p, i) \in Int /\ Score(p, i) < 0
<1>1. PICK a, b, c, d, n \in Nat : Parts(p, i, a, b, c, d, n)
  BY ScoreParts
<1>2. /\ {MENU_ITEMS[i].soda} \cap p.liked = {} /\ MENU_ITEMS[i].syrups \cap p.liked = {}
      /\ MENU_ITEMS[i].addIns \cap p.liked = {}
  BY MenuItemIs
<1>3. {MENU_ITEMS[i].iceCream} \cap p.liked = {}
  BY MenuItemIs, NoOptionIsNone
<1>4. a = 0 /\ b = 0 /\ c = 0 /\ d = 0
  BY <1>1, <1>2, <1>3, FS_EmptySet DEF Parts
<1>5. n # 0
  <2>1. IsFiniteSet(Ingredients(i) \cap p.disliked)
    BY MenuItemIs, FS_Intersection
  <2> QED
    BY <1>1, <2>1, FS_EmptySet DEF Parts
<1> QED
  BY <1>1, <1>4, <1>5 DEF Parts

\* An item with nothing avoided is not.
LEMMA SuitingIsHigh ==
    ASSUME NEW p, NEW i \in Items, Ingredients(i) \cap p.disliked = {}
    PROVE  Score(p, i) \in Int /\ Score(p, i) > 0
<1>1. PICK a, b, c, d, n \in Nat : Parts(p, i, a, b, c, d, n)
  BY ScoreParts
<1>2. n = 0
  BY <1>1, FS_EmptySet DEF Parts
<1>3. PICK bonus \in {0, 6} : bonus = (IF i \in p.recipes THEN 6 ELSE 0)
  OBVIOUS
<1>4. Score(p, i) = 1 + bonus + 4 * a + 3 * b + 2 * c + 2 * d
  BY <1>1, <1>2, <1>3 DEF Parts
<1> QED
  BY <1>4

\* What is recommended first.
LEMMA AvoidedLater ==
    ASSUME ProfileInv, ProfileSettled, Recommend,
           NEW i \in page'.items, NEW j \in Items \ page'.items,
           Ingredients(i) \cap asked.disliked # {}, Ingredients(j) \cap asked.disliked = {}
    PROVE  Ingredients(i) \cap asked.liked # {} \/ i \in TasteOf.recipes
<1>1. PICK p : p = TasteOf
  OBVIOUS
<1>2. p.liked = asked.liked /\ p.disliked = asked.disliked
  BY <1>1, TasteIsAsked
<1>3. p.liked \subseteq Options
  BY <1>2 DEF ProfileInv, CleanForm
<1>4. PICK best \in Best(p, Items, Limit) : page'.items = best
  BY <1>1 DEF Recommend
<1>5. best \subseteq Items /\ \A k \in best, l \in Items \ best : Score(p, k) >= Score(p, l)
  BY <1>4 DEF Best, kSubset
<1>6. Score(p, i) >= Score(p, j)
  BY <1>4, <1>5
<1>7. Score(p, j) \in Int /\ Score(p, j) > 0
  BY <1>2, SuitingIsHigh
<1>8. ASSUME Ingredients(i) \cap p.liked = {}, i \notin p.recipes
      PROVE  FALSE
  <2>1. i \in Items
    BY <1>4, <1>5
  <2>2. Score(p, i) \in Int /\ Score(p, i) < 0
    BY <1>2, <1>3, <1>8, <2>1, AvoidedIsLow
  <2> QED
    BY <1>6, <1>7, <2>2
<1> QED
  BY <1>1, <1>2, <1>8

\* What the customer avoids in part is not recommended before what suits, unless
\* something in it, or the drink, is liked (recommend_drink_menu_scores).
THEOREM AvoidedComesLastAlways == BuilderSpec => AvoidedComesLast
<1>1. ProfileInv /\ [BuilderNext]_builderVars =>
        [ProfileSettled /\ Recommend =>
           \A i \in page'.items, j \in Items \ page'.items :
              /\ Ingredients(i) \cap asked.disliked # {}
              /\ Ingredients(j) \cap asked.disliked = {}
              => Ingredients(i) \cap asked.liked # {} \/ i \in TasteOf.recipes]_builderVars
  BY AvoidedLater
<1> QED
  BY <1>1, ProfileAlways, PTL DEF BuilderSpec, AvoidedComesLast

=============================================================================
