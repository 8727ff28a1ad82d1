-------------------------- MODULE PeerSync_Proofs ---------------------------
(***************************************************************************)
(* What a delivery marked delivered means, what the nodes can show of an   *)
(* entity, and what they do show once nothing is left to do, for any number*)
(* of nodes, entities, events, time-outs and crashes.                      *)
(***************************************************************************)
EXTENDS PeerSync, TLAPS

-----------------------------------------------------------------------------
(* The invariant *)

\* Max is a CHOOSE: it says something of S only where this holds.
HasMax(S) == S \subseteq Nat /\ \E x \in S : \A y \in S : x >= y

Versions(k) ==
    {0} \cup {rows[Owner[k]][i].version :
                i \in {j \in DOMAIN rows[Owner[k]] : rows[Owner[k]][j].entity = k}}

\* The peer p has event i of node n.
Has(n, i, p) == \E j \in DOMAIN rows[p] : rows[p][j].origin = n /\ rows[p][j].id = i

Typed ==
    /\ rows \in [Nodes -> Seq(EventRow)]
    /\ projection \in [Nodes -> [Entities -> Nat]]

\* Every call is about a row of the node that makes it.
CallsTyped ==
    \A c \in requests \cup waiting \cup answers : c \in Call /\ c.id \in DOMAIN rows[c.from]

\* A row says the same of its event as the row it was made of.
IsCopy(event) ==
    /\ event.id \in DOMAIN rows[event.origin]
    /\ rows[event.origin][event.id].entity = event.entity
    /\ rows[event.origin][event.id].version = event.version

Copied == \A p \in Nodes : \A j \in DOMAIN rows[p] : IsCopy(rows[p][j])

\* What a node has dispatched it shows, or something newer.
Shown ==
    \A p \in Nodes : \A j \in DOMAIN rows[p] :
        rows[p][j].status = "dispatched" => projection[p][rows[p][j].entity] >= rows[p][j].version

DeliveredIsThere ==
    \A n \in Nodes : \A i \in DOMAIN rows[n] : \A p \in Nodes :
        rows[n][i].deliveries[p].status = "delivered" => Has(n, i, p)

SyncInv ==
    /\ Typed /\ CallsTyped /\ Copied /\ Shown /\ DeliveredIsThere
    /\ \A c \in answers : Has(c.from, c.id, c.to)
    /\ \A k \in Entities : HasMax(Versions(k))

-----------------------------------------------------------------------------
LEMMA EventFields ==
    ASSUME NEW e \in EventRow
    PROVE  /\ e.entity \in Entities /\ e.version \in Nat /\ e.origin \in Nodes /\ e.id \in Nat
           /\ e.status \in {"pending", "processing", "failed", "dispatched"}
           /\ e.deliveries \in [Nodes -> Delivery]
BY DEF EventRow

LEMMA RowFields ==
    ASSUME Typed, NEW p \in Nodes, NEW j \in DOMAIN rows[p]
    PROVE  /\ rows[p][j] \in EventRow
           /\ rows[p][j].entity \in Entities /\ rows[p][j].version \in Nat
           /\ rows[p][j].origin \in Nodes /\ rows[p][j].id \in Nat
<1>1. rows[p][j] \in EventRow
  BY DEF Typed
<1> QED
  BY <1>1, EventFields

-----------------------------------------------------------------------------
(* Versions *)

LEMMA MaxOf == ASSUME NEW S, HasMax(S) PROVE Max(S) \in Nat /\ Max(S) \in S
BY DEF HasMax, Max

LEMMA MaxGrows == ASSUME NEW S, HasMax(S), NEW v \in Nat PROVE HasMax(S \cup {v})
<1>1. PICK x \in S : \A y \in S : x >= y
  BY DEF HasMax
<1>2. S \subseteq Nat /\ x \in Nat
  BY DEF HasMax
<1>3. CASE x >= v
  BY <1>1, <1>2, <1>3 DEF HasMax
<1>4. CASE v >= x
  <2>1. \A y \in S \cup {v} : v >= y
    BY <1>1, <1>2, <1>4
  <2> QED
    BY <1>2, <2>1 DEF HasMax
<1> QED
  BY <1>2, <1>3, <1>4

LEMMA MaxOfTwo ==
    ASSUME NEW a \in Nat, NEW b \in Nat
    PROVE  Max({a, b}) \in Nat /\ Max({a, b}) >= a /\ Max({a, b}) >= b
<1>1. \E x \in {a, b} : \A y \in {a, b} : x >= y
  <2>1. CASE a >= b
    BY <2>1
  <2>2. CASE b >= a
    BY <2>2
  <2> QED
    BY <2>1, <2>2
<1>2. Max({a, b}) \in {a, b} /\ \A y \in {a, b} : Max({a, b}) >= y
  BY <1>1 DEF Max
<1> QED
  BY <1>2

LEMMA LatestTyped ==
    ASSUME SyncInv, NEW k \in Entities
    PROVE  Latest(k) \in Nat
<1>1. Latest(k) = Max(Versions(k))
  BY DEF Latest, Versions
<1> QED
  BY <1>1, MaxOf DEF SyncInv

\* _apply_event_to_projection never goes back, and goes as far as the event.
Advances == \A n \in Nodes, k \in Entities : projection'[n][k] >= projection[n][k]

LEMMA ProjectAdvances ==
    ASSUME Typed, NEW n \in Nodes, NEW event \in EventRow, Project(n, event)
    PROVE  /\ projection' \in [Nodes -> [Entities -> Nat]] /\ Advances
           /\ projection'[n][event.entity] >= event.version
<1>1. event.entity \in Entities /\ event.version \in Nat /\ projection[n][event.entity] \in Nat
  BY DEF Typed, EventRow
<1>2. PICK top \in Nat : /\ top = Max({projection[n][event.entity], event.version})
                         /\ top >= projection[n][event.entity] /\ top >= event.version
  BY <1>1, MaxOfTwo
<1>3. projection' = [projection EXCEPT ![n] = [projection[n] EXCEPT ![event.entity] = top]]
  BY <1>2 DEF Project
<1>4. projection' \in [Nodes -> [Entities -> Nat]]
  BY <1>1, <1>3 DEF Typed
<1>5. /\ projection'[n][event.entity] = top
      /\ \A m \in Nodes, k \in Entities :
           ~(m = n /\ k = event.entity) => projection'[m][k] = projection[m][k]
  BY <1>1, <1>3 DEF Typed
<1>6. \A m \in Nodes, k \in Entities : projection[m][k] \in Nat
  BY DEF Typed
<1>7. Advances
  BY <1>2, <1>5, <1>6 DEF Advances
<1> QED
  BY <1>2, <1>4, <1>5, <1>7

LEMMA NothingProjected ==
    ASSUME Typed, UNCHANGED projection
    PROVE  projection' \in [Nodes -> [Entities -> Nat]] /\ Advances
BY DEF Typed, Advances

-----------------------------------------------------------------------------
(* The steps, by what they do to the rows *)

\* A row keeps what it says of its event.
Same(e, f) == e.entity = f.entity /\ e.version = f.version /\ e.origin = f.origin /\ e.id = f.id

Grows ==
    \A n \in Nodes : \A i \in DOMAIN rows[n] : i \in DOMAIN rows'[n] /\ Same(rows'[n][i], rows[n][i])

LEMMA StillThere ==
    ASSUME Typed, Grows, NEW n, NEW i, NEW p \in Nodes, Has(n, i, p)
    PROVE  Has(n, i, p)'
BY DEF Grows, Has, Same

LEMMA StillCopied ==
    ASSUME SyncInv, Grows, NEW p \in Nodes, NEW j \in DOMAIN rows[p]
    PROVE  IsCopy(rows[p][j])'
<1>1. rows[p][j].origin \in Nodes
  BY RowFields DEF SyncInv
<1>2. IsCopy(rows[p][j])
  BY DEF SyncInv, Copied
<1>3. j \in DOMAIN rows'[p] /\ Same(rows'[p][j], rows[p][j])
  BY DEF Grows
<1>4. /\ rows[p][j].id \in DOMAIN rows'[rows[p][j].origin]
      /\ Same(rows'[rows[p][j].origin][rows[p][j].id], rows[rows[p][j].origin][rows[p][j].id])
  BY <1>1, <1>2 DEF Grows, IsCopy
<1> QED
  BY <1>2, <1>3, <1>4 DEF Same, IsCopy

\* No row changes.
LEMMA RowsKept ==
    ASSUME SyncInv, UNCHANGED <<rows, projection>>, CallsTyped',
           answers' \subseteq answers
    PROVE  SyncInv'
<1>1. Typed' /\ Copied' /\ Shown'
  BY DEF SyncInv, Typed, Copied, IsCopy, Shown
<1>2. DeliveredIsThere' /\ \A c \in answers' : Has(c.from, c.id, c.to)'
  BY DEF SyncInv, DeliveredIsThere, Has
<1>3. \A k \in Entities : HasMax(Versions(k))'
  BY DEF SyncInv, HasMax, Versions
<1> QED
  BY <1>1, <1>2, <1>3 DEF SyncInv

\* One row changes its status or its deliveries.
LEMMA RowUpdated ==
    ASSUME SyncInv, NEW n \in Nodes, NEW i \in DOMAIN rows[n], NEW e \in EventRow,
           Same(e, rows[n][i]),
           rows' = [rows EXCEPT ![n] = [rows[n] EXCEPT ![i] = e]],
           projection' \in [Nodes -> [Entities -> Nat]], Advances,
           e.status = "dispatched" =>
             rows[n][i].status = "dispatched" \/ projection'[n][e.entity] >= e.version,
           \A p \in Nodes : e.deliveries[p].status = "delivered" =>
             rows[n][i].deliveries[p].status = "delivered" \/ Has(n, i, p),
           CallsTyped', answers' \subseteq answers
    PROVE  SyncInv'
<1>1. /\ \A p \in Nodes : DOMAIN rows'[p] = DOMAIN rows[p]
      /\ \A p \in Nodes : p # n => rows'[p] = rows[p]
      /\ \A j \in DOMAIN rows[n] : rows'[n][j] = IF j = i THEN e ELSE rows[n][j]
  BY DEF SyncInv, Typed
<1>2. Typed'
  <2>1. rows'[n] \in Seq(EventRow)
    BY DEF SyncInv, Typed
  <2> QED
    BY <2>1 DEF SyncInv, Typed
<1>3. Grows
  BY <1>1 DEF Grows, Same
<1>4. Copied'
  BY <1>1, <1>3, StillCopied DEF Copied
<1>5. Shown'
  <2> SUFFICES ASSUME NEW p \in Nodes, NEW j \in DOMAIN rows'[p], rows'[p][j].status = "dispatched"
               PROVE  projection'[p][rows'[p][j].entity] >= rows'[p][j].version
    BY DEF Shown
  <2>1. /\ j \in DOMAIN rows[p] /\ Same(rows'[p][j], rows[p][j])
        /\ rows[p][j].entity \in Entities /\ rows[p][j].version \in Nat
    <3>1. j \in DOMAIN rows[p]
      BY <1>1
    <3> QED
      BY <1>3, <3>1, RowFields DEF Grows, SyncInv
  <2>2. CASE rows[p][j].status = "dispatched"
    <3>1. projection[p][rows[p][j].entity] >= rows[p][j].version
      BY <2>1, <2>2 DEF SyncInv, Shown
    <3>2. projection'[p][rows[p][j].entity] >= projection[p][rows[p][j].entity]
      BY <2>1 DEF Advances
    <3>3. projection'[p][rows[p][j].entity] \in Nat /\ projection[p][rows[p][j].entity] \in Nat
      BY <2>1 DEF SyncInv, Typed
    <3> QED
      BY <2>1, <3>1, <3>2, <3>3 DEF Same
  <2>3. CASE rows[p][j].status # "dispatched"
    BY <1>1, <2>1, <2>3
  <2> QED
    BY <2>2, <2>3
<1>6. DeliveredIsThere'
  <2> SUFFICES ASSUME NEW q \in Nodes, NEW j \in DOMAIN rows'[q], NEW p \in Nodes,
                      rows'[q][j].deliveries[p].status = "delivered"
               PROVE  Has(q, j, p)'
    BY DEF DeliveredIsThere
  <2>1. Has(q, j, p)
    BY <1>1 DEF SyncInv, DeliveredIsThere
  <2> QED
    BY <1>3, <2>1, StillThere DEF SyncInv
<1>7. ASSUME NEW c \in answers'
      PROVE  Has(c.from, c.id, c.to)'
  <2>1. c \in Call /\ Has(c.from, c.id, c.to)
    BY DEF SyncInv, CallsTyped
  <2> QED
    BY <1>3, <2>1, StillThere DEF SyncInv, Call
<1>8. ASSUME NEW k \in Entities
      PROVE  HasMax(Versions(k))'
  <2>1. Versions(k)' = Versions(k)
    BY <1>1, OwnerAssumption DEF Versions, Same
  <2> QED
    BY <2>1 DEF SyncInv, HasMax
<1> QED
  BY <1>2, <1>4, <1>5, <1>6, <1>7, <1>8 DEF SyncInv

\* A row is created, of an event of the node's own or of a peer's.
LEMMA RowAppended ==
    ASSUME SyncInv, NEW n \in Nodes, NEW e \in EventRow,
           rows' = [rows EXCEPT ![n] = Append(rows[n], e)],
           projection' \in [Nodes -> [Entities -> Nat]], Advances,
           e.status = "dispatched" => projection'[n][e.entity] >= e.version,
           \A p \in Nodes : e.deliveries[p].status # "delivered",
           (e.origin = n /\ e.id = Len(rows[n]) + 1) \/ IsCopy(e),
           CallsTyped',
           \A c \in answers' : c \in answers \/ (c.to = n /\ c.from = e.origin /\ c.id = e.id)
    PROVE  SyncInv'
<1> DEFINE last == Len(rows[n]) + 1
<1>1. /\ \A p \in Nodes : p # n => rows'[p] = rows[p]
      /\ rows[n] \in Seq(EventRow) /\ rows'[n] \in Seq(EventRow)
      /\ DOMAIN rows[n] = 1 .. Len(rows[n]) /\ Len(rows[n]) \in Nat
      /\ DOMAIN rows'[n] = DOMAIN rows[n] \cup {last}
      /\ \A j \in DOMAIN rows[n] : rows'[n][j] = rows[n][j] /\ j # last
      /\ rows'[n][last] = e
  BY DEF SyncInv, Typed
<1>2. Typed'
  BY <1>1 DEF SyncInv, Typed
<1> HIDE DEF last
<1>3. Grows
  BY <1>1 DEF Grows, Same
<1>4. Copied'
  <2> SUFFICES ASSUME NEW p \in Nodes, NEW j \in DOMAIN rows'[p]
               PROVE  IsCopy(rows[p][j])'
    BY DEF Copied
  <2>1. CASE j \in DOMAIN rows[p]
    BY <2>1, <1>3, StillCopied
  <2>2. CASE p = n /\ j = last
    <3>1. rows'[p][j] = e /\ e.origin \in Nodes
      BY <1>1, <2>2 DEF EventRow
    <3>2. CASE e.origin = n /\ e.id = last
      BY <1>1, <2>2, <3>1, <3>2 DEF IsCopy
    <3>3. CASE IsCopy(e)
      BY <1>3, <3>1, <3>3 DEF Grows, Same, IsCopy
    <3> QED
      BY <3>2, <3>3 DEF last
  <2> QED
    BY <1>1, <2>1, <2>2
<1>5. Shown'
  <2> SUFFICES ASSUME NEW p \in Nodes, NEW j \in DOMAIN rows'[p], rows'[p][j].status = "dispatched"
               PROVE  projection'[p][rows'[p][j].entity] >= rows'[p][j].version
    BY DEF Shown
  <2>1. CASE j \in DOMAIN rows[p]
    <3>1. /\ rows'[p][j] = rows[p][j]
          /\ rows[p][j].entity \in Entities /\ rows[p][j].version \in Nat
      BY <1>1, <2>1, RowFields DEF SyncInv
    <3>2. projection[p][rows[p][j].entity] >= rows[p][j].version
      BY <2>1, <3>1 DEF SyncInv, Shown
    <3>3. projection'[p][rows[p][j].entity] >= projection[p][rows[p][j].entity]
      BY <3>1 DEF Advances
    <3>4. projection'[p][rows[p][j].entity] \in Nat /\ projection[p][rows[p][j].entity] \in Nat
      BY <3>1 DEF SyncInv, Typed
    <3> QED
      BY <3>1, <3>2, <3>3, <3>4
  <2>2. CASE p = n /\ j = last
    BY <1>1, <2>2
  <2> QED
    BY <1>1, <2>1, <2>2
<1>6. DeliveredIsThere'
  <2> SUFFICES ASSUME NEW q \in Nodes, NEW j \in DOMAIN rows'[q], NEW p \in Nodes,
                      rows'[q][j].deliveries[p].status = "delivered"
               PROVE  Has(q, j, p)'
    BY DEF DeliveredIsThere
  <2>1. j \in DOMAIN rows[q] /\ rows'[q][j] = rows[q][j]
    BY <1>1
  <2>2. Has(q, j, p)
    BY <2>1 DEF SyncInv, DeliveredIsThere
  <2> QED
    BY <1>3, <2>2, StillThere DEF SyncInv
<1>7. ASSUME NEW c \in answers'
      PROVE  Has(c.from, c.id, c.to)'
  <2>1. CASE c \in answers
    <3>1. c \in Call /\ Has(c.from, c.id, c.to)
      BY <2>1 DEF SyncInv, CallsTyped
    <3> QED
      BY <1>3, <3>1, StillThere DEF SyncInv, Call
  <2>2. CASE c.to = n /\ c.from = e.origin /\ c.id = e.id
    BY <1>1, <2>2 DEF Has
  <2> QED
    BY <2>1, <2>2
<1>8. ASSUME NEW k \in Entities
      PROVE  HasMax(Versions(k))'
  <2>1. HasMax(Versions(k)) /\ e.version \in Nat /\ Owner[k] \in Nodes
    BY OwnerAssumption, EventFields DEF SyncInv
  <2>2. \A v : v \in Versions(k) <=>
            v = 0 \/ \E i \in DOMAIN rows[Owner[k]] :
                       rows[Owner[k]][i].entity = k /\ rows[Owner[k]][i].version = v
    BY DEF Versions
  <2>3. \A v : v \in Versions(k)' <=>
            v = 0 \/ \E i \in DOMAIN rows'[Owner[k]] :
                       rows'[Owner[k]][i].entity = k /\ rows'[Owner[k]][i].version = v
    BY DEF Versions
  <2>4. CASE Owner[k] = n
    <3>1. \A v : v \in Versions(k) <=>
              v = 0 \/ \E i \in DOMAIN rows[n] : rows[n][i].entity = k /\ rows[n][i].version = v
      BY <2>2, <2>4, Zenon
    <3>2. \A v : v \in Versions(k)' <=>
              v = 0 \/ \E i \in DOMAIN rows'[n] : rows'[n][i].entity = k /\ rows'[n][i].version = v
      BY <2>4 DEF Versions
    <3>3. \A v : (\E i \in DOMAIN rows'[n] : rows'[n][i].entity = k /\ rows'[n][i].version = v)
                 <=> \/ \E i \in DOMAIN rows[n] : rows[n][i].entity = k /\ rows[n][i].version = v
                     \/ e.entity = k /\ e.version = v
      BY <1>1
    <3>4. CASE e.entity = k
      <4>1. \A v : v \in Versions(k)' <=> v \in Versions(k) \/ v = e.version
        BY <3>1, <3>2, <3>3, <3>4, Zenon
      <4>2. Versions(k)' = Versions(k) \cup {e.version}
        BY <4>1
      <4>3. HasMax(Versions(k) \cup {e.version})
        BY <2>1, MaxGrows
      <4> QED
        BY <4>2, <4>3 DEF HasMax
    <3>5. CASE e.entity # k
      <4>1. \A v : v \in Versions(k)' <=> v \in Versions(k)
        BY <3>1, <3>2, <3>3, <3>5, Zenon
      <4>2. Versions(k)' = Versions(k)
        BY <4>1
      <4> QED
        BY <2>1, <4>2 DEF HasMax
    <3> QED
      BY <3>4, <3>5
  <2>5. CASE Owner[k] # n
    <3>1. \A v : v \in Versions(k)' <=> v \in Versions(k)
      BY <1>1, <2>1, <2>2, <2>3, <2>5
    <3>2. Versions(k)' = Versions(k)
      BY <3>1
    <3> QED
      BY <2>1, <3>2 DEF HasMax
  <2> QED
    BY <2>4, <2>5
<1> QED
  BY <1>2, <1>4, <1>5, <1>6, <1>7, <1>8 DEF SyncInv

-----------------------------------------------------------------------------
(* Every action *)

LEMMA SyncInit == Init => SyncInv
<1> SUFFICES ASSUME Init
             PROVE  SyncInv
  OBVIOUS
<1>1. Typed /\ CallsTyped
  BY DEF Init, Typed, CallsTyped
<1>2. Copied /\ Shown /\ DeliveredIsThere
  BY DEF Init, Copied, Shown, DeliveredIsThere
<1>3. ASSUME NEW k \in Entities
      PROVE  HasMax(Versions(k))
  <2>1. Versions(k) = {0}
    BY OwnerAssumption DEF Init, Versions
  <2> QED
    BY <2>1 DEF HasMax
<1> QED
  BY <1>1, <1>2, <1>3 DEF Init, SyncInv

\* The calls there are stay about rows there are.
LEMMA CallsKept ==
    ASSUME SyncInv,
           \A n \in Nodes : DOMAIN rows[n] \subseteq DOMAIN rows'[n],
           \A c \in (requests \cup waiting \cup answers)' :
             \/ c \in requests \cup waiting \cup answers
             \/ c \in Call /\ c.id \in DOMAIN rows[c.from]
    PROVE  CallsTyped'
BY DEF SyncInv, CallsTyped, Call

LEMMA CallToTyped ==
    ASSUME SyncInv, NEW n \in Nodes, NEW i \in DOMAIN rows[n], NEW p \in Nodes
    PROVE  LET c == CallTo(n, i, p) IN c \in Call /\ c.id \in DOMAIN rows[c.from]
<1>1. rows[n][i].deliveries[p] \in Delivery /\ i \in Nat
  BY RowFields, EventFields DEF SyncInv, Typed
<1> QED
  BY <1>1 DEF CallTo, Call, Delivery

Prepared(event, status, S) == WithDeliveries([event EXCEPT !.status = status], S)

LEMMA PreparedTyped ==
    ASSUME NEW event \in EventRow, NEW S,
           NEW status \in {"pending", "processing", "failed", "dispatched"}
    PROVE  /\ Prepared(event, status, S) \in EventRow
           /\ Same(Prepared(event, status, S), event)
           /\ Prepared(event, status, S).status = status
           /\ \A p \in Nodes : Prepared(event, status, S).deliveries[p].status = "delivered" =>
                                 event.deliveries[p].status = "delivered"
<1> DEFINE old == event.deliveries
           new == [p \in Nodes |-> IF p \in S /\ old[p].status = "none"
                                   THEN [NoDelivery EXCEPT !.status = "pending"] ELSE old[p]]
<1>1. old \in [Nodes -> Delivery]
  BY EventFields
<1>2. [NoDelivery EXCEPT !.status = "pending"] = [status |-> "pending", attempts |-> 0]
  BY DEF NoDelivery
<1>3. [NoDelivery EXCEPT !.status = "pending"] \in Delivery
  BY <1>2 DEF Delivery
<1>4. new \in [Nodes -> Delivery]
  BY <1>1, <1>3
<1>5. \A p \in Nodes : new[p].status = "delivered" => old[p].status = "delivered"
  BY <1>2
<1>6. Prepared(event, status, S) = [event EXCEPT !.status = status, !.deliveries = new]
  BY DEF Prepared, WithDeliveries, EventRow
<1> HIDE DEF new
<1> QED
  BY <1>4, <1>5, <1>6 DEF EventRow, Same

LEMMA NewRowTyped ==
    ASSUME NEW k \in Entities, NEW version \in Nat, NEW origin \in Nodes, NEW id \in Nat
    PROVE  LET new == NewRow(k, version, origin, id)
           IN  /\ new \in EventRow
               /\ new.entity = k /\ new.version = version /\ new.origin = origin /\ new.id = id
               /\ new.status = "pending"
               /\ \A p \in Nodes : new.deliveries[p].status # "delivered"
BY DEF NewRow, EventRow, Delivery, NoDelivery

\* A row changes its status and gets deliveries that wait to be sent.
LEMMA RowPrepared ==
    ASSUME SyncInv, NEW n \in Nodes, NEW i \in DOMAIN rows[n], NEW S,
           NEW status \in {"pending", "processing", "failed", "dispatched"},
           rows' = [rows EXCEPT ![n] = [rows[n] EXCEPT ![i] = Prepared(rows[n][i], status, S)]],
           projection' \in [Nodes -> [Entities -> Nat]], Advances,
           status = "dispatched" => projection'[n][rows[n][i].entity] >= rows[n][i].version,
           UNCHANGED <<requests, waiting, answers>>
    PROVE  SyncInv'
<1>1. rows[n][i] \in EventRow
  BY RowFields DEF SyncInv
<1>2. PICK e \in EventRow :
        /\ e = Prepared(rows[n][i], status, S)
        /\ Same(e, rows[n][i]) /\ e.status = status
        /\ \A p \in Nodes : e.deliveries[p].status = "delivered" =>
                              rows[n][i].deliveries[p].status = "delivered"
  BY <1>1, PreparedTyped
<1>3. rows' = [rows EXCEPT ![n] = [rows[n] EXCEPT ![i] = e]]
  BY <1>2
<1>4. \A m \in Nodes : DOMAIN rows[m] \subseteq DOMAIN rows'[m]
  BY <1>3 DEF SyncInv, Typed
<1>5. CallsTyped' /\ answers' \subseteq answers
  BY <1>4, CallsKept
<1>6. e.status = "dispatched" => projection'[n][e.entity] >= e.version
  BY <1>2 DEF Same
<1>7. Same(e, rows[n][i])
  BY <1>2
<1>8. \A p \in Nodes : e.deliveries[p].status = "delivered" =>
                         rows[n][i].deliveries[p].status = "delivered" \/ Has(n, i, p)
  BY <1>2
<1> HIDE <1>2
<1> QED
  BY <1>3, <1>5, <1>6, <1>7, <1>8, RowUpdated

LEMMA EmitStep == ASSUME SyncInv, NEW k \in Entities, Emit(k) PROVE SyncInv'
<1>1. PICK n \in Nodes : n = Owner[k]
  BY OwnerAssumption
<1>2. PICK v \in Nat : v = Latest(k) + 1
  BY LatestTyped
<1>3. Len(rows[n]) + 1 \in Nat
  BY DEF SyncInv, Typed
<1>4. PICK e : e = NewRow(k, v, n, Len(rows[n]) + 1)
  OBVIOUS
<1>5. /\ e \in EventRow /\ e.status # "dispatched"
      /\ (e.origin = n /\ e.id = Len(rows[n]) + 1) \/ IsCopy(e)
      /\ \A p \in Nodes : e.deliveries[p].status # "delivered"
  BY <1>3, <1>4, NewRowTyped
<1>6. rows' = [rows EXCEPT ![n] = Append(rows[n], e)]
  BY <1>1, <1>2, <1>4 DEF Emit
<1>7. projection' \in [Nodes -> [Entities -> Nat]] /\ Advances
  BY NothingProjected DEF Emit, SyncInv
<1>8. \A m \in Nodes : DOMAIN rows[m] \subseteq DOMAIN rows'[m]
  BY <1>5, <1>6 DEF SyncInv, Typed
<1>9. UNCHANGED <<requests, waiting, answers>>
  BY DEF Emit
<1>10. CallsTyped'
  BY <1>8, <1>9, CallsKept
<1> QED
  BY <1>5, <1>6, <1>7, <1>9, <1>10, RowAppended

\* A step of the outbox on row i of n.
OutboxStep(n, i) == Process(n, i) \/ ProcessFails(n, i) \/ RetryEvent(n, i) \/ ProcessDies(n, i)

LEMMA FailsProjects ==
    ASSUME NEW n \in Nodes, NEW event, Fails(n, event)
    PROVE  Project(n, event) \/ UNCHANGED projection
BY DEF Fails

LEMMA ProcessStep ==
    ASSUME SyncInv, NEW n \in Nodes, NEW i \in DOMAIN rows[n], OutboxStep(n, i)
    PROVE  SyncInv'
<1>1. Typed /\ rows[n][i] \in EventRow
  BY RowFields DEF SyncInv
<1>2. UNCHANGED <<requests, waiting, answers>>
  BY DEF OutboxStep, Process, ProcessFails, RetryEvent, ProcessDies
<1>3. Project(n, rows[n][i]) => /\ projection' \in [Nodes -> [Entities -> Nat]] /\ Advances
                                /\ projection'[n][rows[n][i].entity] >= rows[n][i].version
  BY <1>1, ProjectAdvances
<1>4. UNCHANGED projection => projection' \in [Nodes -> [Entities -> Nat]] /\ Advances
  BY <1>1, NothingProjected
<1>5. ASSUME NEW S, Project(n, rows[n][i]),
             rows' = [rows EXCEPT ![n][i] =
                        WithDeliveries([rows[n][i] EXCEPT !.status = "dispatched"], S)]
      PROVE  SyncInv'
  <2>1. rows' = [rows EXCEPT ![n] = [rows[n] EXCEPT ![i] = Prepared(rows[n][i], "dispatched", S)]]
    BY <1>5 DEF Prepared
  <2>2. /\ projection' \in [Nodes -> [Entities -> Nat]] /\ Advances
        /\ projection'[n][rows[n][i].entity] >= rows[n][i].version
    BY <1>3, <1>5
  <2> QED
    BY <1>2, <2>1, <2>2, RowPrepared
<1>6. ASSUME NEW status \in {"pending", "processing", "failed"},
             rows' = [rows EXCEPT ![n][i].status = status],
             Project(n, rows[n][i]) \/ UNCHANGED projection
      PROVE  SyncInv'
  <2>1. Prepared(rows[n][i], status, {}) = [rows[n][i] EXCEPT !.status = status]
    BY <1>1 DEF Prepared, WithDeliveries, EventRow
  <2>2. rows' = [rows EXCEPT ![n] = [rows[n] EXCEPT ![i] = Prepared(rows[n][i], status, {})]]
    BY <1>6, <2>1
  <2>3. projection' \in [Nodes -> [Entities -> Nat]] /\ Advances
    BY <1>3, <1>4, <1>6
  <2> QED
    BY <1>2, <2>2, <2>3, RowPrepared
<1>7. CASE Process(n, i)
  BY <1>5, <1>7 DEF Process
<1>8. CASE ProcessDies(n, i)
  BY <1>5, <1>6, <1>8 DEF ProcessDies
<1>9. CASE ProcessFails(n, i)
  BY <1>6, <1>9, FailsProjects DEF ProcessFails
<1>10. CASE RetryEvent(n, i)
  BY <1>6, <1>10 DEF RetryEvent
<1> QED
  BY <1>7, <1>8, <1>9, <1>10 DEF OutboxStep

LEMMA PushStep ==
    ASSUME SyncInv, NEW n \in Nodes, NEW i \in DOMAIN rows[n], NEW p \in Peers(n),
           Push(n, i, p) \/ RetryDelivery(n, i, p)
    PROVE  SyncInv'
<1>1. p \in Nodes
  BY DEF Peers
<1>2. PICK c : c = CallTo(n, i, p) /\ c \in Call /\ c.id \in DOMAIN rows[c.from]
  BY <1>1, CallToTyped
<1>3. requests' \subseteq requests \cup {c} /\ waiting' \subseteq waiting \cup {c}
      /\ UNCHANGED <<projection, answers>>
  BY <1>2 DEF Push, RetryDelivery, SendCall
<1>4. CASE Push(n, i, p)
  <2>1. UNCHANGED rows
    BY <1>4 DEF Push
  <2>2. CallsTyped'
    BY <1>2, <1>3, <2>1, CallsKept
  <2> QED
    BY <1>3, <2>1, <2>2, RowsKept
<1>5. CASE RetryDelivery(n, i, p)
  <2>1. PICK d : /\ d = [rows[n][i].deliveries EXCEPT ![p] = [rows[n][i].deliveries[p] EXCEPT !.status = "pending"]]
    OBVIOUS
  <2>2. PICK e : e = [rows[n][i] EXCEPT !.deliveries = d]
    OBVIOUS
  <2>3. rows[n][i] \in EventRow /\ rows[n][i].deliveries \in [Nodes -> Delivery]
    BY RowFields, EventFields DEF SyncInv
  <2>4. /\ d \in [Nodes -> Delivery]
        /\ \A q \in Nodes : d[q].status = "delivered" => rows[n][i].deliveries[q].status = "delivered"
    BY <1>1, <2>1, <2>3 DEF Delivery
  <2>5. e \in EventRow /\ Same(e, rows[n][i]) /\ e.deliveries = d /\ e.status = rows[n][i].status
    BY <2>2, <2>3, <2>4 DEF EventRow, Same
  <2>6. rows' = [rows EXCEPT ![n] = [rows[n] EXCEPT ![i] = e]]
    BY <1>5, <2>1, <2>2 DEF RetryDelivery
  <2>7. \A m \in Nodes : DOMAIN rows[m] \subseteq DOMAIN rows'[m]
    BY <2>6 DEF SyncInv, Typed
  <2>8. CallsTyped'
    BY <1>2, <1>3, <2>7, CallsKept
  <2>9. projection' \in [Nodes -> [Entities -> Nat]] /\ Advances
    BY <1>3, NothingProjected DEF SyncInv
  <2>10. /\ e.status = "dispatched" => rows[n][i].status = "dispatched"
         /\ \A q \in Nodes : e.deliveries[q].status = "delivered" =>
                               rows[n][i].deliveries[q].status = "delivered"
         /\ answers' \subseteq answers
    BY <1>3, <2>4, <2>5
  <2> QED
    BY <2>5, <2>6, <2>8, <2>9, <2>10, RowUpdated
<1> QED
  BY <1>4, <1>5

LEMMA AcceptStep == ASSUME SyncInv, NEW c, c \in waiting, Accept(c) PROVE SyncInv'
<1> DEFINE n == c.from
           i == c.id
           p == c.to
<1>1. /\ n \in Nodes /\ p \in Nodes /\ i \in DOMAIN rows[n] /\ Has(n, i, p)
  BY DEF Accept, Answered, SyncInv, CallsTyped, Call
<1> HIDE DEF n, i, p
<1>2. /\ rows' = [rows EXCEPT ![n][i].deliveries[p].status = "delivered"]
      /\ UNCHANGED projection
      /\ requests' = requests /\ waiting' \subseteq waiting /\ answers' \subseteq answers
  BY DEF Accept, n, i, p
<1>3. PICK d : d = [rows[n][i].deliveries EXCEPT ![p] = [rows[n][i].deliveries[p] EXCEPT !.status = "delivered"]]
  OBVIOUS
<1>4. PICK e : e = [rows[n][i] EXCEPT !.deliveries = d]
  OBVIOUS
<1>5. rows[n][i] \in EventRow /\ rows[n][i].deliveries \in [Nodes -> Delivery]
  BY <1>1, RowFields, EventFields DEF SyncInv
<1>6. /\ d \in [Nodes -> Delivery]
      /\ \A q \in Nodes : q # p => d[q] = rows[n][i].deliveries[q]
  BY <1>1, <1>3, <1>5 DEF Delivery
<1>7. e \in EventRow /\ Same(e, rows[n][i]) /\ e.deliveries = d /\ e.status = rows[n][i].status
  BY <1>4, <1>5, <1>6 DEF EventRow, Same
<1>8. rows' = [rows EXCEPT ![n] = [rows[n] EXCEPT ![i] = e]]
  BY <1>2, <1>3, <1>4
<1>9. \A m \in Nodes : DOMAIN rows[m] \subseteq DOMAIN rows'[m]
  BY <1>8 DEF SyncInv, Typed
<1>10. CallsTyped'
  BY <1>2, <1>9, CallsKept
<1>11. projection' \in [Nodes -> [Entities -> Nat]] /\ Advances
  BY <1>2, NothingProjected DEF SyncInv
<1>12. /\ e.status = "dispatched" => rows[n][i].status = "dispatched"
       /\ \A q \in Nodes : e.deliveries[q].status = "delivered" =>
                             rows[n][i].deliveries[q].status = "delivered" \/ Has(n, i, q)
  BY <1>1, <1>6, <1>7
<1> QED
  BY <1>1, <1>2, <1>7, <1>8, <1>10, <1>11, <1>12, RowUpdated

LEMMA TimeOutStep == ASSUME SyncInv, NEW c, c \in waiting, TimeOut(c) PROVE SyncInv'
<1> DEFINE n == c.from
           i == c.id
           p == c.to
<1>1. /\ n \in Nodes /\ p \in Nodes /\ i \in DOMAIN rows[n]
  BY DEF SyncInv, CallsTyped, Call
<1> HIDE DEF n, i, p
<1>2. /\ rows' = [rows EXCEPT ![n][i].deliveries[p] = [status |-> "failed", attempts |-> @.attempts + 1]]
      /\ UNCHANGED <<projection, answers>>
      /\ requests' \subseteq requests /\ waiting' \subseteq waiting
  BY DEF TimeOut, n, i, p
<1>3. PICK d : d = [rows[n][i].deliveries EXCEPT
                     ![p] = [status |-> "failed", attempts |-> rows[n][i].deliveries[p].attempts + 1]]
  OBVIOUS
<1>4. PICK e : e = [rows[n][i] EXCEPT !.deliveries = d]
  OBVIOUS
<1>5. rows[n][i] \in EventRow /\ rows[n][i].deliveries \in [Nodes -> Delivery]
  BY <1>1, RowFields, EventFields DEF SyncInv
<1>6. /\ d \in [Nodes -> Delivery]
      /\ \A q \in Nodes : d[q].status = "delivered" => rows[n][i].deliveries[q].status = "delivered"
  BY <1>1, <1>3, <1>5 DEF Delivery
<1>7. e \in EventRow /\ Same(e, rows[n][i]) /\ e.deliveries = d /\ e.status = rows[n][i].status
  BY <1>4, <1>5, <1>6 DEF EventRow, Same
<1>8. rows' = [rows EXCEPT ![n] = [rows[n] EXCEPT ![i] = e]]
  BY <1>2, <1>3, <1>4
<1>9. \A m \in Nodes : DOMAIN rows[m] \subseteq DOMAIN rows'[m]
  BY <1>8 DEF SyncInv, Typed
<1>10. CallsTyped'
  BY <1>2, <1>9, CallsKept
<1>11. projection' \in [Nodes -> [Entities -> Nat]] /\ Advances
  BY <1>2, NothingProjected DEF SyncInv
<1>12. /\ e.status = "dispatched" => rows[n][i].status = "dispatched"
       /\ \A q \in Nodes : e.deliveries[q].status = "delivered" =>
                             rows[n][i].deliveries[q].status = "delivered" \/ Has(n, i, q)
       /\ answers' \subseteq answers
  BY <1>2, <1>6, <1>7
<1> QED
  BY <1>1, <1>7, <1>8, <1>10, <1>11, <1>12, RowUpdated

\* The row a peer makes of an event is a copy, and the call may be answered.
LEMMA IngestStep ==
    ASSUME SyncInv, NEW c, c \in requests, Ingest(c) \/ IngestDies(c)
    PROVE  SyncInv'
<1> DEFINE event == rows[c.from][c.id]
           new == NewRow(event.entity, event.version, c.from, c.id)
<1>1. c.from \in Nodes /\ c.to \in Nodes /\ c.id \in Nat /\ c.id \in DOMAIN rows[c.from] /\ Typed
  BY DEF SyncInv, CallsTyped, Call
<1>2. event \in EventRow /\ event.entity \in Entities /\ event.version \in Nat
  BY <1>1, RowFields
<1>3. /\ new \in EventRow /\ IsCopy(new) /\ new.origin = c.from /\ new.id = c.id
      /\ new.entity = event.entity /\ new.version = event.version /\ new.status = "pending"
      /\ \A p \in Nodes : new.deliveries[p].status # "delivered"
  <2>1. /\ new \in EventRow /\ new.origin = c.from /\ new.id = c.id
        /\ new.entity = event.entity /\ new.version = event.version /\ new.status = "pending"
        /\ \A p \in Nodes : new.deliveries[p].status # "delivered"
    <3> HIDE DEF event
    <3> QED
      BY <1>1, <1>2, NewRowTyped
  <2>2. IsCopy(new)
    <3> HIDE DEF new
    <3> QED
      BY <1>1, <2>1 DEF IsCopy
  <2> QED
    BY <2>1, <2>2, Zenon
<1>4. /\ requests' = requests \ {c} /\ waiting' = waiting
      /\ answers' = answers \/ answers' = answers \cup {c}
  <2>1. CASE Ingest(c)
    BY <2>1 DEF Ingest
  <2>2. CASE IngestDies(c)
    BY <2>2 DEF IngestDies
  <2> QED
    BY <2>1, <2>2
<1>5. Project(c.to, event) => /\ projection' \in [Nodes -> [Entities -> Nat]] /\ Advances
                              /\ projection'[c.to][event.entity] >= event.version
  BY <1>1, <1>2, ProjectAdvances
<1>6. UNCHANGED projection => projection' \in [Nodes -> [Entities -> Nat]] /\ Advances
  BY <1>1, NothingProjected
<1> HIDE DEF event, new
<1>7. ASSUME NEW e, rows' = [rows EXCEPT ![c.to] = Append(rows[c.to], e)],
             e \in EventRow, Same(e, new),
             \A p \in Nodes : e.deliveries[p].status # "delivered",
             Project(c.to, event) \/ (e.status # "dispatched" /\ UNCHANGED projection)
      PROVE  SyncInv'
  <2>1. IsCopy(e) /\ e.origin = c.from /\ e.id = c.id
    BY <1>3, <1>7 DEF IsCopy, Same
  <2>2. \A m \in Nodes : DOMAIN rows[m] \subseteq DOMAIN rows'[m]
    BY <1>1, <1>7 DEF Typed
  <2>3. CallsTyped'
    BY <1>4, <2>2, CallsKept
  <2>4. projection' \in [Nodes -> [Entities -> Nat]] /\ Advances
    BY <1>5, <1>6, <1>7
  <2>5. e.status = "dispatched" => projection'[c.to][e.entity] >= e.version
    BY <1>3, <1>5, <1>7 DEF Same
  <2>6. \A a \in answers' : a \in answers \/ (a.to = c.to /\ a.from = e.origin /\ a.id = e.id)
    BY <1>4, <2>1
  <2> QED
    BY <1>1, <1>7, <2>1, <2>3, <2>4, <2>5, <2>6, RowAppended
<1>8. CASE Ingest(c) /\ Ingested(c)
  <2>1. UNCHANGED <<rows, projection>>
    BY <1>8 DEF Ingest
  <2>2. CallsTyped'
    BY <1>1, <1>4, <2>1, CallsKept
  <2>3. \A a \in answers' : Has(a.from, a.id, a.to)'
    BY <1>4, <1>8, <2>1 DEF Ingested, Has, SyncInv
  <2>4. Typed' /\ Copied' /\ Shown'
    BY <2>1 DEF SyncInv, Typed, Copied, IsCopy, Shown
  <2>5. DeliveredIsThere'
    BY <2>1 DEF SyncInv, DeliveredIsThere, Has
  <2>6. ASSUME NEW k \in Entities
        PROVE  HasMax(Versions(k))'
    <3>1. Versions(k)' = Versions(k)
      BY <2>1 DEF Versions
    <3> QED
      BY <3>1 DEF SyncInv, HasMax
  <2> QED
    BY <2>2, <2>3, <2>4, <2>5, <2>6 DEF SyncInv
<1>9. ASSUME rows' = [rows EXCEPT ![c.to] = Append(rows[c.to],
                        WithDeliveries([new EXCEPT !.status = "dispatched"], PushedTo(c.to, new)))],
             Project(c.to, event)
      PROVE  SyncInv'
  <2>1. /\ rows' = [rows EXCEPT ![c.to] = Append(rows[c.to], Prepared(new, "dispatched", PushedTo(c.to, new)))]
        /\ Project(c.to, event)
    BY <1>9 DEF Prepared
  <2>2. PICK e : e = Prepared(new, "dispatched", PushedTo(c.to, new))
    OBVIOUS
  <2>3. /\ e \in EventRow /\ Same(e, new)
        /\ \A p \in Nodes : e.deliveries[p].status # "delivered"
    BY <1>3, <2>2, PreparedTyped
  <2> QED
    BY <1>7, <2>1, <2>2, <2>3
<1>10. ASSUME NEW status \in {"pending", "processing", "failed"},
              rows' = [rows EXCEPT ![c.to] = Append(rows[c.to], [new EXCEPT !.status = status])],
              UNCHANGED projection \/ Project(c.to, event)
       PROVE  SyncInv'
  <2> DEFINE e == [new EXCEPT !.status = status]
  <2>1. /\ e \in EventRow /\ Same(e, new) /\ e.status # "dispatched"
        /\ \A p \in Nodes : e.deliveries[p].status # "delivered"
    BY <1>3 DEF EventRow, Same
  <2>2. rows' = [rows EXCEPT ![c.to] = Append(rows[c.to], e)]
    BY <1>10
  <2>3. Project(c.to, event) \/ (e.status # "dispatched" /\ UNCHANGED projection)
    BY <1>10, <2>1
  <2> HIDE DEF e
  <2> QED
    BY <1>7, <2>1, <2>2, <2>3
<1>11. CASE IngestDies(c)
  BY <1>10, <1>11 DEF IngestDies, event, new
<1>12. CASE Ingest(c) /\ ~Ingested(c)
  <2>1. Fails(c.to, event) => Project(c.to, event) \/ UNCHANGED projection
    BY <1>1, FailsProjects
  <2>2. \/ /\ Project(c.to, event)
           /\ rows' = [rows EXCEPT ![c.to] = Append(rows[c.to],
                         WithDeliveries([new EXCEPT !.status = "dispatched"], PushedTo(c.to, new)))]
        \/ /\ Fails(c.to, event)
           /\ rows' = [rows EXCEPT ![c.to] = Append(rows[c.to], [new EXCEPT !.status = "failed"])]
    BY <1>12 DEF Ingest, event, new
  <2> QED
    BY <1>9, <1>10, <2>1, <2>2
<1> QED
  BY <1>8, <1>11, <1>12

LEMMA SyncStep == SyncInv /\ [Next]_vars => SyncInv'
<1> SUFFICES ASSUME SyncInv, [Next]_vars
             PROVE  SyncInv'
  OBVIOUS
<1>1. ASSUME NEW n \in Nodes, NEW i \in DOMAIN rows[n], OnRow(n, i)
      PROVE  SyncInv'
  BY <1>1, ProcessStep, PushStep DEF OnRow, OutboxStep
<1>2. ASSUME NEW c, c \in waiting, PusherDies(c)
      PROVE  SyncInv'
  <2>1. UNCHANGED <<rows, projection, requests, answers>> /\ waiting' \subseteq waiting
    BY <1>2 DEF PusherDies
  <2>2. CallsTyped'
    BY <2>1, CallsKept
  <2> QED
    BY <2>1, <2>2, RowsKept
<1>3. ASSUME NEW c, OnCall(c)
      PROVE  SyncInv'
  <2>1. CASE Accept(c)
    <3>1. c \in waiting
      BY <2>1 DEF Accept, Answered
    <3> QED
      BY <2>1, <3>1, AcceptStep
  <2>2. CASE TimeOut(c)
    <3>1. c \in waiting
      BY <2>2 DEF TimeOut
    <3> QED
      BY <2>2, <3>1, TimeOutStep
  <2>3. CASE PusherDies(c)
    <3>1. c \in waiting
      BY <2>3 DEF PusherDies
    <3> QED
      BY <1>2, <2>3, <3>1
  <2>4. CASE Ingest(c)
    <3>1. c \in requests
      BY <2>4 DEF Ingest
    <3> QED
      BY <2>4, <3>1, IngestStep
  <2>5. CASE IngestDies(c)
    <3>1. c \in requests
      BY <2>5 DEF IngestDies
    <3> QED
      BY <2>5, <3>1, IngestStep
  <2> QED
    BY <1>3, <2>1, <2>2, <2>3, <2>4, <2>5 DEF OnCall
<1>4. CASE UNCHANGED vars
  <2>1. UNCHANGED <<rows, projection, requests, waiting, answers>>
    BY <1>4 DEF vars
  <2>2. CallsTyped'
    BY <2>1, CallsKept
  <2> QED
    BY <2>1, <2>2, RowsKept
<1> QED
  BY <1>1, <1>3, <1>4, EmitStep DEF Next

\* A delivery marked delivered is an event the peer has and, once the peer has
\* dispatched it, shows, through time-outs, late answers, retries and crashes
\* (push_event_to_peer and ingest_event_from_peer).
THEOREM DeliveredIsIngested == Spec => []DeliveredWasIngested
<1>1. SyncInv => DeliveredWasIngested
  <2> SUFFICES ASSUME SyncInv, NEW n \in Nodes, NEW i \in DOMAIN rows[n], NEW p \in Peers(n),
                      rows[n][i].deliveries[p].status = "delivered"
               PROVE  \E j \in DOMAIN rows[p] :
                        /\ rows[p][j].origin = n /\ rows[p][j].id = i
                        /\ rows[p][j].status = "dispatched" =>
                             projection[p][rows[n][i].entity] >= rows[n][i].version
    BY DEF DeliveredWasIngested
  <2>1. p \in Nodes
    BY DEF Peers
  <2>2. PICK j \in DOMAIN rows[p] : rows[p][j].origin = n /\ rows[p][j].id = i
    BY <2>1 DEF SyncInv, DeliveredIsThere, Has
  <2>3. rows[n][i].entity = rows[p][j].entity /\ rows[n][i].version = rows[p][j].version
    BY <2>1, <2>2 DEF SyncInv, Copied, IsCopy
  <2>4. rows[p][j].status = "dispatched" => projection[p][rows[p][j].entity] >= rows[p][j].version
    BY <2>1 DEF SyncInv, Shown
  <2> QED
    BY <2>2, <2>3, <2>4
<1> QED
  BY <1>1, SyncInit, SyncStep, PTL DEF Spec

-----------------------------------------------------------------------------
(* What the projections can show *)

\* An entity's events come from its owner.
Owned ==
    \A p \in Nodes : \A j \in DOMAIN rows[p] : rows[p][j].origin = Owner[rows[p][j].entity]

\* A node delivers its own events only, and to others.
OwnDeliveries ==
    \A n \in Nodes : \A i \in DOMAIN rows[n] : \A p \in Nodes :
        rows[n][i].deliveries[p].status # "none" => rows[n][i].origin = n /\ p # n

OwnCalls ==
    \A c \in requests \cup waiting : rows[c.from][c.id].origin = c.from /\ c.to # c.from

\* No projection is ahead of the owner.
Behind == \A n \in Nodes, k \in Entities : projection[n][k] <= Latest(k)

\* Unless a process was killed, a dispatched event has a delivery for every
\* peer, and one that is pending is in a task or in a call.
InHand(n, i, p) == <<i, p>> \in tasks[n] \/ \E c \in waiting : c.from = n /\ c.id = i /\ c.to = p

Settled(n, i, p) ==
    /\ rows[n][i].origin = n /\ rows[n][i].status = "dispatched" =>
         rows[n][i].deliveries[p].status # "none"
    /\ rows[n][i].deliveries[p].status = "pending" => InHand(n, i, p)

NoneLost ==
    crashes = 0 => \A n \in Nodes : \A i \in DOMAIN rows[n] : \A p \in Peers(n) : Settled(n, i, p)

Counted == tasks \in [Nodes -> SUBSET (Nat \X Nodes)] /\ crashes \in Nat

PushInv == Counted /\ Owned /\ OwnDeliveries /\ OwnCalls /\ Behind /\ NoneLost

LEMMA LatestIsMax ==
    ASSUME SyncInv, NEW k \in Entities
    PROVE  /\ Latest(k) \in Nat /\ Latest(k) \in Versions(k)
           /\ \A v \in Versions(k) : v <= Latest(k)
<1>1. Latest(k) = Max(Versions(k)) /\ HasMax(Versions(k))
  BY DEF Latest, Versions, SyncInv
<1>2. Max(Versions(k)) \in Versions(k) /\ \A v \in Versions(k) : Max(Versions(k)) >= v
  BY <1>1 DEF HasMax, Max
<1> QED
  BY <1>1, <1>2 DEF HasMax

\* Whatever a row says of an entity, its owner announced.
LEMMA RowIsPublished ==
    ASSUME SyncInv, Owned, NEW p \in Nodes, NEW j \in DOMAIN rows[p]
    PROVE  rows[p][j].version <= Latest(rows[p][j].entity)
<1> DEFINE event == rows[p][j]
<1>1. /\ event.entity \in Entities /\ event.origin = Owner[event.entity] /\ event.version \in Nat
  BY RowFields DEF SyncInv, Owned
<1>2. IsCopy(event)
  BY DEF SyncInv, Copied
<1>3. event.version \in Versions(event.entity)
  <2> HIDE DEF event
  <2> QED
    BY <1>1, <1>2 DEF IsCopy, Versions
<1> QED
  BY <1>1, <1>3, LatestIsMax

Steady == \A k \in Entities : Versions(k)' = Versions(k)

LEMMA SteadyLatest ==
    ASSUME Steady, NEW k \in Entities
    PROVE  Latest(k)' = Latest(k)
<1>1. Latest(k) = Max(Versions(k)) /\ Latest(k)' = Max(Versions(k)')
  BY DEF Latest, Versions
<1> QED
  BY <1>1 DEF Steady

\* Some node takes the version some row has of its entity, or nothing.
Projects ==
    \/ UNCHANGED projection
    \/ \E n \in Nodes, m \in Nodes : \E i \in DOMAIN rows[m] : Project(n, rows[m][i])

LEMMA ProjectTakes ==
    ASSUME Typed, NEW n \in Nodes, NEW event \in EventRow, Project(n, event)
    PROVE  \/ UNCHANGED projection
           \/ /\ event.version > projection[n][event.entity]
              /\ projection' = [projection EXCEPT ![n] = [projection[n] EXCEPT ![event.entity] = event.version]]
<1> DEFINE old == projection[n][event.entity]
<1>1. event.entity \in Entities /\ event.version \in Nat /\ old \in Nat
  BY DEF Typed, EventRow
<1>2. CASE event.version > old
  <2>1. Max({old, event.version}) = event.version
    BY <1>1, <1>2 DEF Max
  <2> QED
    BY <1>2, <2>1 DEF Project
<1>3. CASE ~(event.version > old)
  <2>1. Max({old, event.version}) = old
    BY <1>1, <1>3 DEF Max
  <2>2. projection' = [projection EXCEPT ![n] = [projection[n] EXCEPT ![event.entity] = old]]
    BY <2>1 DEF Project
  <2> QED
    BY <1>1, <2>2 DEF Typed
<1> QED
  BY <1>2, <1>3

\* Where no owner announces anything, a step moves one copy or none.
LEMMA SteadyStep ==
    ASSUME SyncInv, Owned, Behind, Steady, Projects
    PROVE  Behind' /\ [Contract!Next]_(Contract!rvars)
<1> DEFINE latest == [k \in Entities |-> Latest(k)]
           copy == [k \in Entities |-> [n \in Nodes |-> projection[n][k]]]
<1>1. \A k \in Entities : Latest(k)' = Latest(k)
  BY SteadyLatest
<1>2. latest' = latest
  BY <1>1
<1>3. CASE UNCHANGED projection
  <2>1. Behind'
    BY <1>1, <1>3 DEF Behind
  <2>2. copy' = copy
    BY <1>3
  <2> QED
    BY <1>2, <2>1, <2>2 DEF Contract!rvars
<1>4. CASE ~UNCHANGED projection
  <2>1. PICK n \in Nodes, m \in Nodes : \E i \in DOMAIN rows[m] : Project(n, rows[m][i])
    BY <1>4 DEF Projects
  <2>2. PICK i \in DOMAIN rows[m] : Project(n, rows[m][i])
    BY <2>1
  <2>3. PICK event : event = rows[m][i]
    OBVIOUS
  <2>4. PICK k \in Entities : k = event.entity
    BY <2>3, RowFields DEF SyncInv
  <2>5. PICK v \in Nat : v = event.version
    BY <2>3, RowFields DEF SyncInv
  <2>6. v <= Latest(k) /\ Latest(k) \in Nat
    BY <2>3, <2>4, <2>5, RowIsPublished, LatestTyped
  <2>7. v > projection[n][k] /\ projection' = [projection EXCEPT ![n] = [projection[n] EXCEPT ![k] = v]]
    BY <1>4, <2>2, <2>3, <2>4, <2>5, RowFields, ProjectTakes DEF SyncInv
  <2>8. \A a \in Nodes, b \in Entities :
            projection'[a][b] = IF a = n /\ b = k THEN v ELSE projection[a][b]
    BY <2>7 DEF SyncInv, Typed
  <2>9. Behind'
    BY <1>1, <2>6, <2>8 DEF Behind
  <2>10. copy' = [copy EXCEPT ![k][n] = v]
    <3>1. copy' = [b \in Entities |-> [a \in Nodes |-> IF a = n /\ b = k THEN v ELSE projection[a][b]]]
      BY <2>8
    <3> QED
      BY <3>1
  <2>11. copy[k][n] = projection[n][k] /\ latest[k] = Latest(k) /\ projection[n][k] \in Nat
    BY DEF SyncInv, Typed
  <2>12. v \in (copy[k][n] + 1) .. latest[k]
    BY <2>6, <2>7, <2>11
  <2>13. Contract!Advance(k, n)
    <3>1. \E w \in (copy[k][n] + 1) .. latest[k] : copy' = [copy EXCEPT ![k][n] = w]
      BY <2>10, <2>12
    <3> QED
      BY <1>2, <3>1 DEF Contract!Advance
  <2> QED
    BY <2>9, <2>13 DEF Contract!Next
<1> QED
  BY <1>3, <1>4

-----------------------------------------------------------------------------
(* What the steps do to deliveries and calls *)

LEMMA RowKeepsOrigin ==
    ASSUME SyncInv, Owned, OwnDeliveries, NEW n \in Nodes, NEW i \in DOMAIN rows[n], NEW e \in EventRow,
           Same(e, rows[n][i]),
           rows' = [rows EXCEPT ![n] = [rows[n] EXCEPT ![i] = e]],
           \A p \in Nodes : e.deliveries[p].status # "none" => rows[n][i].origin = n /\ p # n
    PROVE  Owned' /\ OwnDeliveries' /\ Steady
<1>1. /\ \A p \in Nodes : DOMAIN rows'[p] = DOMAIN rows[p]
      /\ \A p \in Nodes : p # n => rows'[p] = rows[p]
      /\ \A j \in DOMAIN rows[n] : rows'[n][j] = IF j = i THEN e ELSE rows[n][j]
  BY DEF SyncInv, Typed
<1>2. Owned'
  BY <1>1 DEF Owned, Same
<1>3. OwnDeliveries'
  <2> SUFFICES ASSUME NEW m \in Nodes, NEW j \in DOMAIN rows'[m], NEW p \in Nodes,
                      rows'[m][j].deliveries[p].status # "none"
               PROVE  rows'[m][j].origin = m /\ p # m
    BY DEF OwnDeliveries
  <2>1. CASE m = n /\ j = i
    BY <1>1, <2>1 DEF Same
  <2>2. CASE ~(m = n /\ j = i)
    BY <1>1, <2>2 DEF OwnDeliveries
  <2> QED
    BY <2>1, <2>2
<1>4. Steady
  BY <1>1, OwnerAssumption DEF Steady, Versions, Same
<1> QED
  BY <1>2, <1>3, <1>4

\* The node n gets the row e.
Adds(n, e) ==
    /\ rows' = [rows EXCEPT ![n] = Append(rows[n], e)]
    /\ e \in EventRow /\ e.origin = Owner[e.entity]
    /\ \A p \in Nodes : e.deliveries[p].status = "none"

LEMMA RowAdded ==
    ASSUME SyncInv, Owned, OwnDeliveries, NEW n \in Nodes, NEW e, Adds(n, e)
    PROVE  /\ Owned' /\ OwnDeliveries' /\ Grows
           /\ \A k \in Entities :
                Versions(k)' = IF k = e.entity /\ e.origin = n
                               THEN Versions(k) \cup {e.version} ELSE Versions(k)
           /\ \A m \in Nodes : \A j \in DOMAIN rows'[m] :
                \/ j \in DOMAIN rows[m] /\ rows'[m][j] = rows[m][j]
                \/ m = n /\ rows'[m][j] = e
<1> DEFINE last == Len(rows[n]) + 1
<1>1. /\ \A p \in Nodes : p # n => rows'[p] = rows[p]
      /\ DOMAIN rows'[n] = DOMAIN rows[n] \cup {last}
      /\ \A j \in DOMAIN rows[n] : rows'[n][j] = rows[n][j]
      /\ rows'[n][last] = e
  BY DEF SyncInv, Typed, Adds
<1> HIDE DEF last
<1>2. \A m \in Nodes : \A j \in DOMAIN rows'[m] :
          \/ j \in DOMAIN rows[m] /\ rows'[m][j] = rows[m][j]
          \/ m = n /\ rows'[m][j] = e
  BY <1>1
<1>3. Owned' /\ OwnDeliveries'
  BY <1>2 DEF Owned, OwnDeliveries, Adds
<1>4. Grows
  BY <1>1 DEF Grows, Same
<1>5. /\ \A k \in Entities : \A v : v \in Versions(k) <=>
            v = 0 \/ \E i \in DOMAIN rows[Owner[k]] :
                       rows[Owner[k]][i].entity = k /\ rows[Owner[k]][i].version = v
      /\ \A k \in Entities : \A v : v \in Versions(k)' <=>
            v = 0 \/ \E i \in DOMAIN rows'[Owner[k]] :
                       rows'[Owner[k]][i].entity = k /\ rows'[Owner[k]][i].version = v
  BY DEF Versions
<1>6. ASSUME NEW k \in Entities, k # e.entity \/ e.origin # n
      PROVE  Versions(k)' = Versions(k)
  <2>1. Owner[k] \in Nodes
    BY OwnerAssumption
  <2>2. k # e.entity \/ Owner[k] # n
    BY <1>6 DEF Adds
  <2>3. \A v : v \in Versions(k)' <=> v \in Versions(k)
    <3>1. CASE Owner[k] # n
      BY <1>1, <1>5, <2>1, <3>1
    <3>2. CASE Owner[k] = n /\ k # e.entity
      <4>1. \A v : (\E i \in DOMAIN rows'[n] : rows'[n][i].entity = k /\ rows'[n][i].version = v)
                   <=> \E i \in DOMAIN rows[n] : rows[n][i].entity = k /\ rows[n][i].version = v
        BY <1>1, <3>2
      <4> QED
        BY <1>5, <3>2, <4>1
    <3> QED
      BY <2>2, <3>1, <3>2
  <2> QED
    BY <2>3
<1>7. ASSUME e.origin = n
      PROVE  Versions(e.entity)' = Versions(e.entity) \cup {e.version}
  <2>1. PICK k \in Entities : k = e.entity /\ Owner[k] = n
    BY <1>7, EventFields DEF Adds
  <2>2. \A v : (\E i \in DOMAIN rows'[n] : rows'[n][i].entity = k /\ rows'[n][i].version = v)
               <=> \/ \E i \in DOMAIN rows[n] : rows[n][i].entity = k /\ rows[n][i].version = v
                   \/ v = e.version
    BY <1>1, <2>1
  <2>3. /\ \A v : v \in Versions(k) <=>
              v = 0 \/ \E i \in DOMAIN rows[n] : rows[n][i].entity = k /\ rows[n][i].version = v
        /\ \A v : v \in Versions(k)' <=>
              v = 0 \/ \E i \in DOMAIN rows'[n] : rows'[n][i].entity = k /\ rows'[n][i].version = v
    BY <2>1 DEF Versions
  <2>4. \A v : v \in Versions(k)' <=> v \in Versions(k) \/ v = e.version
    BY <2>2, <2>3, Zenon
  <2>5. Versions(k)' = Versions(k) \cup {e.version}
    BY <2>4
  <2> QED
    BY <2>1, <2>5
<1> QED
  BY <1>2, <1>3, <1>4, <1>6, <1>7

LEMMA OwnCallsKept ==
    ASSUME SyncInv, OwnCalls, Grows,
           \A c \in (requests \cup waiting)' :
             \/ c \in requests \cup waiting
             \/ /\ c \in Call /\ c.id \in DOMAIN rows[c.from]
                /\ rows[c.from][c.id].origin = c.from /\ c.to # c.from
    PROVE  OwnCalls'
<1> SUFFICES ASSUME NEW c \in (requests \cup waiting)'
             PROVE  rows'[c.from][c.id].origin = c.from /\ c.to # c.from
  BY DEF OwnCalls
<1>1. /\ c \in Call /\ c.id \in DOMAIN rows[c.from]
      /\ rows[c.from][c.id].origin = c.from /\ c.to # c.from
  BY DEF SyncInv, CallsTyped, OwnCalls
<1> QED
  BY <1>1 DEF Grows, Same, Call

\* For the peer p, nothing about row i of n changes but for the better.
Carried(n, i, p) ==
    /\ i \in DOMAIN rows[n]
    /\ rows'[n][i].origin = rows[n][i].origin /\ rows'[n][i].status = rows[n][i].status
    /\ rows'[n][i].deliveries[p].status = rows[n][i].deliveries[p].status
    /\ InHand(n, i, p) => InHand(n, i, p)'

LEMMA NoneLostKept ==
    ASSUME NoneLost, crashes' = 0 => crashes = 0,
           crashes' = 0 => \A n \in Nodes : \A i \in DOMAIN rows'[n] : \A p \in Peers(n) :
                             Carried(n, i, p) \/ Settled(n, i, p)'
    PROVE  NoneLost'
BY DEF NoneLost, Carried, Settled, Peers

\* A process was killed.
LEMMA NoneLostByCrash == ASSUME Counted, crashes' = crashes + 1 PROVE NoneLost'
BY DEF Counted, NoneLost

-----------------------------------------------------------------------------
(* Every action: the contract's step, and the invariant after it *)

LEMMA LatestAfter ==
    ASSUME SyncInv, NEW k \in Entities, Versions(k)' = Versions(k) \cup {Latest(k) + 1}
    PROVE  Latest(k)' = Latest(k) + 1
<1> DEFINE S == Versions(k) \cup {Latest(k) + 1}
<1>1. Latest(k) \in Nat /\ \A v \in Versions(k) : v <= Latest(k)
  BY LatestIsMax
<1>2. Latest(k)' = Max(S)
  BY DEF Latest, Versions
<1>3. Versions(k) \subseteq Nat
  BY DEF SyncInv, HasMax
<1>4. Latest(k) + 1 \in S /\ \A v \in S : v <= Latest(k) + 1 /\ v \in Nat
  BY <1>1, <1>3
<1> HIDE DEF S
<1>5. Max(S) \in S /\ \A v \in S : Max(S) >= v
  BY <1>4 DEF Max
<1> QED
  BY <1>1, <1>2, <1>4, <1>5

LEMMA EmitKeeps ==
    ASSUME SyncInv, PushInv, NEW k \in Entities, Emit(k)
    PROVE  PushInv' /\ Contract!Publish(k)
<1>1. PICK n \in Nodes : n = Owner[k]
  BY OwnerAssumption
<1>2. PICK v \in Nat : v = Latest(k) + 1
  BY LatestTyped
<1>3. PICK id \in Nat : id = Len(rows[n]) + 1
  BY DEF SyncInv, Typed
<1>4. PICK e : e = NewRow(k, v, n, id)
  OBVIOUS
<1>5. e \in EventRow /\ e.origin = n /\ e.entity = k /\ e.version = v /\ e.status = "pending"
  BY <1>4, NewRowTyped DEF NewRow
<1>6. \A p \in Nodes : e.deliveries[p].status = "none"
  BY <1>4 DEF NewRow, NoDelivery
<1>7. rows' = [rows EXCEPT ![n] = Append(rows[n], e)]
  BY <1>1, <1>2, <1>3, <1>4 DEF Emit
<1>8. UNCHANGED <<projection, tasks, requests, waiting, crashes>>
  BY DEF Emit
<1>9. /\ Owned' /\ OwnDeliveries' /\ Grows
      /\ \A l \in Entities : l # k => Versions(l)' = Versions(l)
      /\ Versions(k)' = Versions(k) \cup {v}
      /\ \A m \in Nodes : \A j \in DOMAIN rows'[m] :
                \/ j \in DOMAIN rows[m] /\ rows'[m][j] = rows[m][j]
                \/ m = n /\ rows'[m][j] = e
  <2>1. Adds(n, e)
    BY <1>1, <1>5, <1>6, <1>7 DEF Adds
  <2>4. Owned /\ OwnDeliveries
    BY DEF PushInv
  <2>2. /\ Owned' /\ OwnDeliveries' /\ Grows
        /\ \A m \in Nodes : \A j \in DOMAIN rows'[m] :
                \/ j \in DOMAIN rows[m] /\ rows'[m][j] = rows[m][j]
                \/ m = n /\ rows'[m][j] = e
    BY <2>1, <2>4, RowAdded
  <2>3. \A l \in Entities : Versions(l)' = IF l = e.entity /\ e.origin = n
                                           THEN Versions(l) \cup {e.version} ELSE Versions(l)
    BY <2>1, <2>4, RowAdded
  <2> QED
    BY <1>5, <2>2, <2>3
<1>10. \A l \in Entities : Latest(l)' = IF l = k THEN Latest(k) + 1 ELSE Latest(l)
  <2>1. Latest(k)' = Latest(k) + 1
    BY <1>2, <1>9, LatestAfter
  <2>2. ASSUME NEW l \in Entities, l # k
        PROVE  Latest(l)' = Latest(l)
    <3>1. Latest(l) = Max(Versions(l)) /\ Latest(l)' = Max(Versions(l)')
      BY DEF Latest, Versions
    <3> QED
      BY <1>9, <2>2, <3>1
  <2> QED
    BY <2>1, <2>2
<1>11. Behind'
  <2> SUFFICES ASSUME NEW m \in Nodes, NEW l \in Entities
               PROVE  projection'[m][l] <= Latest(l)'
    BY DEF Behind
  <2>1. projection[m][l] <= Latest(l) /\ projection[m][l] \in Nat /\ Latest(l) \in Nat
    BY LatestTyped DEF PushInv, Behind, SyncInv, Typed
  <2>2. Latest(l)' = Latest(l) \/ Latest(l)' = Latest(l) + 1
    BY <1>10
  <2> QED
    BY <1>8, <2>1, <2>2
<1>12. OwnCalls'
  BY <1>8, <1>9, OwnCallsKept DEF PushInv
<1>13. NoneLost'
  <2>1. ASSUME NEW m \in Nodes, NEW j \in DOMAIN rows'[m], NEW p \in Peers(m)
        PROVE  Carried(m, j, p) \/ Settled(m, j, p)'
    <3>1. CASE j \in DOMAIN rows[m] /\ rows'[m][j] = rows[m][j]
      BY <1>8, <3>1 DEF Carried, InHand
    <3>2. CASE rows'[m][j] = e
      BY <1>5, <1>6, <3>2 DEF Settled, Peers
    <3> QED
      BY <1>9, <3>1, <3>2
  <2> QED
    BY <1>8, <2>1, NoneLostKept DEF PushInv
<1>14. Contract!Publish(k)
  <2> DEFINE latest == [l \in Entities |-> Latest(l)]
  <2>1. latest' = [latest EXCEPT ![k] = @ + 1]
    BY <1>10
  <2> QED
    BY <1>8, <2>1 DEF Contract!Publish
<1> QED
  BY <1>8, <1>9, <1>11, <1>12, <1>13, <1>14 DEF PushInv, Counted

LEMMA PreparedDeliveries ==
    ASSUME NEW event \in EventRow, NEW S, NEW p \in Nodes,
           NEW status \in {"pending", "processing", "failed", "dispatched"}
    PROVE  LET before == event.deliveries[p].status
               after  == Prepared(event, status, S).deliveries[p].status
           IN  after = IF p \in S /\ before = "none" THEN "pending" ELSE before
<1> DEFINE old == event.deliveries
           new == [q \in Nodes |-> IF q \in S /\ old[q].status = "none"
                                   THEN [NoDelivery EXCEPT !.status = "pending"] ELSE old[q]]
<1>1. [NoDelivery EXCEPT !.status = "pending"].status = "pending"
  BY DEF NoDelivery
<1>2. Prepared(event, status, S).deliveries = new
  BY DEF Prepared, WithDeliveries, EventRow
<1>3. new[p].status = IF p \in S /\ old[p].status = "none" THEN "pending" ELSE old[p].status
  BY <1>1
<1> HIDE DEF new
<1> QED
  BY <1>2, <1>3

LEMMA StepAssembled ==
    ASSUME SyncInv, PushInv, Counted', Owned' /\ OwnDeliveries' /\ Steady, OwnCalls', Projects, NoneLost'
    PROVE  PushInv' /\ [Contract!Next]_(Contract!rvars)
<1>1. Behind' /\ [Contract!Next]_(Contract!rvars)
  BY SteadyStep DEF PushInv
<1> QED
  BY <1>1 DEF PushInv

\* Row i of n becomes e, which is still about the same event.
Becomes(n, i, e) ==
    /\ rows' = [rows EXCEPT ![n] = [rows[n] EXCEPT ![i] = e]]
    /\ e \in EventRow /\ Same(e, rows[n][i])
    /\ \A p \in Nodes : e.deliveries[p].status # "none" => rows[n][i].origin = n /\ p # n

\* Row i of n is the only one that changes.
OnlyRow(n, i, e) ==
    /\ \A m \in Nodes : DOMAIN rows'[m] = DOMAIN rows[m]
    /\ \A m \in Nodes : \A j \in DOMAIN rows[m] :
         rows'[m][j] = IF m = n /\ j = i THEN e ELSE rows[m][j]

LEMMA RowChanged ==
    ASSUME SyncInv, PushInv, NEW n \in Nodes, NEW i \in DOMAIN rows[n], NEW e, Becomes(n, i, e)
    PROVE  Owned' /\ OwnDeliveries' /\ Steady /\ Grows /\ OnlyRow(n, i, e)
<1>1. Owned' /\ OwnDeliveries' /\ Steady
  BY RowKeepsOrigin DEF PushInv, Becomes
<1>2. /\ \A p \in Nodes : DOMAIN rows'[p] = DOMAIN rows[p]
      /\ \A p \in Nodes : p # n => rows'[p] = rows[p]
      /\ \A j \in DOMAIN rows[n] : rows'[n][j] = IF j = i THEN e ELSE rows[n][j]
  BY DEF SyncInv, Typed, Becomes
<1>3. Grows
  BY <1>2 DEF Grows, Same, Becomes
<1>4. OnlyRow(n, i, e)
  BY <1>2 DEF OnlyRow
<1> QED
  BY <1>1, <1>3, <1>4

LEMMA ProcessKeeps ==
    ASSUME SyncInv, PushInv, NEW n \in Nodes, NEW i \in DOMAIN rows[n], OutboxStep(n, i)
    PROVE  PushInv' /\ [Contract!Next]_(Contract!rvars)
<1> DEFINE peers == PushedTo(n, rows[n][i])
<1>1. rows[n][i] \in EventRow /\ i \in Nat
  BY RowFields DEF SyncInv, Typed
<1>2. peers \subseteq Nodes /\ \A p \in peers : rows[n][i].origin = n /\ p # n
  BY DEF PushedTo, Peers
<1>3. UNCHANGED <<requests, waiting>> /\ Projects
  <2>1. UNCHANGED <<requests, waiting>>
    BY DEF OutboxStep, Process, ProcessFails, RetryEvent, ProcessDies
  <2>2. Project(n, rows[n][i]) \/ UNCHANGED projection
    BY FailsProjects DEF OutboxStep, Process, ProcessFails, RetryEvent, ProcessDies
  <2> QED
    BY <2>1, <2>2 DEF Projects
<1> HIDE DEF peers
<1>4. ASSUME NEW S \in SUBSET peers, NEW status \in {"pending", "processing", "failed", "dispatched"},
             NEW e, e = Prepared(rows[n][i], status, S),
             rows' = [rows EXCEPT ![n] = [rows[n] EXCEPT ![i] = e]]
      PROVE  /\ e \in EventRow /\ Same(e, rows[n][i]) /\ e.status = status
             /\ Owned' /\ OwnDeliveries' /\ Steady /\ OwnCalls' /\ OnlyRow(n, i, e)
  <2>1. e \in EventRow /\ Same(e, rows[n][i]) /\ e.status = status
    BY <1>1, <1>4, PreparedTyped
  <2>2. ASSUME NEW p \in Nodes, e.deliveries[p].status # "none"
        PROVE  rows[n][i].origin = n /\ p # n
    <3>1. p \in S \/ rows[n][i].deliveries[p].status # "none"
      BY <1>1, <1>4, <2>2, PreparedDeliveries
    <3> QED
      BY <1>2, <3>1 DEF PushInv, OwnDeliveries
  <2>3. Owned' /\ OwnDeliveries' /\ Steady /\ Grows /\ OnlyRow(n, i, e)
    <3>1. Becomes(n, i, e)
      BY <1>4, <2>1, <2>2 DEF Becomes
    <3> QED
      BY <3>1, RowChanged
  <2>4. OwnCalls'
    BY <1>3, <2>3, OwnCallsKept DEF PushInv
  <2> QED
    BY <2>1, <2>3, <2>4
<1>5. CASE Process(n, i)
  <2>1. PICK e : e = Prepared(rows[n][i], "dispatched", peers)
    OBVIOUS
  <2>2. rows' = [rows EXCEPT ![n] = [rows[n] EXCEPT ![i] = e]]
    BY <1>5, <2>1 DEF Process, Prepared, peers
  <2>3. /\ e \in EventRow /\ Same(e, rows[n][i]) /\ e.status = "dispatched"
        /\ Owned' /\ OwnDeliveries' /\ Steady /\ OwnCalls' /\ OnlyRow(n, i, e)
    BY <1>4, <2>1, <2>2
  <2>4. /\ tasks' = [tasks EXCEPT ![n] = tasks[n] \cup ({i} \X peers)]
        /\ crashes' = crashes
    BY <1>5 DEF Process, peers
  <2>5. Counted'
    BY <1>1, <1>2, <2>4 DEF PushInv, Counted
  <2>6. \A m \in Nodes : tasks[m] \subseteq tasks'[m]
    BY <2>4 DEF PushInv, Counted
  <2>7. \A p \in peers : <<i, p>> \in tasks'[n]
    BY <2>4 DEF PushInv, Counted
  <2>8. ASSUME crashes' = 0, NEW m \in Nodes, NEW j \in DOMAIN rows'[m], NEW p \in Peers(m)
        PROVE  Carried(m, j, p) \/ Settled(m, j, p)'
    <3>1. CASE ~(m = n /\ j = i)
      BY <1>3, <2>3, <2>6, <3>1 DEF OnlyRow, Carried, InHand
    <3>2. CASE m = n /\ j = i
      <4>1. p \in Nodes /\ (rows[n][i].origin = n => p \in peers)
        BY <3>2 DEF Peers, PushedTo, peers
      <4>2. e.deliveries[p].status = IF p \in peers /\ rows[n][i].deliveries[p].status = "none"
                                     THEN "pending" ELSE rows[n][i].deliveries[p].status
        BY <1>1, <2>1, <4>1, PreparedDeliveries
      <4>3. Settled(n, i, p)
        BY <2>4, <2>8, <3>2 DEF PushInv, NoneLost
      <4>4. InHand(n, i, p) => InHand(n, i, p)'
        BY <1>3, <2>6 DEF InHand
      <4>5. rows'[n][i] = e
        BY <2>3 DEF OnlyRow
      <4> QED
        BY <2>3, <2>7, <3>2, <4>1, <4>2, <4>3, <4>4, <4>5 DEF Settled, InHand, Same
    <3> QED
      BY <3>1, <3>2
  <2>9. NoneLost'
    BY <2>4, <2>8, NoneLostKept DEF PushInv
  <2> QED
    BY <1>3, <2>3, <2>5, <2>9, StepAssembled
<1>6. CASE ProcessDies(n, i)
  <2>1. PICK S \in SUBSET peers, status \in {"pending", "processing", "failed", "dispatched"} :
          rows' = [rows EXCEPT ![n] = [rows[n] EXCEPT ![i] = Prepared(rows[n][i], status, S)]]
    <3>1. CASE rows' = [rows EXCEPT ![n][i].status = "processing"]
      <4>1. Prepared(rows[n][i], "processing", {}) = [rows[n][i] EXCEPT !.status = "processing"]
        BY <1>1 DEF Prepared, WithDeliveries, EventRow
      <4>2. rows' = [rows EXCEPT ![n] = [rows[n] EXCEPT ![i] = Prepared(rows[n][i], "processing", {})]]
        BY <3>1, <4>1
      <4>3. {} \in SUBSET peers
        OBVIOUS
      <4> QED
        BY <4>2, <4>3
    <3>2. CASE \E created \in SUBSET peers :
                 rows' = [rows EXCEPT ![n][i] =
                            WithDeliveries([rows[n][i] EXCEPT !.status = "dispatched"], created)]
      <4>1. PICK created \in SUBSET peers :
              rows' = [rows EXCEPT ![n][i] =
                         WithDeliveries([rows[n][i] EXCEPT !.status = "dispatched"], created)]
        BY <3>2
      <4>2. rows' = [rows EXCEPT ![n] = [rows[n] EXCEPT ![i] = Prepared(rows[n][i], "dispatched", created)]]
        BY <4>1 DEF Prepared
      <4> QED
        BY <4>2
    <3> QED
      BY <1>6, <3>1, <3>2 DEF ProcessDies, peers
  <2>2. PICK e : e = Prepared(rows[n][i], status, S)
    OBVIOUS
  <2>3. Owned' /\ OwnDeliveries' /\ Steady /\ OwnCalls'
    BY <1>4, <2>1, <2>2
  <2>4. Counted' /\ NoneLost'
    <3>1. crashes' = crashes + 1 /\ tasks' = tasks
      BY <1>6 DEF ProcessDies
    <3> QED
      BY <3>1, NoneLostByCrash DEF PushInv, Counted
  <2> QED
    BY <1>3, <2>3, <2>4, StepAssembled
<1>7. CASE ProcessFails(n, i) \/ RetryEvent(n, i)
  <2>1. PICK status \in {"pending", "failed"} :
          rows' = [rows EXCEPT ![n] = [rows[n] EXCEPT ![i] = Prepared(rows[n][i], status, {})]]
    <3>1. PICK status \in {"pending", "failed"} : rows' = [rows EXCEPT ![n][i].status = status]
      BY <1>7 DEF ProcessFails, RetryEvent
    <3>2. Prepared(rows[n][i], status, {}) = [rows[n][i] EXCEPT !.status = status]
      BY <1>1 DEF Prepared, WithDeliveries, EventRow
    <3> QED
      BY <3>1, <3>2
  <2>2. PICK e : e = Prepared(rows[n][i], status, {})
    OBVIOUS
  <2>3. /\ e \in EventRow /\ Same(e, rows[n][i]) /\ e.status = status
        /\ Owned' /\ OwnDeliveries' /\ Steady /\ OwnCalls' /\ OnlyRow(n, i, e)
    <3>1. {} \in SUBSET peers
      OBVIOUS
    <3> QED
      BY <1>4, <2>1, <2>2, <3>1
  <2>4. tasks' = tasks /\ crashes' = crashes
    BY <1>7 DEF ProcessFails, RetryEvent
  <2>5. ASSUME crashes' = 0, NEW m \in Nodes, NEW j \in DOMAIN rows'[m], NEW p \in Peers(m)
        PROVE  Carried(m, j, p) \/ Settled(m, j, p)'
    <3>1. CASE ~(m = n /\ j = i)
      BY <1>3, <2>3, <2>4, <3>1 DEF OnlyRow, Carried, InHand
    <3>2. CASE m = n /\ j = i
      <4>1. p \in Nodes
        BY DEF Peers
      <4>2. e.deliveries[p].status = rows[n][i].deliveries[p].status
        BY <1>1, <2>2, <4>1, PreparedDeliveries
      <4>3. Settled(n, i, p)
        BY <2>4, <2>5, <3>2 DEF PushInv, NoneLost, OnlyRow
      <4>4. rows'[n][i] = e
        BY <2>3 DEF OnlyRow
      <4>5. InHand(n, i, p) => InHand(n, i, p)'
        BY <1>3, <2>4 DEF InHand
      <4> QED
        BY <2>3, <3>2, <4>2, <4>3, <4>4, <4>5 DEF Settled
    <3> QED
      BY <3>1, <3>2
  <2>6. NoneLost'
    BY <2>4, <2>5, NoneLostKept DEF PushInv
  <2>7. Counted'
    BY <2>4 DEF PushInv, Counted
  <2> QED
    BY <1>3, <2>3, <2>6, <2>7, StepAssembled
<1> QED
  BY <1>5, <1>6, <1>7 DEF OutboxStep

\* A call of a delivery is one its node may make.
LEMMA CallIsOwn ==
    ASSUME SyncInv, PushInv, NEW n \in Nodes, NEW i \in DOMAIN rows[n], NEW p \in Nodes,
           rows[n][i].deliveries[p].status # "none"
    PROVE  /\ CallTo(n, i, p) \in Call
           /\ CallTo(n, i, p).from = n /\ CallTo(n, i, p).id = i /\ CallTo(n, i, p).to = p
           /\ rows[n][i].origin = n /\ p # n
<1>1. CallTo(n, i, p) \in Call
  BY CallToTyped
<1> QED
  BY <1>1 DEF CallTo, PushInv, OwnDeliveries

LEMMA PushKeeps ==
    ASSUME SyncInv, PushInv, NEW n \in Nodes, NEW i \in DOMAIN rows[n], NEW p \in Peers(n), Push(n, i, p)
    PROVE  PushInv' /\ [Contract!Next]_(Contract!rvars)
<1>1. p \in Nodes /\ UNCHANGED <<rows, projection, crashes>>
  BY DEF Peers, Push
<1>2. Owned' /\ OwnDeliveries' /\ Steady /\ Grows /\ Projects
  BY <1>1 DEF PushInv, Owned, OwnDeliveries, Steady, Versions, Grows, Same, Projects
<1>3. tasks' = [tasks EXCEPT ![n] = tasks[n] \ {<<i, p>>}]
  BY DEF Push
<1>4. Counted'
  BY <1>1, <1>3 DEF PushInv, Counted
<1>5. OwnCalls'
  <2>1. CASE rows[n][i].deliveries[p].status = "pending"
    <3>1. requests' = requests \cup {CallTo(n, i, p)} /\ waiting' = waiting \cup {CallTo(n, i, p)}
      BY <2>1 DEF Push, SendCall
    <3> QED
      BY <1>1, <1>2, <2>1, <3>1, CallIsOwn, OwnCallsKept DEF PushInv
  <2>2. CASE rows[n][i].deliveries[p].status # "pending"
    BY <1>2, <2>2, OwnCallsKept DEF Push, PushInv
  <2> QED
    BY <2>1, <2>2
<1>6. waiting \subseteq waiting'
  BY DEF Push, SendCall
<1>7. ASSUME crashes' = 0, NEW m \in Nodes, NEW j \in DOMAIN rows'[m], NEW q \in Peers(m)
      PROVE  Carried(m, j, q) \/ Settled(m, j, q)'
  <2>1. CASE ~(m = n /\ j = i /\ q = p)
    <3>1. <<j, q>> \in tasks[m] => <<j, q>> \in tasks'[m]
      BY <1>3, <2>1 DEF PushInv, Counted
    <3> QED
      BY <1>1, <1>6, <3>1 DEF Carried, InHand
  <2>2. CASE m = n /\ j = i /\ q = p
    <3>1. CASE rows[n][i].deliveries[p].status = "pending"
      <4>1. CallTo(n, i, p) \in waiting'
        BY <3>1 DEF Push, SendCall
      <4>2. InHand(n, i, p)'
        BY <1>1, <3>1, <4>1, CallIsOwn DEF InHand
      <4> QED
        BY <1>1, <2>2, <4>2 DEF Carried
    <3>2. CASE rows[n][i].deliveries[p].status # "pending"
      BY <1>1, <1>7, <2>2, <3>2 DEF PushInv, NoneLost, Settled
    <3> QED
      BY <3>1, <3>2
  <2> QED
    BY <2>1, <2>2
<1>8. NoneLost'
  BY <1>1, <1>7, NoneLostKept DEF PushInv
<1> QED
  BY <1>2, <1>4, <1>5, <1>8, StepAssembled

LEMMA RetryKeeps ==
    ASSUME SyncInv, PushInv, NEW n \in Nodes, NEW i \in DOMAIN rows[n], NEW p \in Peers(n),
           RetryDelivery(n, i, p)
    PROVE  PushInv' /\ [Contract!Next]_(Contract!rvars)
<1>1. p \in Nodes /\ UNCHANGED <<projection, tasks, crashes>>
  BY DEF Peers, RetryDelivery
<1>2. PICK d : d = [rows[n][i].deliveries EXCEPT ![p] = [rows[n][i].deliveries[p] EXCEPT !.status = "pending"]]
  OBVIOUS
<1>3. PICK e : e = [rows[n][i] EXCEPT !.deliveries = d]
  OBVIOUS
<1>4. rows[n][i] \in EventRow /\ rows[n][i].deliveries \in [Nodes -> Delivery]
  BY RowFields, EventFields DEF SyncInv
<1>5. /\ d \in [Nodes -> Delivery] /\ d[p].status = "pending"
      /\ \A q \in Nodes : q # p => d[q] = rows[n][i].deliveries[q]
  BY <1>1, <1>2, <1>4 DEF Delivery
<1>6. e \in EventRow /\ Same(e, rows[n][i]) /\ e.deliveries = d /\ e.status = rows[n][i].status
  BY <1>3, <1>4, <1>5 DEF EventRow, Same
<1>7. rows' = [rows EXCEPT ![n] = [rows[n] EXCEPT ![i] = e]]
  BY <1>2, <1>3 DEF RetryDelivery
<1>8. rows[n][i].deliveries[p].status # "none"
  BY DEF RetryDelivery
<1>9. Becomes(n, i, e)
  BY <1>5, <1>6, <1>7, <1>8 DEF Becomes, PushInv, OwnDeliveries
<1>10. Owned' /\ OwnDeliveries' /\ Steady /\ Grows /\ OnlyRow(n, i, e)
  BY <1>9, RowChanged
<1>11. requests' = requests \cup {CallTo(n, i, p)} /\ waiting' = waiting \cup {CallTo(n, i, p)}
  BY DEF RetryDelivery, SendCall
<1>12. OwnCalls'
  BY <1>1, <1>8, <1>10, <1>11, CallIsOwn, OwnCallsKept DEF PushInv
<1>13. InHand(n, i, p)'
  BY <1>1, <1>8, <1>11, CallIsOwn DEF InHand
<1>14. ASSUME NEW m \in Nodes, NEW j \in DOMAIN rows'[m], NEW q \in Peers(m)
       PROVE  Carried(m, j, q) \/ Settled(m, j, q)'
  <2>1. j \in DOMAIN rows[m] /\ q \in Nodes
    BY <1>10 DEF OnlyRow, Peers
  <2>2. InHand(m, j, q) => InHand(m, j, q)'
    BY <1>1, <1>11 DEF InHand
  <2>3. CASE m = n /\ j = i /\ q = p
    <3>1. rows'[m][j] = e
      BY <1>10, <2>1, <2>3 DEF OnlyRow
    <3> QED
      BY <1>5, <1>6, <1>13, <2>3, <3>1 DEF Settled
  <2>4. CASE ~(m = n /\ j = i /\ q = p)
    BY <1>5, <1>6, <1>10, <2>1, <2>2, <2>4 DEF OnlyRow, Carried, Same
  <2> QED
    BY <2>3, <2>4
<1>15. NoneLost'
  BY <1>1, <1>14, NoneLostKept DEF PushInv
<1>16. Counted' /\ Projects
  BY <1>1 DEF PushInv, Counted, Projects
<1> QED
  BY <1>10, <1>12, <1>15, <1>16, StepAssembled

\* The answer came, or it is no longer waited for.
LEMMA CallEndsKeeps ==
    ASSUME SyncInv, PushInv, NEW c, c \in waiting, Accept(c) \/ TimeOut(c)
    PROVE  PushInv' /\ [Contract!Next]_(Contract!rvars)
<1> DEFINE n == c.from
           i == c.id
           p == c.to
<1>1. /\ n \in Nodes /\ p \in Nodes /\ i \in DOMAIN rows[n]
      /\ rows[n][i].origin = n /\ p # n
  BY DEF SyncInv, CallsTyped, Call, PushInv, OwnCalls
<1>2. /\ UNCHANGED <<projection, tasks, crashes>>
      /\ waiting' = waiting \ {c} /\ requests' \subseteq requests
  BY DEF Accept, TimeOut
<1>3. rows[n][i] \in EventRow /\ rows[n][i].deliveries \in [Nodes -> Delivery]
  BY <1>1, RowFields, EventFields DEF SyncInv
<1> HIDE DEF n, i, p
<1>4. PICK x \in Delivery : /\ x.status \in {"delivered", "failed"}
                            /\ rows' = [rows EXCEPT ![n][i].deliveries[p] = x]
  <2>1. rows[n][i].deliveries[p] \in Delivery
    BY <1>1, <1>3
  <2>2. CASE Accept(c)
    <3>1. [rows[n][i].deliveries[p] EXCEPT !.status = "delivered"] \in Delivery
          /\ [rows[n][i].deliveries[p] EXCEPT !.status = "delivered"].status = "delivered"
      BY <2>1 DEF Delivery
    <3>2. rows' = [rows EXCEPT ![n][i].deliveries[p] =
                     [rows[n][i].deliveries[p] EXCEPT !.status = "delivered"]]
      BY <2>2 DEF Accept, n, i, p
    <3> QED
      BY <3>1, <3>2
  <2>3. CASE TimeOut(c)
    <3> DEFINE x == [status |-> "failed", attempts |-> rows[n][i].deliveries[p].attempts + 1]
    <3>1. x \in Delivery /\ x.status = "failed"
      BY <2>1 DEF Delivery
    <3>2. rows' = [rows EXCEPT ![n][i].deliveries[p] = x]
      BY <2>3 DEF TimeOut, n, i, p
    <3> QED
      BY <3>1, <3>2
  <2> QED
    BY <2>2, <2>3
<1>5. PICK d : d = [rows[n][i].deliveries EXCEPT ![p] = x]
  OBVIOUS
<1>6. PICK e : e = [rows[n][i] EXCEPT !.deliveries = d]
  OBVIOUS
<1>7. /\ d \in [Nodes -> Delivery] /\ d[p] = x
      /\ \A q \in Nodes : q # p => d[q] = rows[n][i].deliveries[q]
  BY <1>1, <1>3, <1>5
<1>8. e \in EventRow /\ Same(e, rows[n][i]) /\ e.deliveries = d /\ e.status = rows[n][i].status
  BY <1>3, <1>6, <1>7 DEF EventRow, Same
<1>9. rows' = [rows EXCEPT ![n] = [rows[n] EXCEPT ![i] = e]]
  BY <1>4, <1>5, <1>6
<1>10. Becomes(n, i, e)
  BY <1>1, <1>7, <1>8, <1>9 DEF Becomes, PushInv, OwnDeliveries
<1>11. Owned' /\ OwnDeliveries' /\ Steady /\ Grows /\ OnlyRow(n, i, e)
  BY <1>1, <1>10, RowChanged
<1>12. OwnCalls'
  BY <1>2, <1>11, OwnCallsKept DEF PushInv
<1>13. ASSUME NEW m \in Nodes, NEW j \in DOMAIN rows'[m], NEW q \in Peers(m)
       PROVE  Carried(m, j, q) \/ Settled(m, j, q)'
  <2>1. j \in DOMAIN rows[m] /\ q \in Nodes
    BY <1>11 DEF OnlyRow, Peers
  <2>2. CASE m = n /\ j = i /\ q = p
    <3>1. rows'[m][j] = e
      BY <1>11, <2>1, <2>2 DEF OnlyRow
    <3> QED
      BY <1>4, <1>7, <1>8, <2>2, <3>1 DEF Settled
  <2>3. CASE ~(m = n /\ j = i /\ q = p)
    <3>1. InHand(m, j, q) => InHand(m, j, q)'
      BY <1>2, <2>3 DEF InHand, n, i, p
    <3> QED
      BY <1>7, <1>8, <1>11, <2>1, <2>3, <3>1 DEF OnlyRow, Carried, Same
  <2> QED
    BY <2>2, <2>3
<1>14. NoneLost'
  BY <1>2, <1>13, NoneLostKept DEF PushInv
<1>15. Counted' /\ Projects
  BY <1>2 DEF PushInv, Counted, Projects
<1> QED
  BY <1>11, <1>12, <1>14, <1>15, StepAssembled

LEMMA PusherDiesKeeps ==
    ASSUME SyncInv, PushInv, NEW c, c \in waiting, PusherDies(c)
    PROVE  PushInv' /\ [Contract!Next]_(Contract!rvars)
<1>1. UNCHANGED <<rows, projection, requests>> /\ waiting' \subseteq waiting /\ crashes' = crashes + 1
  BY DEF PusherDies
<1>2. Owned' /\ OwnDeliveries' /\ Steady /\ Grows /\ Projects
  BY <1>1 DEF PushInv, Owned, OwnDeliveries, Steady, Versions, Grows, Same, Projects
<1>3. OwnCalls'
  BY <1>1, <1>2, OwnCallsKept DEF PushInv
<1>4. Counted'
  <2>1. c.from \in Nodes /\ tasks' = [tasks EXCEPT ![c.from] = tasks[c.from] \ ({c.id} \X Nodes)]
    BY DEF PusherDies, SyncInv, CallsTyped, Call
  <2> QED
    BY <1>1, <2>1 DEF PushInv, Counted
<1>5. NoneLost'
  BY <1>1, NoneLostByCrash DEF PushInv
<1> QED
  BY <1>2, <1>3, <1>4, <1>5, StepAssembled

\* A peer's row is not the peer's to push.
LEMMA IngestKeeps ==
    ASSUME SyncInv, PushInv, NEW c, c \in requests, Ingest(c) \/ IngestDies(c)
    PROVE  PushInv' /\ [Contract!Next]_(Contract!rvars)
<1> DEFINE event == rows[c.from][c.id]
           new == NewRow(event.entity, event.version, c.from, c.id)
<1>1. /\ c.from \in Nodes /\ c.to \in Nodes /\ c.id \in Nat /\ c.id \in DOMAIN rows[c.from]
      /\ event.origin = c.from /\ c.to # c.from
  BY DEF SyncInv, CallsTyped, Call, PushInv, OwnCalls
<1>2. /\ event \in EventRow /\ event.entity \in Entities /\ event.version \in Nat
      /\ Owner[event.entity] = c.from
  BY <1>1, RowFields DEF SyncInv, PushInv, Owned
<1>3. /\ new \in EventRow /\ new.origin = c.from /\ new.entity = event.entity
      /\ \A p \in Nodes : new.deliveries[p].status = "none"
  <2> HIDE DEF event
  <2>1. new \in EventRow
    BY <1>1, <1>2, NewRowTyped
  <2>2. new.origin = c.from /\ new.entity = event.entity
    BY DEF NewRow
  <2>3. \A p \in Nodes : new.deliveries[p].status = "none"
    BY DEF NewRow, NoDelivery
  <2> HIDE DEF new
  <2> QED
    BY <2>1, <2>2, <2>3
<1> HIDE DEF new
<1>4. PushedTo(c.to, new) = {}
  BY <1>1, <1>3 DEF PushedTo
<1>5. requests' \subseteq requests /\ UNCHANGED waiting /\ crashes' \in {crashes, crashes + 1}
  <2>1. CASE Ingest(c)
    BY <2>1 DEF Ingest
  <2>2. CASE IngestDies(c)
    BY <2>2 DEF IngestDies
  <2> QED
    BY <2>1, <2>2
<1>6. Projects
  <2>1. Project(c.to, event) \/ UNCHANGED projection
    BY FailsProjects, <1>1 DEF Ingest, IngestDies
  <2> QED
    BY <1>1, <2>1 DEF Projects
<1> HIDE DEF event, new
<1>7. ASSUME NEW e, rows' = [rows EXCEPT ![c.to] = Append(rows[c.to], e)],
             e \in EventRow, e.origin = c.from, e.entity = event.entity,
             \A p \in Nodes : e.deliveries[p].status = "none",
             tasks' = tasks
      PROVE  PushInv' /\ [Contract!Next]_(Contract!rvars)
  <2>1. Adds(c.to, e) /\ e.origin # c.to
    BY <1>1, <1>2, <1>7 DEF Adds
  <2>2. Owned /\ OwnDeliveries
    BY DEF PushInv
  <2>3. /\ Owned' /\ OwnDeliveries' /\ Grows
        /\ \A m \in Nodes : \A j \in DOMAIN rows'[m] :
             \/ j \in DOMAIN rows[m] /\ rows'[m][j] = rows[m][j]
             \/ m = c.to /\ rows'[m][j] = e
    BY <1>1, <2>1, <2>2, RowAdded
  <2>4. \A k \in Entities : Versions(k)' = IF k = e.entity /\ e.origin = c.to
                                           THEN Versions(k) \cup {e.version} ELSE Versions(k)
    BY <1>1, <2>1, <2>2, RowAdded
  <2>5. Steady
    BY <2>1, <2>4 DEF Steady
  <2>6. OwnCalls'
    BY <1>5, <2>3, OwnCallsKept DEF PushInv
  <2>7. Counted'
    BY <1>5, <1>7 DEF PushInv, Counted
  <2>8. ASSUME NEW m \in Nodes, NEW j \in DOMAIN rows'[m], NEW p \in Peers(m)
        PROVE  Carried(m, j, p) \/ Settled(m, j, p)'
    <3>1. CASE j \in DOMAIN rows[m] /\ rows'[m][j] = rows[m][j]
      BY <1>5, <1>7, <3>1 DEF Carried, InHand
    <3>2. CASE m = c.to /\ rows'[m][j] = e
      BY <1>7, <2>1, <3>2 DEF Settled, Peers
    <3> QED
      BY <2>3, <3>1, <3>2
  <2>9. crashes' = 0 => crashes = 0
    BY <1>5 DEF PushInv, Counted
  <2>10. NoneLost'
    BY <2>8, <2>9, NoneLostKept DEF PushInv
  <2> QED
    BY <1>6, <2>3, <2>5, <2>6, <2>7, <2>10, StepAssembled
<1>8. CASE Ingest(c) /\ Ingested(c)
  <2>1. UNCHANGED <<rows, projection, tasks, waiting, crashes>>
    BY <1>8 DEF Ingest
  <2>2. Owned' /\ OwnDeliveries' /\ Steady /\ Grows
    BY <2>1 DEF PushInv, Owned, OwnDeliveries, Steady, Versions, Grows, Same
  <2>3. OwnCalls'
    BY <1>5, <2>2, OwnCallsKept DEF PushInv
  <2>4. Counted' /\ NoneLost'
    BY <2>1 DEF PushInv, Counted, NoneLost, Settled, InHand
  <2> QED
    BY <1>6, <2>2, <2>3, <2>4, StepAssembled
<1>9. ASSUME rows' = [rows EXCEPT ![c.to] = Append(rows[c.to],
                        WithDeliveries([new EXCEPT !.status = "dispatched"], PushedTo(c.to, new)))],
             tasks' = [tasks EXCEPT ![c.to] =
                         tasks[c.to] \cup ({Len(rows[c.to]) + 1} \X PushedTo(c.to, new))]
      PROVE  PushInv' /\ [Contract!Next]_(Contract!rvars)
  <2>1. /\ rows' = [rows EXCEPT ![c.to] = Append(rows[c.to], Prepared(new, "dispatched", {}))]
        /\ tasks' = [tasks EXCEPT ![c.to] = tasks[c.to] \cup ({Len(rows[c.to]) + 1} \X {})]
    BY <1>4, <1>9 DEF Prepared
  <2>2. tasks' = tasks
    BY <1>1, <2>1 DEF PushInv, Counted
  <2>3. PICK e : e = Prepared(new, "dispatched", {})
    OBVIOUS
  <2>4. e \in EventRow /\ e.origin = c.from /\ e.entity = event.entity
    BY <1>3, <2>3, PreparedTyped DEF Same
  <2>5. \A p \in Nodes : e.deliveries[p].status = "none"
    BY <1>3, <2>3, PreparedDeliveries
  <2> QED
    BY <1>7, <2>1, <2>2, <2>3, <2>4, <2>5
<1>10. ASSUME NEW status \in {"pending", "processing", "failed"},
              rows' = [rows EXCEPT ![c.to] = Append(rows[c.to], [new EXCEPT !.status = status])],
              tasks' = tasks
       PROVE  PushInv' /\ [Contract!Next]_(Contract!rvars)
  <2> DEFINE e == [new EXCEPT !.status = status]
  <2>1. /\ e \in EventRow /\ e.origin = new.origin /\ e.entity = new.entity
        /\ e.deliveries = new.deliveries
    BY <1>3 DEF EventRow
  <2>2. rows' = [rows EXCEPT ![c.to] = Append(rows[c.to], e)] /\ tasks' = tasks
    BY <1>10
  <2> HIDE DEF e
  <2>3. e.origin = c.from /\ e.entity = event.entity /\ \A p \in Nodes : e.deliveries[p].status = "none"
    BY <1>3, <2>1
  <2> QED
    BY <1>7, <2>1, <2>2, <2>3
<1>11. CASE IngestDies(c)
  BY <1>10, <1>11 DEF IngestDies, event, new
<1>12. CASE Ingest(c) /\ ~Ingested(c)
  <2>1. \/ /\ rows' = [rows EXCEPT ![c.to] = Append(rows[c.to],
                         WithDeliveries([new EXCEPT !.status = "dispatched"], PushedTo(c.to, new)))]
           /\ tasks' = [tasks EXCEPT ![c.to] =
                          tasks[c.to] \cup ({Len(rows[c.to]) + 1} \X PushedTo(c.to, new))]
        \/ /\ rows' = [rows EXCEPT ![c.to] = Append(rows[c.to], [new EXCEPT !.status = "failed"])]
           /\ tasks' = tasks
    BY <1>12 DEF Ingest, event, new
  <2> QED
    BY <1>9, <1>10, <2>1
<1> QED
  BY <1>8, <1>11, <1>12

LEMMA PushInit == Init => PushInv /\ Contract!Init
<1> SUFFICES ASSUME Init PROVE PushInv /\ Contract!Init
  OBVIOUS
<1>1. ASSUME NEW k \in Entities
      PROVE  Latest(k) = 0
  <2>1. SyncInv /\ Versions(k) = {0}
    BY SyncInit, OwnerAssumption DEF Init, Versions
  <2> QED
    BY <2>1, LatestIsMax
<1>2. Behind
  BY <1>1 DEF Init, Behind
<1>3. Counted /\ Owned /\ OwnDeliveries /\ OwnCalls /\ NoneLost
  BY DEF Init, Counted, Owned, OwnDeliveries, OwnCalls, NoneLost
<1>4. Contract!Init
  BY <1>1 DEF Init, Contract!Init
<1> QED
  BY <1>2, <1>3, <1>4 DEF PushInv

LEMMA PushStepKeeps ==
    SyncInv /\ PushInv /\ [Next]_vars => PushInv' /\ [Contract!Next]_(Contract!rvars)
<1> SUFFICES ASSUME SyncInv, PushInv, [Next]_vars
             PROVE  PushInv' /\ [Contract!Next]_(Contract!rvars)
  OBVIOUS
<1>1. ASSUME NEW k \in Entities, Emit(k)
      PROVE  PushInv' /\ [Contract!Next]_(Contract!rvars)
  BY <1>1, EmitKeeps DEF Contract!Next
<1>2. ASSUME NEW n \in Nodes, NEW i \in DOMAIN rows[n], OnRow(n, i)
      PROVE  PushInv' /\ [Contract!Next]_(Contract!rvars)
  BY <1>2, ProcessKeeps, PushKeeps, RetryKeeps DEF OnRow, OutboxStep
<1>3. ASSUME NEW c, OnCall(c)
      PROVE  PushInv' /\ [Contract!Next]_(Contract!rvars)
  <2>1. /\ Accept(c) \/ TimeOut(c) \/ PusherDies(c) => c \in waiting
        /\ Ingest(c) \/ IngestDies(c) => c \in requests
    BY DEF Accept, Answered, TimeOut, PusherDies, Ingest, IngestDies
  <2> QED
    BY <1>3, <2>1, CallEndsKeeps, PusherDiesKeeps, IngestKeeps DEF OnCall
<1>4. CASE UNCHANGED vars
  <2>1. Steady /\ Projects /\ Counted' /\ Owned' /\ OwnDeliveries' /\ OwnCalls' /\ NoneLost'
    BY <1>4 DEF vars, PushInv, Steady, Versions, Projects, Counted, Owned, OwnDeliveries, OwnCalls,
                NoneLost, Settled, InHand
  <2> QED
    BY <2>1, StepAssembled
<1> QED
  BY <1>1, <1>2, <1>3, <1>4 DEF Next

\* Through time-outs, repeated and late calls, retries and crashes, what the
\* nodes show of an entity only moves forward, and only to versions its owner
\* announced (ingest_event_from_peer and _apply_event_to_projection).
THEOREM PeersImplementReplica == Spec => ImplementsReplica
<1>1. Init => SyncInv /\ PushInv /\ Contract!Init
  BY SyncInit, PushInit
<1>2. SyncInv /\ PushInv /\ [Next]_vars
        => SyncInv' /\ PushInv' /\ [Contract!Next]_(Contract!rvars)
  BY SyncStep, PushStepKeeps
<1> QED
  BY <1>1, <1>2, PTL DEF Spec, ImplementsReplica, Contract!Spec

\* Where no process was killed and nothing is left to process, push, answer or
\* retry, every node shows every entity as its owner last announced it.
THEOREM QuietMeansConverged == Spec => []QuietIsConverged
<1>1. SyncInv /\ PushInv => QuietIsConverged
  <2> SUFFICES ASSUME SyncInv, PushInv, Quiet, crashes = 0, NEW n \in Nodes, NEW k \in Entities
               PROVE  projection[n][k] = Latest(k)
    BY DEF QuietIsConverged
  <2>1. projection[n][k] <= Latest(k) /\ projection[n][k] \in Nat /\ Latest(k) \in Nat
    BY LatestIsMax DEF PushInv, Behind, SyncInv, Typed
  <2>2. Latest(k) \in Versions(k)
    BY LatestIsMax
  <2>3. CASE Latest(k) = 0
    BY <2>1, <2>3
  <2>4. ASSUME NEW i \in DOMAIN rows[Owner[k]],
               rows[Owner[k]][i].entity = k, rows[Owner[k]][i].version = Latest(k)
        PROVE  projection[n][k] >= Latest(k)
    <3>1. PICK o \in Nodes : o = Owner[k]
      BY OwnerAssumption
    <3>2. /\ i \in DOMAIN rows[o] /\ rows[o][i].origin = o /\ rows[o][i].status = "dispatched"
          /\ rows[o][i].entity = k /\ rows[o][i].version = Latest(k)
      BY <2>4, <3>1 DEF PushInv, Owned, Quiet
    <3>3. CASE n = o
      BY <3>2, <3>3 DEF SyncInv, Shown
    <3>4. CASE n # o
      <4>1. Settled(o, i, n) /\ n \in Peers(o)
        BY <3>1, <3>2, <3>4 DEF PushInv, NoneLost, Peers
      <4>2. ~InHand(o, i, n)
        BY <3>1 DEF Quiet, InHand
      <4>3. /\ rows[o][i].deliveries[n].status \in {"none", "pending", "delivered", "failed"}
        BY <3>1, <3>2, RowFields, EventFields DEF SyncInv, Delivery
      <4>4. rows[o][i].deliveries[n].status = "delivered"
        BY <3>1, <3>2, <4>1, <4>2, <4>3 DEF Settled, Quiet
      <4>5. PICK j \in DOMAIN rows[n] : rows[n][j].origin = o /\ rows[n][j].id = i
        BY <3>1, <3>2, <4>4 DEF SyncInv, DeliveredIsThere, Has
      <4>6. rows[n][j].entity = k /\ rows[n][j].version = Latest(k)
        BY <3>2, <4>5 DEF SyncInv, Copied, IsCopy
      <4> QED
        BY <4>5, <4>6 DEF SyncInv, Shown, Quiet
    <3> QED
      BY <3>3, <3>4
  <2> QED
    BY <2>1, <2>2, <2>3, <2>4 DEF Versions
<1>2. Init => SyncInv /\ PushInv
  BY SyncInit, PushInit
<1>3. SyncInv /\ PushInv /\ [Next]_vars => SyncInv' /\ PushInv'
  BY SyncStep, PushStepKeeps
<1> QED
  BY <1>1, <1>2, <1>3, PTL DEF Spec

=============================================================================
