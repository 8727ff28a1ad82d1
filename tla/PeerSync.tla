------------------------------ MODULE PeerSync ------------------------------
(***************************************************************************)
(* Stores as peers (server/apps/sync, the distributed transport layer):    *)
(* each node runs the outbox of SyncOutbox on a database of its own and    *)
(* pushes what it dispatched to every peer's /sync/ingest/.  A push is an  *)
(* HTTP request with a time limit: it may be lost, answered too late, or   *)
(* sent again when the peer has long ingested it.                          *)
(*                                                                         *)
(* The processing of one event on one node is one step here, done or       *)
(* failed; SyncOutbox takes it apart.                                      *)
(***************************************************************************)
EXTENDS Naturals, Sequences, FiniteSetsExt

CONSTANTS
    Nodes,        \* STORE_ID of each node; PEER_STORES lists all the others
    Entities,     \* synchronized entities
    Owner,        \* the node whose services change an entity
    MaxEvents,    \* bound: events of each entity
    Stage,        \* EVENT_STAGE_ORDER of the events of each entity
    MaxTimeouts,  \* bound: pushes that end without an answer
    MaxCrashes    \* bound: processes killed, or a broker that refuses a task

ASSUME OwnerAssumption == Owner \in [Entities -> Nodes]
ASSUME BoundAssumption == MaxEvents \in [Entities -> Nat] /\ MaxTimeouts \in Nat /\ MaxCrashes \in Nat
ASSUME StageAssumption ==
    DOMAIN Stage = Entities /\ \A k \in Entities : Stage[k] \in [1 .. MaxEvents[k] -> Nat]

VARIABLES
    rows,         \* SyncOutboxEvent rows of each node
    projection,   \* last_entity_version of each entity at each node
    tasks,        \* deliveries the queued push tasks of each node will make
    requests,     \* POST /sync/ingest/ on their way
    answers,      \* 200 answers on their way back
    waiting,      \* calls a pusher waits for
    timeouts,
    crashes

vars == <<rows, projection, tasks, requests, answers, waiting, timeouts, crashes>>

-----------------------------------------------------------------------------
Peers(n) == Nodes \ {n}

\* "none": no SyncPeerDelivery row.
Delivery == [status: {"none", "pending", "delivered", "failed"}, attempts: Nat]
NoDelivery == [status |-> "none", attempts |-> 0]

\* origin: origin_node_id, the node itself for its own events (the code leaves
\* it empty); id: the row's place at the origin, which remote_event_id names.
EventRow == [entity: Entities, version: Nat, origin: Nodes, id: Nat,
             status: {"pending", "processing", "failed", "dispatched"},
             deliveries: [Nodes -> Delivery]]

Call == [from: Nodes, id: Nat, to: Nodes, attempt: Nat]

TypeOK ==
    /\ rows \in [Nodes -> Seq(EventRow)]
    /\ projection \in [Nodes -> [Entities -> Nat]]
    /\ tasks \in [Nodes -> SUBSET (Nat \X Nodes)]
    /\ requests \subseteq Call
    /\ answers \subseteq Call
    /\ waiting \subseteq Call
    /\ timeouts \in Nat
    /\ crashes \in Nat

Init ==
    /\ rows = [n \in Nodes |-> << >>]
    /\ projection = [n \in Nodes |-> [k \in Entities |-> 0]]
    /\ tasks = [n \in Nodes |-> {}]
    /\ requests = {}
    /\ answers = {}
    /\ waiting = {}
    /\ timeouts = 0
    /\ crashes = 0

-----------------------------------------------------------------------------
(* The outbox of a node *)

\* _next_entity_version, less one.
Latest(k) ==
    LET own == rows[Owner[k]]
    IN  Max({0} \cup {own[i].version : i \in {j \in DOMAIN own : own[j].entity = k}})

\* SyncOutboxEvent.objects.create: PENDING, no delivery yet.
NewRow(k, version, origin, id) ==
    [entity |-> k, version |-> version, origin |-> origin, id |-> id,
     status |-> "pending", deliveries |-> [p \in Nodes |-> NoDelivery]]

Emit(k) ==
    LET n == Owner[k]
    IN  /\ Latest(k) < MaxEvents[k]
        /\ rows' = [rows EXCEPT ![n] = Append(@, NewRow(k, Latest(k) + 1, n, Len(@) + 1))]
        /\ UNCHANGED <<projection, tasks, requests, answers, waiting, timeouts, crashes>>

\* Mutant: the version is not compared.
Project_Any(n, event) ==
    projection' = [projection EXCEPT ![n][event.entity] = event.version]

\* _validate_transition: a newer event may not go back in EVENT_STAGE_ORDER.
Regresses(n, event) ==
    LET shown == projection[n][event.entity]
    IN  /\ shown \in 1 .. (event.version - 1)
        /\ Stage[event.entity][event.version] < Stage[event.entity][shown]

\* _apply_event_to_projection: an older event is ignored.
Project(n, event) ==
    /\ ~Regresses(n, event)
    /\ projection' = [projection EXCEPT ![n][event.entity] = Max({@, event.version})]

\* Processing raises: the event regresses the node, or it is projected and one
\* of the notifications of it fails.
Fails(n, event) ==
    \/ Regresses(n, event) /\ UNCHANGED projection
    \/ event.version > projection[n][event.entity] /\ Project(n, event)

\* The peers push_event_to_all_peers creates deliveries for: only the node's
\* own events are pushed.
PushedTo(n, event) == IF event.origin = n THEN Peers(n) ELSE {}

\* get_or_create of one delivery per peer in S.
WithDeliveries(event, S) ==
    [event EXCEPT !.deliveries =
        [p \in Nodes |-> IF p \in S /\ @[p].status = "none"
                         THEN [NoDelivery EXCEPT !.status = "pending"] ELSE @[p]]]

\* process_outbox_event: projected, dispatched, deliveries created and the push
\* task queued.
Process(n, i) ==
    LET event == rows[n][i]
        peers == PushedTo(n, event)
    IN  /\ event.status = "pending"
        /\ Project(n, event)
        /\ rows' = [rows EXCEPT ![n][i] = WithDeliveries([event EXCEPT !.status = "dispatched"], peers)]
        /\ tasks' = [tasks EXCEPT ![n] = @ \cup ({i} \X peers)]
        /\ UNCHANGED <<requests, answers, waiting, timeouts, crashes>>

ProcessFails(n, i) ==
    /\ rows[n][i].status = "pending"
    /\ Fails(n, rows[n][i])
    /\ rows' = [rows EXCEPT ![n][i].status = "failed"]
    /\ UNCHANGED <<tasks, requests, answers, waiting, timeouts, crashes>>

\* retry_failed_outbox_events, one event at a time.
RetryEvent(n, i) ==
    /\ rows[n][i].status = "failed"
    /\ rows' = [rows EXCEPT ![n][i].status = "pending"]
    /\ UNCHANGED <<projection, tasks, requests, answers, waiting, timeouts, crashes>>

\* The process dies on the way: still marked PROCESSING, projected or not; or
\* dispatched with only some deliveries created; or with all of them and no
\* task, as when the broker refuses it and the exception is swallowed.
ProcessDies(n, i) ==
    LET event == rows[n][i]
    IN  /\ event.status = "pending"
        /\ crashes < MaxCrashes
        /\ crashes' = crashes + 1
        /\ \/ /\ rows' = [rows EXCEPT ![n][i].status = "processing"]
              /\ Project(n, event) \/ UNCHANGED projection
           \/ \E created \in SUBSET PushedTo(n, event) :
                /\ rows' = [rows EXCEPT ![n][i] =
                              WithDeliveries([event EXCEPT !.status = "dispatched"], created)]
                /\ Project(n, event)
        /\ UNCHANGED <<tasks, requests, answers, waiting, timeouts>>

-----------------------------------------------------------------------------
(* Push *)

CallTo(n, i, p) ==
    [from |-> n, id |-> i, to |-> p, attempt |-> rows[n][i].deliveries[p].attempts]

SendCall(n, i, p) ==
    /\ requests' = requests \cup {CallTo(n, i, p)}
    /\ waiting' = waiting \cup {CallTo(n, i, p)}

\* push_pending_peer_deliveries_async comes to the delivery of event i to p.
Push(n, i, p) ==
    /\ <<i, p>> \in tasks[n]
    /\ tasks' = [tasks EXCEPT ![n] = @ \ {<<i, p>>}]
    /\ IF rows[n][i].deliveries[p].status = "pending"
       THEN SendCall(n, i, p) ELSE UNCHANGED <<requests, waiting>>
    /\ UNCHANGED <<rows, projection, answers, timeouts, crashes>>

\* Mutant: the delivery is put back to pending, which nobody sends.
RetryDelivery_Unsent(n, i, p) ==
    /\ rows[n][i].deliveries[p].status = "failed"
    /\ rows' = [rows EXCEPT ![n][i].deliveries[p].status = "pending"]
    /\ UNCHANGED <<projection, tasks, requests, answers, waiting, timeouts, crashes>>

\* retry_failed_peer_deliveries: failed deliveries, and only those, are sent
\* again.
RetryDelivery(n, i, p) ==
    /\ rows[n][i].deliveries[p].status = "failed"
    /\ rows' = [rows EXCEPT ![n][i].deliveries[p].status = "pending"]
    /\ SendCall(n, i, p)
    /\ UNCHANGED <<projection, tasks, answers, timeouts, crashes>>

\* The answer the pusher of c is waiting for.
Answered(c) == c \in waiting /\ c \in answers

Accept(c) ==
    /\ Answered(c)
    /\ rows' = [rows EXCEPT ![c.from][c.id].deliveries[c.to].status = "delivered"]
    /\ waiting' = waiting \ {c}
    /\ answers' = answers \ {c}
    /\ UNCHANGED <<projection, tasks, requests, timeouts, crashes>>

\* requests.post raises: no connection, no answer in ten seconds, or an error
\* status.  The request itself may be lost or still on its way.
TimeOut(c) ==
    /\ c \in waiting
    /\ timeouts < MaxTimeouts
    /\ timeouts' = timeouts + 1
    /\ rows' = [rows EXCEPT ![c.from][c.id].deliveries[c.to] =
                  [status |-> "failed", attempts |-> @.attempts + 1]]
    /\ waiting' = waiting \ {c}
    /\ requests' \in {requests, requests \ {c}}
    /\ UNCHANGED <<projection, tasks, answers, crashes>>

\* The pusher is killed while it waits, and with it the rest of its task.
PusherDies(c) ==
    /\ c \in waiting
    /\ crashes < MaxCrashes
    /\ crashes' = crashes + 1
    /\ waiting' = waiting \ {c}
    /\ tasks' = [tasks EXCEPT ![c.from] = @ \ ({c.id} \X Nodes)]
    /\ UNCHANGED <<rows, projection, requests, answers, timeouts>>

-----------------------------------------------------------------------------
(* Ingest *)

\* Mutant: the origin is not part of the key.
Ingested_AnyOrigin(c) == \E j \in DOMAIN rows[c.to] : rows[c.to][j].id = c.id

\* The unique constraint on (origin_node_id, remote_event_id).
Ingested(c) ==
    \E j \in DOMAIN rows[c.to] : /\ rows[c.to][j].origin = c.from
                                 /\ rows[c.to][j].id = c.id

\* ingest_event_from_peer: an event it has already is answered at once; a new
\* one is created, processed, done or failed, and answered, 200 in any case.
Ingest(c) ==
    LET event == rows[c.from][c.id]
        new == NewRow(event.entity, event.version, c.from, c.id)
    IN  /\ c \in requests
        /\ requests' = requests \ {c}
        /\ answers' = answers \cup {c}
        /\ IF Ingested(c)
           THEN UNCHANGED <<rows, projection, tasks>>
           ELSE \/ /\ Project(c.to, event)
                   /\ rows' = [rows EXCEPT ![c.to] =
                        Append(@, WithDeliveries([new EXCEPT !.status = "dispatched"],
                                                 PushedTo(c.to, new)))]
                   /\ tasks' = [tasks EXCEPT ![c.to] =
                        @ \cup ({Len(rows[c.to]) + 1} \X PushedTo(c.to, new))]
                \/ /\ Fails(c.to, event)
                   /\ rows' = [rows EXCEPT ![c.to] = Append(@, [new EXCEPT !.status = "failed"])]
                   /\ UNCHANGED tasks
        /\ UNCHANGED <<waiting, timeouts, crashes>>

\* The peer dies after creating the row: still pending it is left to the beat
\* job, marked PROCESSING (projected or not) to nobody.
IngestDies(c) ==
    LET event == rows[c.from][c.id]
        new == NewRow(event.entity, event.version, c.from, c.id)
    IN  /\ c \in requests
        /\ ~Ingested(c)
        /\ crashes < MaxCrashes
        /\ crashes' = crashes + 1
        /\ requests' = requests \ {c}
        /\ \E status \in {"pending", "processing"} :
             /\ rows' = [rows EXCEPT ![c.to] = Append(@, [new EXCEPT !.status = status])]
             /\ \/ UNCHANGED projection
                \/ status = "processing" /\ Project(c.to, event)
        /\ UNCHANGED <<tasks, answers, waiting, timeouts>>

-----------------------------------------------------------------------------
OnRow(n, i) ==
    \/ Process(n, i)
    \/ ProcessFails(n, i)
    \/ ProcessDies(n, i)
    \/ RetryEvent(n, i)
    \/ \E p \in Peers(n) : Push(n, i, p) \/ RetryDelivery(n, i, p)

OnCall(c) == Accept(c) \/ TimeOut(c) \/ PusherDies(c) \/ Ingest(c) \/ IngestDies(c)

Next ==
    \/ \E k \in Entities : Emit(k)
    \/ \E n \in Nodes : \E i \in DOMAIN rows[n] : OnRow(n, i)
    \/ \E c \in requests \cup waiting : OnCall(c)

Spec == Init /\ [][Next]_vars

\* Rows and calls there can be, for the fairness conditions.
RowIds == 1 .. MapThenSumSet(LAMBDA k : MaxEvents[k], Entities)

\* Workers, beat jobs and peers go on with what they have.  An answer that is
\* there is read before its time limit from some attempt on (timeouts are
\* bounded).
FairSpec ==
    /\ Spec
    /\ \A n \in Nodes, i \in RowIds :
         /\ WF_vars(i \in DOMAIN rows[n] /\ (Process(n, i) \/ ProcessFails(n, i) \/ RetryEvent(n, i)))
         /\ \A p \in Peers(n) :
              WF_vars(i \in DOMAIN rows[n] /\ (Push(n, i, p) \/ RetryDelivery(n, i, p)))
    /\ WF_vars(\E c \in requests : Ingest(c))
    /\ WF_vars(\E c \in waiting : Accept(c) \/ (c \notin requests \cup answers /\ TimeOut(c)))

-----------------------------------------------------------------------------
(* Properties *)

\* A delivery marked delivered is an event the peer has, and once the peer has
\* dispatched it its projection is at least as new.
DeliveredWasIngested ==
    \A n \in Nodes : \A i \in DOMAIN rows[n] : \A p \in Peers(n) :
        rows[n][i].deliveries[p].status = "delivered" =>
            \E j \in DOMAIN rows[p] :
                /\ rows[p][j].origin = n /\ rows[p][j].id = i
                /\ rows[p][j].status = "dispatched" =>
                     projection[p][rows[n][i].entity] >= rows[n][i].version

\* With nothing left to do and nobody killed, every node shows every entity as
\* its owner last announced it.
Quiet ==
    /\ requests \cup waiting = {}
    /\ \A n \in Nodes :
         /\ tasks[n] = {}
         /\ \A i \in DOMAIN rows[n] :
              /\ rows[n][i].status = "dispatched"
              /\ \A p \in Nodes : rows[n][i].deliveries[p].status # "failed"

QuietIsConverged ==
    Quiet /\ crashes = 0 => \A n \in Nodes, k \in Entities : projection[n][k] = Latest(k)

\* The nodes are receivers in the sense of ReplicaContract.
Contract == INSTANCE ReplicaContract WITH
    Receivers <- Nodes,
    latest    <- [k \in Entities |-> Latest(k)],
    copy      <- [k \in Entities |-> [n \in Nodes |-> projection[n][k]]],
    lost      <- {}

ImplementsReplica == Contract!Spec

\* A service moved the entity back in EVENT_STAGE_ORDER with its v-th event.
Regressed(k, v) == \E u \in 1 .. (v - 1) : Stage[k][u] > Stage[k][v]

\* Every version an owner announces reaches every node, through pushes that
\* time out, events that fail and the two retry jobs, unless it regresses the
\* entity or a process was killed (FairSpec).
UncrashedConverges ==
    \A k \in Entities, n \in Nodes : \A v \in {w \in 1 .. MaxEvents[k] : ~Regressed(k, w)} :
        Latest(k) >= v ~> projection[n][k] >= v \/ crashes > 0

=============================================================================
