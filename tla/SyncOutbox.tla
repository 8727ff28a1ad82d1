----------------------------- MODULE SyncOutbox -----------------------------
(***************************************************************************)
(* The outbox of one node (server/apps/sync): services write an event next *)
(* to the row they change, and Celery workers (or, with eager tasks, web   *)
(* workers) read the pending events and bring the projection of every      *)
(* receiver up to date, then tell the users concerned.                     *)
(*                                                                         *)
(* A worker runs outside any transaction, with no lock: the batch it read, *)
(* the projection it read and the event it saves are steps of their own,   *)
(* and other workers may act between them.                                 *)
(***************************************************************************)
EXTENDS Lifecycles, Sequences, FiniteSetsExt

CONSTANTS
    Entities,     \* aggregates that emit events
    Receivers,    \* _projection_targets_for_event, in the order they are visited
    Workers,      \* worker processes
    Moves,        \* what may happen to an entity (Lifecycles)
    Stage,        \* EVENT_STAGE_ORDER of its events
    Limit,        \* events per batch (25, 40 or 100 in the code, by caller)
    MaxEvents,    \* bound: events per entity
    MaxFaults     \* bound: worker processes killed (CELERY_TASK_TIME_LIMIT) and
                  \* notifications that raise

ASSUME ReceiverAssumption == Receivers \in Seq(STRING)
ASSUME MovesAssumption == \A m \in Moves : m.event \in DOMAIN Stage
ASSUME StageAssumption == Stage \in [DOMAIN Stage -> Nat]
ASSUME LimitAssumption == Limit \in Nat \ {0}
ASSUME BoundAssumption == MaxEvents \in Nat /\ MaxFaults \in Nat

VARIABLES
    source,       \* status of each entity's own row
    outbox,       \* SyncOutboxEvent rows by created_at
    projection,   \* SyncProjectionState of each entity at each receiver
    worker,       \* process_pending_outbox_events in each worker
    shared,       \* history: events that two workers were at work on at a time
    overtaken,    \* history: entities of which a worker saved a row over one that
                  \* was not the one it had read
    crashes,
    faults

vars == <<source, outbox, projection, worker, shared, overtaken, crashes, faults>>

-----------------------------------------------------------------------------
Statuses == {"none"} \cup {m.to : m \in Moves}

EventStatus == {"pending", "processing", "dispatched", "failed"}

\* told counts the runs of _dispatch_outbox_event that reached the users.
Event == [entity: Entities, version: Nat, type: DOMAIN Stage,
          status: EventStatus, told: Nat]

\* last_entity_version and last_event_type; version 0 is no row at all.
Row == [version: Nat, type: DOMAIN Stage \cup {"none"}]
NoRow == [version |-> 0, type |-> "none"]

\* The projection held between the query and the save.
NotRead == [version |-> 0, type |-> "not read"]

\* batch: events still to process; at: the one being processed, 0 for none;
\* next: the receiver it has come to; read: that receiver's row, once read;
\* applied: any_applied so far.
Worker == [batch: SUBSET Nat, at: Nat, next: Nat, read: Row \cup {NotRead},
           applied: BOOLEAN]
Free == [batch |-> {}, at |-> 0, next |-> 1, read |-> NotRead, applied |-> FALSE]

TypeOK ==
    /\ source \in [Entities -> Statuses]
    /\ outbox \in Seq(Event)
    /\ projection \in [Entities -> [DOMAIN Receivers -> Row]]
    /\ worker \in [Workers -> Worker]
    /\ \A w \in Workers : /\ worker[w].batch \subseteq DOMAIN outbox
                          /\ worker[w].at \in DOMAIN outbox \cup {0}
                          /\ worker[w].next \in 1 .. Len(Receivers) + 1
    /\ shared \subseteq DOMAIN outbox
    /\ overtaken \subseteq Entities
    /\ crashes \in Nat
    /\ faults \in Nat

Init ==
    /\ source = [k \in Entities |-> "none"]
    /\ outbox = << >>
    /\ projection = [k \in Entities |-> [t \in DOMAIN Receivers |-> NoRow]]
    /\ worker = [w \in Workers |-> Free]
    /\ shared = {} /\ overtaken = {}
    /\ crashes = 0
    /\ faults = 0

-----------------------------------------------------------------------------
Of(k) == {i \in DOMAIN outbox : outbox[i].entity = k}

\* 0 stands for no event.
Versions(k) == {0} \cup {outbox[i].version : i \in Of(k)}

\* A service changes the entity and writes the event in one transaction, with
\* the entity's row locked since its save (create_outbox_event); its version is
\* one more than the newest (_next_entity_version).
Emit(k) ==
    \E m \in Moves, newest \in Versions(k) :
        /\ m.from = source[k]
        /\ \A v \in Versions(k) : v <= newest
        /\ Cardinality(Of(k)) < MaxEvents
        /\ source' = [source EXCEPT ![k] = m.to]
        /\ outbox' = Append(outbox, [entity |-> k, version |-> newest + 1,
                                     type |-> m.event, status |-> "pending", told |-> 0])
        /\ UNCHANGED <<projection, worker, shared, overtaken, crashes, faults>>

-----------------------------------------------------------------------------
(* process_pending_outbox_events and process_outbox_event *)

Pending == {i \in DOMAIN outbox : outbox[i].status = "pending"}

\* order_by("created_at")[:limit] of the events in S.
Oldest(S) ==
    {batch \in SUBSET S : /\ Cardinality(batch) = Min({Limit, Cardinality(S)})
                          /\ \A i \in batch, j \in S \ batch : i < j}

Fetch(w) ==
    /\ worker[w].batch = {} /\ worker[w].at = 0
    /\ Pending # {}
    /\ \E batch \in Oldest(Pending) : worker' = [worker EXCEPT ![w].batch = batch]
    /\ UNCHANGED <<source, outbox, projection, shared, overtaken, crashes, faults>>

Active(w) == worker[w].at # 0
Visiting(w) == Active(w) /\ worker[w].next <= Len(Receivers)

\* The oldest event of the batch is taken out of it, whoever else may be at work
\* on it.
Take(w, i) ==
    /\ ~Active(w)
    /\ \A j \in worker[w].batch : i <= j
    /\ worker' = [worker EXCEPT ![w].at = i, ![w].batch = @ \ {i}]
    /\ shared' = IF \E v \in Workers : worker[v].at = i THEN shared \cup {i} ELSE shared

\* Mutant: the first receiver is skipped.
Begin_SkipsFirst(w) ==
    /\ ~Active(w)
    /\ \E i \in worker[w].batch :
         /\ \A j \in worker[w].batch : i <= j
         /\ worker' = [worker EXCEPT ![w].at = i, ![w].batch = @ \ {i}, ![w].next = 2]
         /\ outbox' = [outbox EXCEPT ![i].status = "processing"]
    /\ UNCHANGED <<source, projection, shared, overtaken, crashes, faults>>

\* The event's status in memory is still the pending of the query, so the
\* early return on DISPATCHED is not taken whatever the row says by now.
Begin(w) ==
    /\ \E i \in worker[w].batch :
         /\ Take(w, i)
         /\ outbox' = [outbox EXCEPT ![i].status = "processing"]
    /\ UNCHANGED <<source, projection, overtaken, crashes, faults>>

\* The worker is through with its event.
Proceed(w) ==
    worker' = [worker EXCEPT ![w] = [Free EXCEPT !.batch = worker[w].batch]]

\* SyncProjectionConflictError or any other exception.
Fail(w) ==
    /\ outbox' = [outbox EXCEPT ![worker[w].at].status = "failed"]
    /\ Proceed(w)

\* Mutant: only the very event already applied is ignored.
Ignored_Older(event, row) ==
    /\ row.version > 0
    /\ event.version = row.version /\ event.type = row.type

\* Mutant: a duplicate is not recognised.
Ignored_NoDuplicate(event, row) ==
    /\ row.version > 0
    /\ event.version < row.version

\* The event is older than the row, or the one the row shows already.
Ignored(event, row) ==
    /\ row.version > 0
    /\ \/ event.version < row.version
       \/ event.version = row.version /\ event.type = row.type

\* _validate_transition
Regresses(event, row) == row.version > 0 /\ Stage[event.type] < Stage[row.type]

\* The first half of _apply_event_to_projection: query and checks.
Read(w) ==
    LET event == outbox[worker[w].at]
        row == projection[event.entity][worker[w].next]
    IN  /\ Visiting(w)
        /\ worker[w].read = NotRead
        /\ \/ /\ Ignored(event, row)
              /\ worker' = [worker EXCEPT ![w].next = @ + 1]
              /\ UNCHANGED outbox
           \/ /\ ~Ignored(event, row)
              /\ Regresses(event, row)
              /\ Fail(w)
           \/ /\ ~Ignored(event, row)
              /\ ~Regresses(event, row)
              /\ worker' = [worker EXCEPT ![w].read = row]
              /\ UNCHANGED outbox
        /\ UNCHANGED <<source, projection, shared, overtaken, crashes, faults>>

\* The row is not the one the worker has read.
Stale(w) == worker[w].read # projection[outbox[worker[w].at].entity][worker[w].next]

\* Its second half: the row is created, which the unique constraint refuses if
\* another worker has created it since the query, or overwritten, whatever
\* another worker has made of it since.
Write(w) ==
    LET event == outbox[worker[w].at]
        row == [version |-> event.version, type |-> event.type]
        exists == projection[event.entity][worker[w].next] # NoRow
    IN  /\ Visiting(w)
        /\ worker[w].read # NotRead
        /\ IF worker[w].read = NoRow /\ exists
           THEN Fail(w) /\ UNCHANGED <<projection, overtaken>>
           ELSE /\ overtaken' = overtaken \cup (IF Stale(w) THEN {event.entity} ELSE {})
                /\ projection' = [projection EXCEPT ![event.entity][worker[w].next] = row]
                /\ worker' = [worker EXCEPT ![w].next = @ + 1, ![w].read = NotRead,
                                            ![w].applied = TRUE]
                /\ UNCHANGED outbox
        /\ UNCHANGED <<source, shared, crashes, faults>>

\* Mutant: the event is only saved if its users were told.
Finish_OnlyTold(w) ==
    /\ Active(w)
    /\ worker[w].next = Len(Receivers) + 1
    /\ outbox' = IF worker[w].applied
                 THEN [outbox EXCEPT ![worker[w].at].status = "dispatched",
                                     ![worker[w].at].told = @ + 1]
                 ELSE outbox
    /\ Proceed(w)
    /\ UNCHANGED <<source, projection, shared, overtaken, crashes, faults>>

\* Every receiver has been visited: the users are told if one applied it.
Finish(w) ==
    /\ Active(w)
    /\ worker[w].next = Len(Receivers) + 1
    /\ outbox' = [outbox EXCEPT ![worker[w].at].status = "dispatched",
                                ![worker[w].at].told = IF worker[w].applied THEN @ + 1 ELSE @]
    /\ Proceed(w)
    /\ UNCHANGED <<source, projection, shared, overtaken, crashes, faults>>

\* Telling them raises, before or after some have been told.
NotifyRaises(w) ==
    /\ Active(w)
    /\ worker[w].next = Len(Receivers) + 1
    /\ worker[w].applied
    /\ crashes + faults < MaxFaults
    /\ faults' = faults + 1
    /\ \E reached \in {0, 1} :
         outbox' = [outbox EXCEPT ![worker[w].at].status = "failed", ![worker[w].at].told = @ + reached]
    /\ Proceed(w)
    /\ UNCHANGED <<source, projection, shared, overtaken, crashes>>

\* The worker process is killed, perhaps between telling the users and saving
\* the event, which stays as it was last saved.
Crash(w) ==
    /\ worker[w] # Free
    /\ crashes + faults < MaxFaults
    /\ crashes' = crashes + 1
    /\ \/ UNCHANGED outbox
       \/ /\ Active(w)
          /\ worker[w].next = Len(Receivers) + 1
          /\ worker[w].applied
          /\ outbox' = [outbox EXCEPT ![worker[w].at].told = @ + 1]
    /\ worker' = [worker EXCEPT ![w] = Free]
    /\ UNCHANGED <<source, projection, shared, overtaken, faults>>

Failed == {i \in DOMAIN outbox : outbox[i].status = "failed"}

\* retry_failed_outbox_events: every six hours, and by hand.  Only a second
\* retry could come between its query and its update: one step.
RetryFailed ==
    /\ Failed # {}
    /\ \E batch \in Oldest(Failed) :
         outbox' = [i \in DOMAIN outbox |->
                      IF i \in batch THEN [outbox[i] EXCEPT !.status = "pending"]
                                     ELSE outbox[i]]
    /\ UNCHANGED <<source, projection, worker, shared, overtaken, crashes, faults>>

-----------------------------------------------------------------------------
Work(w) == Fetch(w) \/ Begin(w) \/ Read(w) \/ Write(w) \/ Finish(w)

Next ==
    \/ \E k \in Entities : Emit(k)
    \/ \E w \in Workers : Work(w) \/ NotifyRaises(w) \/ Crash(w)
    \/ RetryFailed

Spec == Init /\ [][Next]_vars

\* Celery beat repeats both jobs, and a worker that has begun goes on.
FairSpec ==
    /\ Spec
    /\ \A w \in Workers : WF_vars(Work(w))
    /\ WF_vars(RetryFailed)

-----------------------------------------------------------------------------
(* Properties *)

\* No event is forgotten: one marked PROCESSING is in the hands of a worker,
\* unless a worker was killed on it.  Each kill strands at most one.
Stranded ==
    {i \in DOMAIN outbox : /\ outbox[i].status = "processing"
                           /\ \A w \in Workers : ~(Active(w) /\ worker[w].at = i)}

StrandedByCrash == Cardinality(Stranded) <= crashes

\* A dispatched event has reached every receiver, or been overtaken there by a
\* newer one: however many workers process an entity, and however often they are
\* killed or fail, nothing but a row saved over one its worker had not read takes a
\* receiver back.
DispatchedIsProjected ==
    \A i \in DOMAIN outbox :
        outbox[i].status = "dispatched" /\ outbox[i].entity \notin overtaken =>
            \A t \in DOMAIN Receivers :
                projection[outbox[i].entity][t].version >= outbox[i].version

\* However often it is retried, or processed again from the batch of another
\* worker, an event tells its users once at most.  (Two workers on it at a time may
\* each have applied it to a receiver, and tell them twice.)
ToldOnce ==
    \A i \in DOMAIN outbox :
        i \in shared \/ outbox[i].entity \in overtaken \/ outbox[i].told <= 1

\* A service moved the entity back in EVENT_STAGE_ORDER with event i.
Regressed(i) ==
    \E j \in Of(outbox[i].entity) :
        outbox[j].version < outbox[i].version /\ Stage[outbox[j].type] > Stage[outbox[i].type]

\* The copies move forward only, to published versions; an entity that was
\* overtaken shows published versions still (ReplicaContract).
Contract == INSTANCE ReplicaContract WITH
    Receivers <- DOMAIN Receivers,
    latest    <- [k \in Entities |-> Max(Versions(k))],
    copy      <- [k \in Entities |-> [t \in DOMAIN Receivers |-> projection[k][t].version]],
    lost      <- overtaken

ImplementsReplica == Contract!Spec

\* Through notifications that raise, rows another worker created first and the
\* retry job, there comes again and again a moment when every event but the
\* regressed ones is dispatched, unless a worker is killed (FairSpec).
OrderedIsDispatched ==
    []<>(\/ crashes > 0
         \/ \A i \in DOMAIN outbox : outbox[i].status = "dispatched" \/ Regressed(i))

=============================================================================
