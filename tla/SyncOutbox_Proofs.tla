------------------------- MODULE SyncOutbox_Proofs --------------------------
(***************************************************************************)
(* Machine-checked safety of SyncOutbox, for any number of workers,        *)
(* crashes and failing notifications: an event is only stranded by a       *)
(* crash; the outbox implements ReplicaContract; a dispatched event has    *)
(* reached every receiver, and no event tells its users twice, unless its  *)
(* entity was overtaken or two workers were at work on it at a time.       *)
(***************************************************************************)
EXTENDS SyncOutbox, SequenceTheorems, FiniteSetTheorems, TLAPS

-----------------------------------------------------------------------------
(* Type correctness *)

\* Saving one event (event.save) keeps the outbox well typed and the other
\* events as they were.
LEMMA SaveEvent ==
    ASSUME TypeOK, NEW i \in DOMAIN outbox, NEW e \in Event,
           outbox' = [outbox EXCEPT ![i] = e]
    PROVE  /\ outbox' \in Seq(Event)
           /\ DOMAIN outbox' = DOMAIN outbox
           /\ outbox'[i] = e
           /\ \A j \in DOMAIN outbox \ {i} : outbox'[j] = outbox[j]
<1>1. outbox \in Seq(Event) /\ i \in 1 .. Len(outbox)
  BY DEF TypeOK
<1> QED
  BY <1>1, ExceptSeq

\* The saves of process_outbox_event change status and told of its event only.
LEMMA SaveStatus ==
    ASSUME TypeOK, NEW i \in DOMAIN outbox, NEW s \in EventStatus, NEW n \in Nat,
           outbox' = [outbox EXCEPT ![i].status = s, ![i].told = n]
    PROVE  /\ outbox' \in Seq(Event)
           /\ DOMAIN outbox' = DOMAIN outbox
           /\ outbox'[i] = [outbox[i] EXCEPT !.status = s, !.told = n]
           /\ \A j \in DOMAIN outbox \ {i} : outbox'[j] = outbox[j]
<1> DEFINE e == [outbox[i] EXCEPT !.status = s, !.told = n]
<1>1. outbox[i] \in Event
  BY DEF TypeOK
<1>2. e \in Event
  BY <1>1 DEF Event
<1>3. outbox' = [outbox EXCEPT ![i] = e]
  BY DEF TypeOK
<1> QED
  BY <1>2, <1>3, SaveEvent

LEMMA SaveStatusOnly ==
    ASSUME TypeOK, NEW i \in DOMAIN outbox, NEW s \in EventStatus,
           outbox' = [outbox EXCEPT ![i].status = s]
    PROVE  /\ outbox' \in Seq(Event)
           /\ DOMAIN outbox' = DOMAIN outbox
           /\ outbox'[i] = [outbox[i] EXCEPT !.status = s]
           /\ \A j \in DOMAIN outbox \ {i} : outbox'[j] = outbox[j]
<1> DEFINE e == [outbox[i] EXCEPT !.status = s]
<1>1. outbox[i] \in Event
  BY DEF TypeOK
<1>2. e \in Event
  BY <1>1 DEF Event
<1>3. outbox' = [outbox EXCEPT ![i] = e]
  BY DEF TypeOK
<1> QED
  BY <1>2, <1>3, SaveEvent

LEMMA TypeInit == Init => TypeOK
<1> SUFFICES ASSUME Init PROVE TypeOK
  OBVIOUS
<1>1. Len(Receivers) \in Nat /\ DOMAIN Receivers = 1 .. Len(Receivers)
  BY ReceiverAssumption
<1>2. NoRow \in Row
  BY DEF NoRow, Row
<1>3. Free \in Worker
  BY DEF Free, Worker
<1>4. outbox \in Seq(Event)
  BY EmptySeq DEF Init
<1>5. projection \in [Entities -> [DOMAIN Receivers -> Row]]
  BY <1>2 DEF Init
<1>6. worker \in [Workers -> Worker]
  BY <1>3 DEF Init
<1>7. \A w \in Workers : /\ worker[w].batch \subseteq DOMAIN outbox
                         /\ worker[w].at \in DOMAIN outbox \cup {0}
                         /\ worker[w].next \in 1 .. Len(Receivers) + 1
  BY <1>1 DEF Init, Free
<1>8. source \in [Entities -> Statuses]
  BY DEF Init, Statuses
<1>9. crashes \in Nat /\ faults \in Nat /\ shared = {} /\ overtaken = {}
  BY DEF Init
<1> QED
  BY <1>4, <1>5, <1>6, <1>7, <1>8, <1>9 DEF TypeOK

\* A new event is appended: the others keep their places.
LEMMA EmitAppends ==
    ASSUME TypeOK, NEW k \in Entities, Emit(k)
    PROVE  /\ outbox' \in Seq(Event)
           /\ DOMAIN outbox' = DOMAIN outbox \cup {Len(outbox) + 1}
           /\ outbox'[Len(outbox) + 1].status = "pending"
           /\ \A i \in DOMAIN outbox : outbox'[i] = outbox[i]
           /\ source' \in [Entities -> Statuses]
<1>1. PICK m \in Moves, newest \in Versions(k) :
        /\ source' = [source EXCEPT ![k] = m.to]
        /\ outbox' = Append(outbox, [entity |-> k, version |-> newest + 1,
                                     type |-> m.event, status |-> "pending", told |-> 0])
  BY DEF Emit
<1>2. m.to \in Statuses /\ m.event \in DOMAIN Stage
  BY MovesAssumption DEF Statuses
<1>3. newest \in Nat
  <2>1. \A i \in DOMAIN outbox : outbox[i] \in Event
    BY DEF TypeOK
  <2>2. \A i \in DOMAIN outbox : outbox[i].version \in Nat
    BY <2>1 DEF Event
  <2> QED
    BY <2>2 DEF Versions, Of
<1> DEFINE e == [entity |-> k, version |-> newest + 1,
                 type |-> m.event, status |-> "pending", told |-> 0]
<1>4. e \in Event
  BY <1>2, <1>3 DEF Event, EventStatus
<1>5. outbox \in Seq(Event) /\ outbox' = Append(outbox, e)
  BY <1>1 DEF TypeOK
<1>6. outbox' \in Seq(Event)
  BY <1>4, <1>5
<1>7. DOMAIN outbox' = DOMAIN outbox \cup {Len(outbox) + 1}
  BY <1>4, <1>5
<1>8. /\ outbox'[Len(outbox) + 1] = e
      /\ \A i \in DOMAIN outbox : outbox'[i] = outbox[i]
  BY <1>4, <1>5
<1> QED
  BY <1>1, <1>2, <1>6, <1>7, <1>8 DEF TypeOK

\* A worker is replaced by another well-typed one.
LEMMA WorkerType ==
    ASSUME TypeOK, NEW w \in Workers, NEW new \in Worker,
           worker' = [worker EXCEPT ![w] = new],
           DOMAIN outbox \subseteq DOMAIN outbox',
           new.batch \subseteq DOMAIN outbox,
           new.at \in DOMAIN outbox \cup {0},
           new.next \in 1 .. Len(Receivers) + 1
    PROVE  /\ worker' \in [Workers -> Worker]
           /\ \A v \in Workers : /\ worker'[v].batch \subseteq DOMAIN outbox'
                                 /\ worker'[v].at \in DOMAIN outbox' \cup {0}
                                 /\ worker'[v].next \in 1 .. Len(Receivers) + 1
BY DEF TypeOK

\* A worker that ends its event goes on with the rest of its batch.
LEMMA ProceedType ==
    ASSUME TypeOK, NEW w \in Workers, Proceed(w), DOMAIN outbox' = DOMAIN outbox
    PROVE  /\ worker' \in [Workers -> Worker]
           /\ \A v \in Workers : /\ worker'[v].batch \subseteq DOMAIN outbox'
                                 /\ worker'[v].at \in DOMAIN outbox' \cup {0}
                                 /\ worker'[v].next \in 1 .. Len(Receivers) + 1
<1> DEFINE new == [Free EXCEPT !.batch = worker[w].batch]
<1>1. worker[w].batch \subseteq Nat /\ worker[w].batch \subseteq DOMAIN outbox
  BY DEF TypeOK, Worker
<1>2. new \in Worker
  BY <1>1 DEF Free, Worker
<1>3. 1 \in 1 .. Len(Receivers) + 1
  BY ReceiverAssumption
<1> QED
  BY <1>1, <1>2, <1>3, WorkerType DEF Proceed, Free

LEMMA TypeStep == TypeOK /\ [Next]_vars => TypeOK'
<1> SUFFICES ASSUME TypeOK, [Next]_vars PROVE TypeOK'
  OBVIOUS
<1> USE DEF EventStatus
<1>a. /\ Len(Receivers) \in Nat
      /\ DOMAIN Receivers = 1 .. Len(Receivers)
  BY ReceiverAssumption
<1>1. CASE UNCHANGED vars
  BY <1>1 DEF vars, TypeOK
<1>2. ASSUME NEW k \in Entities, Emit(k) PROVE TypeOK'
  <2>1. worker' = worker /\ projection' = projection /\ crashes' = crashes /\ faults' = faults
       /\ shared' = shared /\ overtaken' = overtaken
    BY <1>2 DEF Emit
  <2>2. DOMAIN outbox \subseteq DOMAIN outbox'
    BY <1>2, EmitAppends
  <2> QED
    BY <1>2, <2>1, <2>2, EmitAppends DEF TypeOK
<1>3. ASSUME NEW w \in Workers, Fetch(w) PROVE TypeOK'
  <2>1. PICK batch \in SUBSET Pending : worker' = [worker EXCEPT ![w].batch = batch]
    BY <1>3 DEF Fetch, Oldest
  <2> DEFINE new == [worker[w] EXCEPT !.batch = batch]
  <2>2. worker[w] \in Worker
    BY DEF TypeOK
  <2>3. batch \subseteq DOMAIN outbox /\ DOMAIN outbox \subseteq Nat
    BY DEF Pending, TypeOK
  <2>4. new \in Worker
    BY <2>2, <2>3 DEF Worker
  <2>5. worker' = [worker EXCEPT ![w] = new] /\ outbox' = outbox
    BY <1>3, <2>1 DEF Fetch, TypeOK
  <2>6. new.at = worker[w].at /\ new.next = worker[w].next /\ new.batch = batch
    BY <2>2 DEF Worker
  <2> QED
    BY <1>3, <2>3, <2>4, <2>5, <2>6, WorkerType DEF Fetch, TypeOK
<1>4. ASSUME NEW w \in Workers, Begin(w) PROVE TypeOK'
  <2>1. PICK i \in worker[w].batch :
          Take(w, i) /\ outbox' = [outbox EXCEPT ![i].status = "processing"]
    BY <1>4 DEF Begin
  <2>2. i \in DOMAIN outbox /\ DOMAIN outbox \subseteq Nat
    BY DEF TypeOK
  <2> DEFINE new == [worker[w] EXCEPT !.at = i, !.batch = @ \ {i}]
  <2>3. worker[w] \in Worker
    BY DEF TypeOK
  <2>4. new \in Worker
    BY <2>2, <2>3 DEF Worker
  <2>5. worker' = [worker EXCEPT ![w] = new]
    BY <2>1 DEF Take, TypeOK
  <2>6. new.at = i /\ new.next = worker[w].next /\ new.batch \subseteq worker[w].batch
    BY <2>3 DEF Worker
  <2>7. outbox' \in Seq(Event) /\ DOMAIN outbox' = DOMAIN outbox
    BY <2>1, <2>2, SaveStatusOnly
  <2>8. shared' \subseteq DOMAIN outbox
    BY <2>1, <2>2 DEF Take, TypeOK
  <2> QED
    BY <1>4, <2>2, <2>4, <2>5, <2>6, <2>7, <2>8, WorkerType DEF Begin, TypeOK
<1>5. ASSUME NEW w \in Workers, worker[w].at \in DOMAIN outbox, Fail(w),
             UNCHANGED <<source, projection, shared, overtaken, crashes, faults>>
      PROVE  TypeOK'
  <2>1. outbox' \in Seq(Event) /\ DOMAIN outbox' = DOMAIN outbox
    BY <1>5, SaveStatusOnly DEF Fail
  <2> QED
    BY <1>5, <2>1, ProceedType DEF Fail, TypeOK
<1>6. ASSUME NEW w \in Workers, Read(w) PROVE TypeOK'
  <2> DEFINE row == projection[outbox[worker[w].at].entity][worker[w].next]
  <2>1. worker[w].at \in DOMAIN outbox /\ worker[w].next \in 1 .. Len(Receivers)
    BY <1>6, <1>a DEF Read, Visiting, Active, TypeOK
  <2>2. row \in Row
    <3>1. outbox[worker[w].at] \in Event
      BY <2>1 DEF TypeOK
    <3>2. outbox[worker[w].at].entity \in Entities
      BY <3>1 DEF Event
    <3> QED
      BY <1>a, <2>1, <3>2 DEF TypeOK
  <2>3. worker[w] \in Worker
    BY DEF TypeOK
  <2>4. CASE worker' = [worker EXCEPT ![w].next = @ + 1] /\ UNCHANGED outbox
    <3> DEFINE new == [worker[w] EXCEPT !.next = @ + 1]
    <3>0. worker[w].next + 1 \in Nat
      BY <1>a, <2>1
    <3>1. new \in Worker
      BY <2>3, <3>0 DEF Worker
    <3>1a. worker' = [worker EXCEPT ![w] = new]
      BY <2>4 DEF TypeOK
    <3>2. new.next \in 1 .. Len(Receivers) + 1 /\ new.at = worker[w].at /\ new.batch = worker[w].batch
      BY <1>a, <2>1, <2>3 DEF Worker
    <3> QED
      BY <1>6, <2>4, <3>1, <3>1a, <3>2, WorkerType DEF Read, TypeOK
  <2>5. CASE Fail(w)
    BY <1>5, <1>6, <2>1, <2>5 DEF Read
  <2>6. CASE worker' = [worker EXCEPT ![w].read = row] /\ UNCHANGED outbox
    <3> DEFINE new == [worker[w] EXCEPT !.read = row]
    <3>1. new \in Worker /\ worker' = [worker EXCEPT ![w] = new]
      BY <2>2, <2>3, <2>6 DEF Worker, TypeOK
    <3>2. new.next = worker[w].next /\ new.at = worker[w].at /\ new.batch = worker[w].batch
      BY <2>3 DEF Worker
    <3> QED
      BY <1>6, <2>6, <3>1, <3>2, WorkerType DEF Read, TypeOK
  <2> QED
    BY <1>6, <2>4, <2>5, <2>6 DEF Read
<1>7. ASSUME NEW w \in Workers, Write(w) PROVE TypeOK'
  <2> DEFINE event == outbox[worker[w].at]
             row == [version |-> event.version, type |-> event.type]
  <2>1. worker[w].at \in DOMAIN outbox /\ worker[w].next \in 1 .. Len(Receivers)
    BY <1>7, <1>a DEF Write, Visiting, Active, TypeOK
  <2>2. event \in Event
    BY <2>1 DEF TypeOK
  <2>3. row \in Row
    BY <2>2 DEF Row, Event
  <2>4. worker[w] \in Worker
    BY DEF TypeOK
  <2>5. CASE Fail(w) /\ UNCHANGED <<projection, overtaken>>
    BY <1>5, <1>7, <2>1, <2>5 DEF Write
  <2>6. CASE /\ overtaken' = overtaken \cup (IF Stale(w) THEN {event.entity} ELSE {})
             /\ projection' = [projection EXCEPT ![event.entity][worker[w].next] = row]
             /\ worker' = [worker EXCEPT ![w].next = @ + 1, ![w].read = NotRead,
                                         ![w].applied = TRUE]
             /\ UNCHANGED outbox
    <3> DEFINE new == [worker[w] EXCEPT !.next = @ + 1, !.read = NotRead, !.applied = TRUE]
    <3>0. worker[w].next + 1 \in Nat
      BY <1>a, <2>1
    <3>1. new \in Worker
      BY <2>4, <3>0 DEF Worker
    <3>1a. worker' = [worker EXCEPT ![w] = new]
      BY <2>6 DEF TypeOK
    <3>2. new.next \in 1 .. Len(Receivers) + 1 /\ new.at = worker[w].at /\ new.batch = worker[w].batch
      BY <1>a, <2>1, <2>4 DEF Worker
    <3>3. projection' \in [Entities -> [DOMAIN Receivers -> Row]]
      BY <1>a, <2>1, <2>2, <2>3, <2>6 DEF TypeOK, Event
    <3>4. overtaken' \subseteq Entities
      BY <2>2, <2>6 DEF TypeOK, Event
    <3> QED
      BY <1>7, <2>6, <3>1, <3>1a, <3>2, <3>3, <3>4, WorkerType DEF Write, TypeOK
  <2> QED
    BY <1>7, <2>5, <2>6 DEF Write
<1>8. ASSUME NEW w \in Workers, Finish(w) PROVE TypeOK'
  <2> DEFINE told == IF worker[w].applied THEN outbox[worker[w].at].told + 1
                                          ELSE outbox[worker[w].at].told
  <2>1. worker[w].at \in DOMAIN outbox
    BY <1>8 DEF Finish, Active, TypeOK
  <2>2. told \in Nat
    <3>1. outbox[worker[w].at] \in Event
      BY <2>1 DEF TypeOK
    <3>2. outbox[worker[w].at].told \in Nat
      BY <3>1 DEF Event
    <3> QED
      BY <3>2
  <2>3. outbox' = [outbox EXCEPT ![worker[w].at].status = "dispatched", ![worker[w].at].told = told]
    BY <1>8, <2>1 DEF Finish, TypeOK
  <2>4. outbox' \in Seq(Event) /\ DOMAIN outbox' = DOMAIN outbox
    BY <2>1, <2>2, <2>3, SaveStatus
  <2> QED
    BY <1>8, <2>4, ProceedType DEF Finish, TypeOK
<1>9. ASSUME NEW w \in Workers, NotifyRaises(w) PROVE TypeOK'
  <2>1. worker[w].at \in DOMAIN outbox
    BY <1>9 DEF NotifyRaises, Active, TypeOK
  <2>2. PICK reached \in {0, 1} :
          outbox' = [outbox EXCEPT ![worker[w].at].status = "failed", ![worker[w].at].told = @ + reached]
    BY <1>9 DEF NotifyRaises
  <2> DEFINE told == outbox[worker[w].at].told + reached
  <2>3. told \in Nat
    <3>1. outbox[worker[w].at] \in Event
      BY <2>1 DEF TypeOK
    <3>2. outbox[worker[w].at].told \in Nat
      BY <3>1 DEF Event
    <3> QED
      BY <3>2
  <2>4. outbox' = [outbox EXCEPT ![worker[w].at].status = "failed", ![worker[w].at].told = told]
    BY <2>1, <2>2 DEF TypeOK
  <2>5. outbox' \in Seq(Event) /\ DOMAIN outbox' = DOMAIN outbox
    BY <2>1, <2>3, <2>4, SaveStatus
  <2> QED
    BY <1>9, <2>5, ProceedType DEF NotifyRaises, TypeOK
<1>10. ASSUME NEW w \in Workers, Crash(w) PROVE TypeOK'
  <2>1. Free \in Worker /\ Free.batch = {} /\ Free.at = 0 /\ Free.next \in 1 .. Len(Receivers) + 1
    BY <1>a DEF Free, Worker
  <2>2. outbox' \in Seq(Event) /\ DOMAIN outbox' = DOMAIN outbox
    <3>1. CASE UNCHANGED outbox
      BY <3>1 DEF TypeOK
    <3>2. CASE Active(w) /\ outbox' = [outbox EXCEPT ![worker[w].at].told = @ + 1]
      <4> DEFINE i == worker[w].at
      <4>1. i \in DOMAIN outbox
        BY <3>2 DEF Active, TypeOK
      <4>2. outbox[i] \in Event
        BY <4>1 DEF TypeOK
      <4>3. [outbox[i] EXCEPT !.told = @ + 1] \in Event
        BY <4>2 DEF Event
      <4>4. outbox' = [outbox EXCEPT ![i] = [outbox[i] EXCEPT !.told = @ + 1]]
        BY <3>2 DEF TypeOK
      <4> QED
        BY <4>1, <4>3, <4>4, SaveEvent
    <3> QED
      BY <1>10, <3>1, <3>2 DEF Crash
  <2>3. worker' = [worker EXCEPT ![w] = Free] /\ crashes' \in Nat
    BY <1>10 DEF Crash, TypeOK
  <2> QED
    BY <1>10, <2>1, <2>2, <2>3, WorkerType DEF Crash, TypeOK
<1>11. CASE RetryFailed
  <2>0. PICK batch \in Oldest(Failed) :
          outbox' = [i \in DOMAIN outbox |->
                       IF i \in batch THEN [outbox[i] EXCEPT !.status = "pending"]
                                      ELSE outbox[i]]
    BY <1>11 DEF RetryFailed
  <2> DEFINE e(i) == IF i \in batch THEN [outbox[i] EXCEPT !.status = "pending"] ELSE outbox[i]
  <2>1. Len(outbox) \in Nat /\ DOMAIN outbox = 1 .. Len(outbox)
    BY DEF TypeOK
  <2>2. ASSUME NEW i \in 1 .. Len(outbox) PROVE e(i) \in Event
    <3>1. outbox[i] \in Event
      BY <2>1 DEF TypeOK
    <3>2. [outbox[i] EXCEPT !.status = "pending"] \in Event
      BY <3>1 DEF Event
    <3> QED
      BY <3>1, <3>2
  <2>3. outbox' = [i \in 1 .. Len(outbox) |-> e(i)]
    BY <2>0, <2>1
  <2> HIDE DEF e
  <2>4. outbox' \in Seq(Event) /\ DOMAIN outbox' = DOMAIN outbox
    BY <2>1, <2>2, <2>3
  <2> QED
    BY <1>11, <2>4 DEF RetryFailed, TypeOK
<1> QED
  BY <1>1, <1>2, <1>3, <1>4, <1>6, <1>7, <1>8, <1>9, <1>10, <1>11 DEF Next, Work

\* The rows of the outbox, the projections and the workers stay well formed,
\* whatever the lifecycle, the receivers and the number of workers.
THEOREM OutboxTypeCorrect == Spec => []TypeOK
<1>1. Init => TypeOK
  BY TypeInit
<1>2. TypeOK /\ [Next]_vars => TypeOK'
  BY TypeStep
<1> QED
  BY <1>1, <1>2, PTL DEF Spec

-----------------------------------------------------------------------------
(* What a step may do to the rows of the outbox *)

\* A worker saves its event: no row comes or goes, the other rows stay as they
\* are, and this one keeps everything but its status and told.
Saved(i) ==
    /\ DOMAIN outbox' = DOMAIN outbox
    /\ \A j \in DOMAIN outbox \ {i} : outbox'[j] = outbox[j]
    /\ outbox'[i].entity = outbox[i].entity
    /\ outbox'[i].version = outbox[i].version
    /\ outbox'[i].type = outbox[i].type

LEMMA FailSaves ==
    ASSUME TypeOK, NEW w \in Workers, Active(w), Fail(w)
    PROVE  /\ Saved(worker[w].at) /\ outbox'[worker[w].at].status = "failed"
           /\ outbox'[worker[w].at].told = outbox[worker[w].at].told
<1> DEFINE i == worker[w].at
<1>1. i \in DOMAIN outbox /\ outbox[i] \in Event
  BY DEF Active, TypeOK
<1>2. /\ DOMAIN outbox' = DOMAIN outbox
      /\ outbox'[i] = [outbox[i] EXCEPT !.status = "failed"]
      /\ \A j \in DOMAIN outbox \ {i} : outbox'[j] = outbox[j]
  BY <1>1, SaveStatusOnly DEF Fail, EventStatus
<1> QED
  BY <1>1, <1>2 DEF Saved, Event

LEMMA BeginSaves ==
    ASSUME TypeOK, NEW w \in Workers, NEW i \in worker[w].batch, Take(w, i),
           outbox' = [outbox EXCEPT ![i].status = "processing"]
    PROVE  /\ i \in DOMAIN outbox /\ Saved(i) /\ outbox'[i].status = "processing"
           /\ outbox'[i].told = outbox[i].told
<1>1. i \in DOMAIN outbox /\ outbox[i] \in Event
  BY DEF TypeOK
<1>2. /\ DOMAIN outbox' = DOMAIN outbox
      /\ outbox'[i] = [outbox[i] EXCEPT !.status = "processing"]
      /\ \A j \in DOMAIN outbox \ {i} : outbox'[j] = outbox[j]
  BY <1>1, SaveStatusOnly DEF EventStatus
<1> QED
  BY <1>1, <1>2 DEF Saved, Event

LEMMA FinishSaves ==
    ASSUME TypeOK, NEW w \in Workers, Finish(w)
    PROVE  /\ Saved(worker[w].at) /\ outbox'[worker[w].at].status = "dispatched"
           /\ outbox'[worker[w].at].told = IF worker[w].applied THEN outbox[worker[w].at].told + 1
                                                               ELSE outbox[worker[w].at].told
<1> DEFINE i == worker[w].at
           told == IF worker[w].applied THEN outbox[i].told + 1 ELSE outbox[i].told
<1>1. i \in DOMAIN outbox /\ outbox[i] \in Event
  BY DEF Finish, Active, TypeOK
<1>2. told \in Nat
  <2>1. outbox[i].told \in Nat
    BY <1>1 DEF Event
  <2> QED
    BY <2>1
<1>3. outbox' = [outbox EXCEPT ![i].status = "dispatched", ![i].told = told]
  BY <1>1 DEF Finish, TypeOK
<1> HIDE DEF told
<1>4. /\ DOMAIN outbox' = DOMAIN outbox
      /\ outbox'[i] = [outbox[i] EXCEPT !.status = "dispatched", !.told = told]
      /\ \A j \in DOMAIN outbox \ {i} : outbox'[j] = outbox[j]
  BY <1>1, <1>2, <1>3, SaveStatus DEF EventStatus
<1>5. /\ Saved(i) /\ outbox'[i].status = "dispatched"
      /\ outbox'[i].told = told
  BY <1>1, <1>4 DEF Saved, Event
<1> QED
  BY <1>5 DEF told

LEMMA NotifyRaisesSaves ==
    ASSUME TypeOK, NEW w \in Workers, NotifyRaises(w)
    PROVE  /\ Saved(worker[w].at) /\ outbox'[worker[w].at].status = "failed"
           /\ \E reached \in {0, 1} :
                outbox'[worker[w].at].told = outbox[worker[w].at].told + reached
<1> DEFINE i == worker[w].at
<1>1. i \in DOMAIN outbox /\ outbox[i] \in Event
  BY DEF NotifyRaises, Active, TypeOK
<1>2. PICK reached \in {0, 1} :
        outbox' = [outbox EXCEPT ![i].status = "failed", ![i].told = @ + reached]
  BY DEF NotifyRaises
<1> DEFINE told == outbox[i].told + reached
<1>3. told \in Nat
  <2>1. outbox[i].told \in Nat
    BY <1>1 DEF Event
  <2> QED
    BY <2>1
<1>4. outbox' = [outbox EXCEPT ![i].status = "failed", ![i].told = told]
  BY <1>1, <1>2 DEF TypeOK
<1> HIDE DEF told
<1>5. /\ DOMAIN outbox' = DOMAIN outbox
      /\ outbox'[i] = [outbox[i] EXCEPT !.status = "failed", !.told = told]
      /\ \A j \in DOMAIN outbox \ {i} : outbox'[j] = outbox[j]
  BY <1>1, <1>3, <1>4, SaveStatus DEF EventStatus
<1>6. /\ Saved(i) /\ outbox'[i].status = "failed"
      /\ outbox'[i].told = told
  BY <1>1, <1>5 DEF Saved, Event
<1> QED
  BY <1>6 DEF told

\* A worker about to tell the users of its event.
Telling(w) == Active(w) /\ worker[w].next = Len(Receivers) + 1 /\ worker[w].applied

\* A killed worker leaves every status as it was.
LEMMA CrashSaves ==
    ASSUME TypeOK, NEW w \in Workers, Crash(w)
    PROVE  /\ DOMAIN outbox' = DOMAIN outbox
           /\ \A j \in DOMAIN outbox :
                /\ outbox'[j].entity = outbox[j].entity
                /\ outbox'[j].version = outbox[j].version
                /\ outbox'[j].type = outbox[j].type
                /\ outbox'[j].status = outbox[j].status
                /\ \/ outbox'[j].told = outbox[j].told
                   \/ /\ Telling(w) /\ j = worker[w].at
                      /\ outbox'[j].told = outbox[j].told + 1
<1>1. CASE UNCHANGED outbox
  BY <1>1
<1>2. CASE Telling(w) /\ outbox' = [outbox EXCEPT ![worker[w].at].told = @ + 1]
  <2> DEFINE i == worker[w].at
             e == [outbox[i] EXCEPT !.told = @ + 1]
  <2>1. i \in DOMAIN outbox
    BY <1>2 DEF Telling, Active, TypeOK
  <2>2. outbox[i] \in Event
    BY <2>1 DEF TypeOK
  <2>3. e \in Event
    BY <2>2 DEF Event
  <2>4. outbox' = [outbox EXCEPT ![i] = e]
    BY <1>2 DEF TypeOK
  <2>5. /\ DOMAIN outbox' = DOMAIN outbox
        /\ outbox'[i] = e
        /\ \A j \in DOMAIN outbox \ {i} : outbox'[j] = outbox[j]
    BY <2>1, <2>3, <2>4, SaveEvent
  <2>6. /\ e.entity = outbox[i].entity
        /\ e.version = outbox[i].version
        /\ e.type = outbox[i].type
        /\ e.status = outbox[i].status
        /\ e.told = outbox[i].told + 1
    BY <2>2 DEF Event
  <2> QED
    BY <1>2, <2>5, <2>6
<1> QED
  BY <1>1, <1>2 DEF Crash, Telling

LEMMA RetrySaves ==
    ASSUME TypeOK, RetryFailed
    PROVE  /\ DOMAIN outbox' = DOMAIN outbox
           /\ \A j \in DOMAIN outbox :
                /\ outbox'[j].entity = outbox[j].entity
                /\ outbox'[j].version = outbox[j].version
                /\ outbox'[j].type = outbox[j].type
                /\ outbox'[j].status # outbox[j].status => outbox'[j].status = "pending"
                /\ outbox'[j].told = outbox[j].told
<1>1. PICK batch \in Oldest(Failed) :
        outbox' = [i \in DOMAIN outbox |->
                     IF i \in batch THEN [outbox[i] EXCEPT !.status = "pending"]
                                    ELSE outbox[i]]
  BY DEF RetryFailed
<1>2. \A j \in DOMAIN outbox : outbox[j] \in Event
  BY DEF TypeOK
<1> QED
  BY <1>1, <1>2 DEF Event

-----------------------------------------------------------------------------
(* Any number of workers: nothing is stranded but by a crash *)

\* As Stranded, by the event.
Held(i) == outbox[i].status = "processing" => \E w \in Workers : Active(w) /\ worker[w].at = i

\* Every event but those of S.
HeldBut(S) == \A i \in DOMAIN outbox \ S : Held(i)

\* A worker that is through with its event has saved it as something else
\* than PROCESSING; every other event keeps its worker.
LEMMA ProceedHolds ==
    ASSUME TypeOK, NEW S, HeldBut(S), NEW w \in Workers,
           Proceed(w), Saved(worker[w].at), outbox'[worker[w].at].status # "processing"
    PROVE  HeldBut(S)'
<1> SUFFICES ASSUME NEW i \in DOMAIN outbox \ S, outbox'[i].status = "processing"
             PROVE  \E v \in Workers : Active(v)' /\ worker'[v].at = i
  BY DEF HeldBut, Held, Saved
<1>1. i # worker[w].at /\ outbox'[i] = outbox[i]
  BY DEF Saved
<1>2. PICK v \in Workers : Active(v) /\ worker[v].at = i
  BY <1>1 DEF HeldBut, Held
<1>3. worker'[v] = worker[v]
  BY <1>1, <1>2 DEF Proceed, TypeOK
<1> QED
  BY <1>2, <1>3 DEF Active

\* A step that saves no event and lets every worker keep its own.
LEMMA KeepsHeld ==
    ASSUME NEW S, HeldBut(S), outbox' = outbox,
           \A v \in Workers : worker'[v].at = worker[v].at
    PROVE  HeldBut(S)'
BY DEF HeldBut, Held, Active

\* No step but a kill strands an event.
LEMMA HeldStep ==
    ASSUME TypeOK, NEW S, HeldBut(S), [Next]_vars, \A w \in Workers : ~Crash(w)
    PROVE  HeldBut(S)'
<1>1. CASE UNCHANGED vars
  BY <1>1, KeepsHeld DEF vars
<1>2. ASSUME NEW k \in Entities, Emit(k) PROVE HeldBut(S)'
  <2>1. /\ DOMAIN outbox' = DOMAIN outbox \cup {Len(outbox) + 1}
        /\ outbox'[Len(outbox) + 1].status = "pending"
        /\ \A i \in DOMAIN outbox : outbox'[i] = outbox[i]
    BY <1>2, EmitAppends
  <2>2. worker' = worker
    BY <1>2 DEF Emit
  <2> QED
    BY <2>1, <2>2 DEF HeldBut, Held, Active
<1>3. ASSUME NEW w \in Workers, Fetch(w) PROVE HeldBut(S)'
  <2>1. PICK batch : worker' = [worker EXCEPT ![w].batch = batch]
    BY <1>3 DEF Fetch
  <2>2. \A v \in Workers : worker'[v].at = worker[v].at
    BY <2>1 DEF TypeOK, Worker
  <2> QED
    BY <1>3, <2>2, KeepsHeld DEF Fetch
<1>4. ASSUME NEW w \in Workers, Begin(w) PROVE HeldBut(S)'
  <2>1. PICK i \in worker[w].batch :
          Take(w, i) /\ outbox' = [outbox EXCEPT ![i].status = "processing"]
    BY <1>4 DEF Begin
  <2>2. i \in DOMAIN outbox /\ Saved(i)
    BY <2>1, BeginSaves
  <2>3. /\ worker'[w].at = i
        /\ \A v \in Workers \ {w} : worker'[v] = worker[v]
    BY <2>1 DEF Take, TypeOK, Worker
  <2>4. i # 0 /\ ~Active(w)
    BY <2>1, <2>2 DEF Take, TypeOK
  <2>5. SUFFICES ASSUME NEW j \in DOMAIN outbox \ S, outbox'[j].status = "processing"
                 PROVE  \E v \in Workers : Active(v)' /\ worker'[v].at = j
    BY <1>4, <2>2 DEF Begin, HeldBut, Held, Saved
  <2>6. CASE j = i
    BY <2>3, <2>4, <2>6 DEF Active
  <2>7. CASE j # i
    <3>1. PICK v \in Workers : Active(v) /\ worker[v].at = j
      BY <2>2, <2>5, <2>7 DEF HeldBut, Held, Saved
    <3> QED
      BY <2>3, <2>4, <3>1 DEF Active
  <2> QED
    BY <2>6, <2>7
<1>5. ASSUME NEW w \in Workers, Active(w), Fail(w) PROVE HeldBut(S)'
  BY <1>5, FailSaves, ProceedHolds DEF Fail
<1>6. ASSUME NEW w \in Workers, Read(w) PROVE HeldBut(S)'
  <2>1. CASE Fail(w)
    BY <1>5, <1>6, <2>1 DEF Read, Visiting
  <2>2. CASE worker' = [worker EXCEPT ![w].next = @ + 1] /\ UNCHANGED outbox
    BY <1>6, <2>2, KeepsHeld DEF Read, TypeOK, Worker
  <2>3. CASE /\ worker' = [worker EXCEPT ![w].read =
                             projection[outbox[worker[w].at].entity][worker[w].next]]
             /\ UNCHANGED outbox
    BY <1>6, <2>3, KeepsHeld DEF Read, TypeOK, Worker
  <2> QED
    BY <1>6, <2>1, <2>2, <2>3 DEF Read
<1>7. ASSUME NEW w \in Workers, Write(w) PROVE HeldBut(S)'
  <2>1. CASE Fail(w)
    BY <1>5, <1>7, <2>1 DEF Write, Visiting
  <2>2. CASE /\ worker' = [worker EXCEPT ![w].next = @ + 1, ![w].read = NotRead,
                                         ![w].applied = TRUE]
             /\ UNCHANGED outbox
    BY <1>7, <2>2, KeepsHeld DEF Write, TypeOK, Worker
  <2> QED
    BY <1>7, <2>1, <2>2 DEF Write
<1>8. ASSUME NEW w \in Workers, Finish(w) PROVE HeldBut(S)'
  BY <1>8, FinishSaves, ProceedHolds DEF Finish
<1>9. ASSUME NEW w \in Workers, NotifyRaises(w) PROVE HeldBut(S)'
  BY <1>9, NotifyRaisesSaves, ProceedHolds DEF NotifyRaises
<1>10. CASE RetryFailed
  BY <1>10, RetrySaves DEF RetryFailed, HeldBut, Held, Active
<1> QED
  BY <1>1, <1>2, <1>3, <1>4, <1>6, <1>7, <1>8, <1>9, <1>10 DEF Next, Work

\* A kill strands the event the worker held, and no other.
LEMMA CrashStrands ==
    ASSUME TypeOK, NEW S, HeldBut(S), NEW w \in Workers, NEW lost, lost = worker[w].at,
           Crash(w)
    PROVE  HeldBut(S \cup {lost})'
<1> SUFFICES ASSUME NEW i \in DOMAIN outbox, i \notin S, i # worker[w].at,
                    outbox[i].status = "processing"
             PROVE  \E v \in Workers : Active(v)' /\ worker'[v].at = i
  BY CrashSaves DEF HeldBut, Held
<1>1. PICK v \in Workers : Active(v) /\ worker[v].at = i
  BY DEF HeldBut, Held
<1>2. worker'[v] = worker[v]
  BY <1>1 DEF Crash, TypeOK
<1> QED
  BY <1>1, <1>2 DEF Active

\* The events without a worker are among as many as there were kills.
FewStranded ==
    \E S \in SUBSET Nat : /\ IsFiniteSet(S)
                          /\ Cardinality(S) <= crashes
                          /\ HeldBut(S)

\* Each kill leaves at most one event in PROCESSING with nobody to finish it,
\* however many workers share the outbox; neither the rejection of an event nor
\* a notification that raises leaves one behind.
THEOREM StrandedByCrashAlways == Spec => []StrandedByCrash
<1>1. Init => FewStranded
  <2> SUFFICES ASSUME Init PROVE FewStranded
    OBVIOUS
  <2>1. IsFiniteSet({}) /\ Cardinality({}) <= crashes
    BY FS_EmptySet DEF Init
  <2>2. HeldBut({})
    BY DEF Init, HeldBut
  <2> QED
    BY <2>1, <2>2 DEF FewStranded
<1>2. TypeOK /\ FewStranded /\ [Next]_vars => FewStranded'
  <2> SUFFICES ASSUME TypeOK, FewStranded, [Next]_vars PROVE FewStranded'
    OBVIOUS
  <2>1. PICK S \in SUBSET Nat : IsFiniteSet(S) /\ Cardinality(S) <= crashes /\ HeldBut(S)
    BY DEF FewStranded
  <2>2. CASE \A w \in Workers : ~Crash(w)
    <3>1. crashes' = crashes
      BY <2>2 DEF Next, vars, Emit, Work, Fetch, Begin, Read, Write, Finish, NotifyRaises,
                  RetryFailed
    <3>2. HeldBut(S)'
      BY <2>1, <2>2, HeldStep
    <3> QED
      BY <2>1, <3>1, <3>2 DEF FewStranded
  <2>3. ASSUME NEW w \in Workers, Crash(w)
        PROVE  FewStranded'
    <3>a. PICK lost : lost = worker[w].at
      OBVIOUS
    <3> DEFINE T == S \cup {lost}
    <3>1. T \in SUBSET Nat
      BY <2>1, <3>a DEF TypeOK, Worker
    <3>2. IsFiniteSet(T) /\ Cardinality(T) <= Cardinality(S) + 1 /\ Cardinality(S) \in Nat
          /\ Cardinality(T) \in Nat
      <4>1. IsFiniteSet(S)
        BY <2>1
      <4>2. IsFiniteSet(T) /\ (Cardinality(T) = Cardinality(S) \/ Cardinality(T) = Cardinality(S) + 1)
        BY <4>1, FS_AddElement
      <4>3. Cardinality(S) \in Nat
        BY <4>1, FS_CardinalityType
      <4> QED
        BY <4>2, <4>3
    <3>3. crashes \in Nat /\ crashes' = crashes + 1
      BY <2>3 DEF Crash, TypeOK
    <3>4. Cardinality(T) <= crashes'
      BY <2>1, <3>2, <3>3
    <3>5. HeldBut(T)'
      BY <2>1, <2>3, <3>a, CrashStrands
    <3> QED
      BY <3>1, <3>2, <3>4, <3>5 DEF FewStranded
  <2> QED
    BY <2>2, <2>3
<1>3. TypeOK /\ FewStranded => StrandedByCrash
  <2> SUFFICES ASSUME TypeOK, FewStranded PROVE StrandedByCrash
    OBVIOUS
  <2>1. PICK S \in SUBSET Nat : IsFiniteSet(S) /\ Cardinality(S) <= crashes /\ HeldBut(S)
    BY DEF FewStranded
  <2>2. Stranded \subseteq S
    BY <2>1 DEF Stranded, HeldBut, Held
  <2>3. Cardinality(Stranded) <= Cardinality(S) /\ Cardinality(S) \in Nat
        /\ Cardinality(Stranded) \in Nat
    BY <2>1, <2>2, FS_Subset, FS_CardinalityType
  <2> QED
    BY <2>1, <2>3 DEF StrandedByCrash, TypeOK
<1> QED
  BY <1>1, <1>2, <1>3, OutboxTypeCorrect, PTL DEF Spec

-----------------------------------------------------------------------------
(* The receivers only move forward, but where an entity is overtaken *)

\* The receivers already visited have the event, or a later one.
VisitedHave(w) ==
    Active(w) /\ outbox[worker[w].at].entity \notin overtaken => \A t \in DOMAIN Receivers :
        t < worker[w].next =>
            projection[outbox[worker[w].at].entity][t].version >= outbox[worker[w].at].version

\* The event is newer than the projection read.
ReadIsNewer(w) ==
    worker[w].read # NotRead => Visiting(w) /\ ~Ignored(outbox[worker[w].at], worker[w].read)

StartsAtFirst(w) == ~Active(w) => worker[w].next = 1 /\ worker[w].read = NotRead

WorkerInv(w) == VisitedHave(w) /\ ReadIsNewer(w) /\ StartsAtFirst(w)

\* What DispatchedIsProjected rests on: the progress of each worker between its
\* first receiver and its last.
ProjectionInv ==
    /\ DispatchedIsProjected
    /\ \A w \in Workers : WorkerInv(w)

\* No step takes a receiver back, but of an entity that is overtaken for good.
NeverBack ==
    /\ overtaken \subseteq overtaken'
    /\ \A k \in Entities \ overtaken' : \A t \in DOMAIN Receivers :
         projection'[k][t].version >= projection[k][t].version

\* The rows of the outbox a step leaves in place.
Kept ==
    /\ DOMAIN outbox \subseteq DOMAIN outbox'
    /\ \A i \in DOMAIN outbox : /\ outbox'[i].entity = outbox[i].entity
                                /\ outbox'[i].version = outbox[i].version
                                /\ outbox'[i].type = outbox[i].type

\* Events and rows as the proofs below need them.
LEMMA RowTypes ==
    ASSUME TypeOK
    PROVE  /\ \A i \in DOMAIN outbox : /\ outbox[i].entity \in Entities
                                       /\ outbox[i].version \in Nat
           /\ \A k \in Entities, t \in DOMAIN Receivers :
                /\ projection[k][t] \in Row
                /\ projection[k][t].version \in Nat
           /\ DOMAIN Receivers = 1 .. Len(Receivers) /\ Len(Receivers) \in Nat
           /\ \A w \in Workers : worker[w].next \in 1 .. Len(Receivers) + 1
<1>1. \A i \in DOMAIN outbox : outbox[i] \in Event
  BY DEF TypeOK
<1>2. \A k \in Entities, t \in DOMAIN Receivers : projection[k][t] \in Row
  BY DEF TypeOK
<1>3. DOMAIN Receivers = 1 .. Len(Receivers) /\ Len(Receivers) \in Nat
  BY ReceiverAssumption
<1> QED
  BY <1>1, <1>2, <1>3 DEF Event, Row, TypeOK

\* Only Write changes a projection, and it writes an event that the row read did
\* not make it ignore: that is the row stored, or the entity is overtaken.
LEMMA WriteForward ==
    ASSUME TypeOK, ProjectionInv, NEW w \in Workers, Write(w)
    PROVE  NeverBack
<1> DEFINE event == outbox[worker[w].at]
           row == [version |-> event.version, type |-> event.type]
           k == event.entity
           t == worker[w].next
<1>1. worker[w].at \in DOMAIN outbox /\ t \in DOMAIN Receivers
  BY RowTypes DEF Write, Visiting, Active, TypeOK
<1>2. k \in Entities /\ event.version \in Nat
  BY <1>1, RowTypes
<1>3. ~Ignored(event, worker[w].read)
  BY DEF Write, ProjectionInv, WorkerInv, ReadIsNewer
<1>4. CASE UNCHANGED <<projection, overtaken>>
  BY <1>4, RowTypes DEF NeverBack
<1>5. CASE /\ projection' = [projection EXCEPT ![k][t] = row]
           /\ overtaken' = overtaken \cup (IF Stale(w) THEN {k} ELSE {})
  <2>1. overtaken \subseteq overtaken'
    BY <1>5
  <2>2. SUFFICES ASSUME NEW l \in Entities, l \notin overtaken', NEW u \in DOMAIN Receivers
                 PROVE  projection'[l][u].version >= projection[l][u].version
    BY <2>1 DEF NeverBack
  <2>3. CASE l = k /\ u = t
    <3>1. worker[w].read = projection[k][t]
      BY <1>5, <2>2, <2>3 DEF Stale
    <3>2. event.version >= projection[k][t].version
      BY <1>1, <1>2, <1>3, <3>1, RowTypes DEF Ignored
    <3>3. projection'[l][u] = row
      BY <1>1, <1>2, <1>5, <2>3 DEF TypeOK
    <3> QED
      BY <2>3, <3>2, <3>3
  <2>4. CASE ~(l = k /\ u = t)
    <3>1. projection'[l][u] = projection[l][u]
      BY <1>1, <1>2, <1>5, <2>4 DEF TypeOK
    <3> QED
      BY <3>1, RowTypes
  <2> QED
    BY <2>3, <2>4
<1> QED
  BY <1>4, <1>5 DEF Write

LEMMA ForwardStep == TypeOK /\ ProjectionInv /\ [Next]_vars => NeverBack
<1> SUFFICES ASSUME TypeOK, ProjectionInv, [Next]_vars PROVE NeverBack
  OBVIOUS
<1>1. CASE \E w \in Workers : Write(w)
  BY <1>1, WriteForward
<1>2. CASE UNCHANGED <<projection, overtaken>>
  BY <1>2, RowTypes DEF NeverBack
<1> QED
  BY <1>1, <1>2 DEF Next, Work, Emit, Fetch, Begin, Read, Finish, NotifyRaises, Crash,
                    RetryFailed, vars

\* A step of one worker leaves the others as they are.
LEMMA OthersKeep ==
    ASSUME TypeOK, NEW w \in Workers, Work(w) \/ NotifyRaises(w) \/ Crash(w)
    PROVE  \A v \in Workers \ {w} : worker'[v] = worker[v]
<1>1. CASE Begin(w)
  BY <1>1 DEF Begin, Take, TypeOK
<1> QED
  BY <1>1 DEF Work, Fetch, Read, Write, Fail, Finish, NotifyRaises, Proceed, Crash, TypeOK

LEMMA SavedKeeps == ASSUME NEW i, Saved(i) PROVE Kept
BY DEF Saved, Kept

LEMMA KeptStep == TypeOK /\ [Next]_vars => Kept
<1> SUFFICES ASSUME TypeOK, [Next]_vars PROVE Kept
  OBVIOUS
<1>1. CASE UNCHANGED outbox
  BY <1>1 DEF Kept
<1>2. ASSUME NEW k \in Entities, Emit(k) PROVE Kept
  BY <1>2, EmitAppends DEF Kept
<1>3. ASSUME NEW w \in Workers, Begin(w) PROVE Kept
  BY <1>3, BeginSaves, SavedKeeps DEF Begin
<1>4. ASSUME NEW w \in Workers, Read(w) \/ Write(w), Fail(w) PROVE Kept
  BY <1>4, FailSaves, SavedKeeps DEF Read, Write, Visiting
<1>5. ASSUME NEW w \in Workers, Finish(w) PROVE Kept
  BY <1>5, FinishSaves, SavedKeeps
<1>6. ASSUME NEW w \in Workers, NotifyRaises(w) PROVE Kept
  BY <1>6, NotifyRaisesSaves, SavedKeeps
<1>7. ASSUME NEW w \in Workers, Crash(w) PROVE Kept
  BY <1>7, CrashSaves DEF Kept
<1>8. CASE RetryFailed
  BY <1>8, RetrySaves DEF Kept
<1>9. ASSUME NEW w \in Workers, Read(w) \/ Write(w) PROVE Kept
  BY <1>1, <1>4, <1>9 DEF Read, Write
<1> QED
  BY <1>1, <1>2, <1>3, <1>5, <1>6, <1>7, <1>8, <1>9 DEF Next, Work, Fetch, vars

\* Every receiver has event i, or a later one.
Projected(i) ==
    \A t \in DOMAIN Receivers : projection[outbox[i].entity][t].version >= outbox[i].version

\* A projected event stays projected, unless its entity is overtaken.
LEMMA ProjectedStays ==
    ASSUME TypeOK, TypeOK', NeverBack, Kept, NEW i \in DOMAIN outbox, Projected(i),
           outbox[i].entity \notin overtaken'
    PROVE  Projected(i)'
<1> SUFFICES ASSUME NEW t \in DOMAIN Receivers
             PROVE  projection'[outbox'[i].entity][t].version >= outbox'[i].version
  BY DEF Projected
<1> DEFINE k == outbox[i].entity
<1>1. k \in Entities /\ outbox[i].version \in Nat
  BY RowTypes
<1>2. outbox'[i].entity = k /\ outbox'[i].version = outbox[i].version
  BY DEF Kept
<1>3. projection[k][t].version \in Nat
  BY <1>1, RowTypes
<1>4. projection'[k][t] \in Row
  BY <1>1 DEF TypeOK
<1>5. projection'[k][t].version \in Nat
  BY <1>4 DEF Row
<1>6. projection[k][t].version >= outbox[i].version
  BY DEF Projected
<1>7. projection'[k][t].version >= projection[k][t].version
  BY <1>1 DEF NeverBack
<1>8. projection'[k][t].version >= outbox[i].version
  BY <1>1, <1>3, <1>5, <1>6, <1>7
<1> QED
  BY <1>2, <1>8

\* An event a step marks DISPATCHED must be projected already.
LEMMA DispatchedStep ==
    ASSUME TypeOK, TypeOK', ProjectionInv, NeverBack, Kept,
           \A i \in DOMAIN outbox' : outbox'[i].status = "dispatched" =>
                /\ i \in DOMAIN outbox
                /\ \/ outbox[i].status = "dispatched"
                   \/ outbox[i].entity \in overtaken
                   \/ Projected(i)
    PROVE  DispatchedIsProjected'
<1> SUFFICES ASSUME NEW i \in DOMAIN outbox', outbox'[i].status = "dispatched",
                    outbox'[i].entity \notin overtaken'
             PROVE  Projected(i)'
  BY DEF DispatchedIsProjected, Projected
<1>1. i \in DOMAIN outbox
  OBVIOUS
<1>2. outbox[i].entity \notin overtaken' /\ outbox[i].entity \notin overtaken
  BY <1>1 DEF Kept, NeverBack
<1>3. Projected(i)
  BY <1>1, <1>2 DEF ProjectionInv, DispatchedIsProjected, Projected
<1> QED
  BY <1>1, <1>2, <1>3, ProjectedStays

\* A worker that is free, or through with its event, has nothing to answer for.
LEMMA FreeInv ==
    ASSUME NEW w \in Workers, worker'[w].at = 0, worker'[w].next = 1,
           worker'[w].read = NotRead
    PROVE  WorkerInv(w)'
BY DEF WorkerInv, VisitedHave, ReadIsNewer, StartsAtFirst, Active

LEMMA ProceedInv ==
    ASSUME TypeOK, NEW w \in Workers, Proceed(w)
    PROVE  WorkerInv(w)'
<1>1. worker'[w] = [Free EXCEPT !.batch = worker[w].batch]
  BY DEF Proceed, TypeOK
<1> QED
  BY <1>1, FreeInv DEF Free

\* A step that leaves a worker alone, whatever it does to the projections.
LEMMA UntouchedInv ==
    ASSUME TypeOK, TypeOK', NeverBack, Kept, NEW w \in Workers, WorkerInv(w),
           worker'[w].at = worker[w].at, worker'[w].next = worker[w].next,
           worker'[w].read = worker[w].read
    PROVE  WorkerInv(w)'
<1>1. CASE ~Active(w)
  <2>1. worker[w].at = 0 /\ worker[w].next = 1 /\ worker[w].read = NotRead
    BY <1>1 DEF Active, WorkerInv, StartsAtFirst
  <2> QED
    BY <2>1, FreeInv
<1>2. CASE Active(w)
  <2> DEFINE i == worker[w].at
             k == outbox[i].entity
  <2>1. i \in DOMAIN outbox
    BY <1>2 DEF Active, TypeOK
  <2>2. /\ outbox'[i].entity = k
        /\ outbox'[i].version = outbox[i].version
        /\ outbox'[i].type = outbox[i].type
    BY <2>1 DEF Kept
  <2>3. ReadIsNewer(w)' /\ StartsAtFirst(w)'
    BY <1>2, <2>2 DEF WorkerInv, ReadIsNewer, StartsAtFirst, Active, Visiting, Ignored
  <2>4. ASSUME k \notin overtaken', NEW t \in DOMAIN Receivers, t < worker[w].next
        PROVE  projection'[k][t].version >= outbox[i].version
    <3>1. k \in Entities /\ outbox[i].version \in Nat /\ projection[k][t].version \in Nat
      BY <2>1, RowTypes
    <3>2. projection'[k][t] \in Row
      BY <3>1 DEF TypeOK
    <3>3. projection'[k][t].version \in Nat
      BY <3>2 DEF Row
    <3>4. k \notin overtaken /\ projection'[k][t].version >= projection[k][t].version
      BY <2>4, <3>1 DEF NeverBack
    <3>5. projection[k][t].version >= outbox[i].version
      BY <1>2, <2>4, <3>4 DEF WorkerInv, VisitedHave
    <3> QED
      BY <3>1, <3>3, <3>4, <3>5
  <2>5. VisitedHave(w)'
    BY <2>2, <2>4 DEF VisitedHave
  <2> QED
    BY <2>3, <2>5 DEF WorkerInv
<1> QED
  BY <1>1, <1>2

LEMMA BeginInv ==
    ASSUME TypeOK, NEW w \in Workers, WorkerInv(w), Begin(w)
    PROVE  WorkerInv(w)'
<1>1. PICK i \in worker[w].batch : Take(w, i)
  BY DEF Begin
<1>2. worker[w].next = 1 /\ worker[w].read = NotRead
  BY <1>1 DEF Take, WorkerInv, StartsAtFirst
<1>3. /\ worker'[w].at = i /\ i \in DOMAIN outbox
      /\ worker'[w].next = 1
      /\ worker'[w].read = NotRead
  BY <1>1, <1>2 DEF Take, TypeOK, Worker
<1>4. i # 0
  BY <1>3 DEF TypeOK
<1>5. \A t \in DOMAIN Receivers : ~(t < 1)
  BY ReceiverAssumption
<1> QED
  BY <1>3, <1>4, <1>5 DEF WorkerInv, VisitedHave, ReadIsNewer, StartsAtFirst, Active

LEMMA ReadInv ==
    ASSUME TypeOK, NEW w \in Workers, WorkerInv(w), Read(w)
    PROVE  WorkerInv(w)'
<1> DEFINE event == outbox[worker[w].at]
           row == projection[event.entity][worker[w].next]
<1>1. worker[w].at \in DOMAIN outbox /\ worker[w].next \in DOMAIN Receivers /\ Active(w)
  BY RowTypes DEF Read, Visiting, Active, TypeOK
<1>2. event.entity \in Entities /\ event.version \in Nat /\ row.version \in Nat
  BY <1>1, RowTypes
<1>3. projection' = projection /\ overtaken' = overtaken
  BY DEF Read
<1>4. CASE /\ Ignored(event, row)
           /\ worker' = [worker EXCEPT ![w].next = @ + 1]
           /\ UNCHANGED outbox
  <2>1. row.version >= event.version
    BY <1>2, <1>4 DEF Ignored
  <2>2. /\ worker'[w].at = worker[w].at
        /\ worker'[w].next = worker[w].next + 1
        /\ worker'[w].read = worker[w].read /\ worker[w].read = NotRead
    BY <1>4 DEF Read, TypeOK, Worker
  <2>3. ASSUME event.entity \notin overtaken,
               NEW t \in DOMAIN Receivers, t < worker[w].next + 1
        PROVE  projection[event.entity][t].version >= event.version
    <3>1. t < worker[w].next \/ t = worker[w].next
      BY <1>1, <2>3, RowTypes
    <3> QED
      BY <1>1, <2>1, <2>3, <3>1 DEF WorkerInv, VisitedHave
  <2> QED
    BY <1>1, <1>3, <1>4, <2>2, <2>3 DEF WorkerInv, VisitedHave, ReadIsNewer, StartsAtFirst, Active
<1>5. CASE Fail(w)
  BY <1>5, ProceedInv DEF Fail
<1>6. CASE /\ ~Ignored(event, row)
           /\ worker' = [worker EXCEPT ![w].read = row]
           /\ UNCHANGED outbox
  <2>1. /\ worker'[w].at = worker[w].at
        /\ worker'[w].next = worker[w].next
        /\ worker'[w].read = row
    BY <1>6 DEF TypeOK, Worker
  <2>2. worker'[w].at # 0 /\ worker'[w].next <= Len(Receivers)
    BY <1>1, <2>1, RowTypes DEF Active
  <2>3. outbox'[worker'[w].at] = event
    BY <1>6, <2>1
  <2>5. ReadIsNewer(w)'
    BY <1>6, <2>1, <2>2, <2>3 DEF ReadIsNewer, Visiting, Active, Ignored
  <2>6. VisitedHave(w)' /\ StartsAtFirst(w)'
    BY <1>1, <1>3, <1>6, <2>1 DEF WorkerInv, VisitedHave, StartsAtFirst, Active
  <2> QED
    BY <2>5, <2>6 DEF WorkerInv
<1>7. \/ /\ Ignored(event, row)
         /\ worker' = [worker EXCEPT ![w].next = @ + 1]
         /\ UNCHANGED outbox
      \/ Fail(w)
      \/ /\ ~Ignored(event, row)
         /\ worker' = [worker EXCEPT ![w].read = row]
         /\ UNCHANGED outbox
  BY DEF Read
<1> QED
  BY <1>4, <1>5, <1>6, <1>7

LEMMA WriteInv ==
    ASSUME TypeOK, TypeOK', NeverBack, NEW w \in Workers, WorkerInv(w), Write(w)
    PROVE  WorkerInv(w)'
<1> DEFINE event == outbox[worker[w].at]
           k == event.entity
           row == [version |-> event.version, type |-> event.type]
<1>1. worker[w].at \in DOMAIN outbox /\ worker[w].next \in DOMAIN Receivers /\ Active(w)
  BY RowTypes DEF Write, Visiting, Active, TypeOK
<1>2. k \in Entities /\ event.version \in Nat
  BY <1>1, RowTypes
<1>3. CASE Fail(w)
  BY <1>3, ProceedInv DEF Fail
<1>4. CASE /\ overtaken' = overtaken \cup (IF Stale(w) THEN {k} ELSE {})
           /\ projection' = [projection EXCEPT ![k][worker[w].next] = row]
           /\ worker' = [worker EXCEPT ![w].next = @ + 1, ![w].read = NotRead,
                                       ![w].applied = TRUE]
           /\ UNCHANGED outbox
  <2>1. /\ worker'[w].at = worker[w].at
        /\ worker'[w].next = worker[w].next + 1
        /\ worker'[w].read = NotRead
    BY <1>4 DEF TypeOK, Worker
  <2>2. ASSUME k \notin overtaken',
               NEW t \in DOMAIN Receivers, t < worker[w].next + 1
        PROVE  projection'[k][t].version >= event.version
    <3>1. CASE t = worker[w].next
      <4>1. projection'[k][t] = row
        BY <1>1, <1>2, <1>4, <3>1 DEF TypeOK
      <4> QED
        BY <1>2, <4>1
    <3>2. CASE t < worker[w].next
      <4>1. projection[k][t].version >= event.version
        BY <1>1, <1>4, <2>2, <3>2 DEF WorkerInv, VisitedHave
      <4>2. projection'[k][t] = projection[k][t]
        BY <1>1, <1>2, <1>4, <3>2, RowTypes DEF TypeOK
      <4> QED
        BY <4>1, <4>2
    <3> QED
      BY <1>1, <2>2, <3>1, <3>2, RowTypes
  <2> QED
    BY <1>1, <1>4, <2>1, <2>2 DEF WorkerInv, VisitedHave, ReadIsNewer, StartsAtFirst, Active
<1>5. Fail(w) \/ /\ overtaken' = overtaken \cup (IF Stale(w) THEN {k} ELSE {})
                  /\ projection' = [projection EXCEPT ![k][worker[w].next] = row]
                  /\ worker' = [worker EXCEPT ![w].next = @ + 1, ![w].read = NotRead,
                                              ![w].applied = TRUE]
                  /\ UNCHANGED outbox
  BY DEF Write
<1> QED
  BY <1>3, <1>4, <1>5

\* Once its last receiver is behind it, the event of a worker is projected.
LEMMA FinishedIsProjected ==
    ASSUME TypeOK, NEW w \in Workers, WorkerInv(w), Active(w),
           worker[w].next = Len(Receivers) + 1
    PROVE  /\ worker[w].at \in DOMAIN outbox
           /\ outbox[worker[w].at].entity \in overtaken \/ Projected(worker[w].at)
<1>1. worker[w].at \in DOMAIN outbox
  BY DEF Active, TypeOK
<1>2. \A t \in DOMAIN Receivers : t < worker[w].next
  BY RowTypes
<1> QED
  BY <1>1, <1>2 DEF WorkerInv, VisitedHave, Projected

LEMMA ProjectionStep == TypeOK /\ ProjectionInv /\ [Next]_vars => ProjectionInv'
<1> SUFFICES ASSUME TypeOK, ProjectionInv, [Next]_vars PROVE ProjectionInv'
  OBVIOUS
<1>a. TypeOK' /\ NeverBack /\ Kept
  BY TypeStep, ForwardStep, KeptStep
<1>b. \A w \in Workers : WorkerInv(w)
  BY DEF ProjectionInv
<1>c. ASSUME NEW w \in Workers, Work(w) \/ NotifyRaises(w) \/ Crash(w), WorkerInv(w)'
      PROVE  \A v \in Workers : WorkerInv(v)'
  <2>1. \A v \in Workers \ {w} : worker'[v] = worker[v]
    BY <1>c, OthersKeep
  <2>2. \A v \in Workers \ {w} : WorkerInv(v)'
    BY <1>a, <1>b, <2>1, UntouchedInv
  <2> QED
    BY <1>c, <2>2
<1>d. SUFFICES /\ \A i \in DOMAIN outbox' : outbox'[i].status = "dispatched" =>
                       /\ i \in DOMAIN outbox
                       /\ \/ outbox[i].status = "dispatched"
                          \/ outbox[i].entity \in overtaken
                          \/ Projected(i)
               /\ \A w \in Workers : WorkerInv(w)'
  BY <1>a, DispatchedStep DEF ProjectionInv
<1>1. CASE UNCHANGED vars
  BY <1>1, <1>a, <1>b, UntouchedInv DEF vars
<1>2. ASSUME NEW k \in Entities, Emit(k) PROVE <1>d!1
  BY <1>2, <1>a, <1>b, EmitAppends, UntouchedInv DEF Emit
<1>3. ASSUME NEW w \in Workers, Fetch(w) PROVE <1>d!1
  <2>1. PICK batch : worker' = [worker EXCEPT ![w].batch = batch]
    BY <1>3 DEF Fetch
  <2>2. /\ worker'[w].at = worker[w].at /\ worker'[w].next = worker[w].next
        /\ worker'[w].read = worker[w].read
    BY <2>1 DEF TypeOK, Worker
  <2>3. WorkerInv(w)'
    BY <1>3, <1>a, <1>b, <2>2, UntouchedInv DEF Fetch
  <2> QED
    BY <1>3, <1>c, <2>3 DEF Fetch, Work
<1>4. ASSUME NEW w \in Workers, Begin(w) PROVE <1>d!1
  <2>1. PICK i \in worker[w].batch : i \in DOMAIN outbox /\ Saved(i) /\ outbox'[i].status = "processing"
    BY <1>4, BeginSaves DEF Begin
  <2>2. WorkerInv(w)'
    BY <1>4, <1>b, BeginInv
  <2> QED
    BY <1>4, <1>c, <2>1, <2>2 DEF Saved, Work
<1>5. ASSUME NEW w \in Workers, Read(w) \/ Write(w) PROVE <1>d!1
  <2>1. WorkerInv(w)'
    BY <1>5, <1>a, <1>b, ReadInv, WriteInv
  <2>a. \A v \in Workers : WorkerInv(v)'
    BY <1>5, <1>c, <2>1 DEF Work
  <2>2. CASE UNCHANGED outbox
    BY <2>2, <2>a
  <2>3. CASE Fail(w)
    <3>1. Saved(worker[w].at) /\ outbox'[worker[w].at].status = "failed"
      BY <1>5, <2>3, FailSaves DEF Read, Write, Visiting
    <3> QED
      BY <2>a, <3>1 DEF Saved
  <2> QED
    BY <1>5, <2>2, <2>3 DEF Read, Write
<1>6. ASSUME NEW w \in Workers, Finish(w) PROVE <1>d!1
  <2>1. Saved(worker[w].at)
    BY <1>6, FinishSaves
  <2>2. /\ worker[w].at \in DOMAIN outbox
        /\ outbox[worker[w].at].entity \in overtaken \/ Projected(worker[w].at)
    BY <1>6, <1>b, FinishedIsProjected DEF Finish
  <2>3. WorkerInv(w)'
    BY <1>6, ProceedInv DEF Finish
  <2> QED
    BY <1>6, <1>c, <2>1, <2>2, <2>3 DEF Saved, Work
<1>7. ASSUME NEW w \in Workers, NotifyRaises(w) PROVE <1>d!1
  <2>1. Saved(worker[w].at) /\ outbox'[worker[w].at].status = "failed"
    BY <1>7, NotifyRaisesSaves
  <2>2. WorkerInv(w)'
    BY <1>7, ProceedInv DEF NotifyRaises
  <2> QED
    BY <1>7, <1>c, <2>1, <2>2 DEF Saved
<1>8. ASSUME NEW w \in Workers, Crash(w) PROVE <1>d!1
  <2>1. worker'[w] = Free
    BY <1>8 DEF Crash, TypeOK
  <2>2. WorkerInv(w)'
    BY <2>1, FreeInv DEF Free
  <2> QED
    BY <1>8, <1>c, <2>2, CrashSaves
<1>9. CASE RetryFailed
  BY <1>9, <1>a, <1>b, RetrySaves, UntouchedInv DEF RetryFailed
<1> QED
  BY <1>1, <1>2, <1>3, <1>4, <1>5, <1>6, <1>7, <1>8, <1>9 DEF Next, Work

LEMMA ProjectionInit == Init => ProjectionInv
BY DEF Init, ProjectionInv, DispatchedIsProjected, WorkerInv, VisitedHave, ReadIsNewer,
       StartsAtFirst, Active, Free

\* However many workers share the outbox, and although each may be killed between
\* any two of its steps and the event applied again, a dispatched event has
\* reached every receiver or been overtaken there by a newer one, unless a worker
\* saved a row of the entity over one it had not read.
THEOREM DispatchedIsProjectedAlways == Spec => []DispatchedIsProjected
<1>1. Init => ProjectionInv
  BY ProjectionInit
<1>2. TypeOK /\ ProjectionInv /\ [Next]_vars => ProjectionInv'
  BY ProjectionStep
<1>3. ProjectionInv => DispatchedIsProjected
  BY DEF ProjectionInv
<1> QED
  BY <1>1, <1>2, <1>3, OutboxTypeCorrect, PTL DEF Spec

-----------------------------------------------------------------------------
(* What the receivers hold is what was published *)

\* Two events of an entity differ in version (_next_entity_version, under the
\* lock of the entity's row), and a receiver's row is none or that of an event.
Distinct ==
    \A i, j \in DOMAIN outbox :
        outbox[i].entity = outbox[j].entity /\ outbox[i].version = outbox[j].version => i = j

ShownBy(i, k, t) ==
    /\ outbox[i].entity = k
    /\ outbox[i].version = projection[k][t].version /\ outbox[i].type = projection[k][t].type

Shown(k, t) == projection[k][t] = NoRow \/ \E i \in DOMAIN outbox : ShownBy(i, k, t)

PublishedInv ==
    /\ Distinct
    /\ \A i \in DOMAIN outbox : outbox[i].version # 0
    /\ \A k \in Entities, t \in DOMAIN Receivers : Shown(k, t)

LEMMA EmitIsNewer ==
    ASSUME TypeOK, NEW k \in Entities, Emit(k)
    PROVE  /\ outbox'[Len(outbox) + 1].entity = k
           /\ outbox'[Len(outbox) + 1].version # 0
           /\ \A i \in DOMAIN outbox :
                outbox[i].entity = k => outbox[i].version # outbox'[Len(outbox) + 1].version
           /\ outbox'[Len(outbox) + 1].told = 0
<1>1. PICK m \in Moves, newest \in Versions(k) :
        /\ \A v \in Versions(k) : v <= newest
        /\ outbox' = Append(outbox, [entity |-> k, version |-> newest + 1,
                                     type |-> m.event, status |-> "pending", told |-> 0])
  BY DEF Emit
<1>2. newest \in Nat /\ \A i \in Of(k) : outbox[i].version \in Nat /\ outbox[i].version <= newest
  BY <1>1, RowTypes DEF Versions, Of
<1>3. outbox'[Len(outbox) + 1] = [entity |-> k, version |-> newest + 1, type |-> m.event,
                                  status |-> "pending", told |-> 0]
  BY <1>1 DEF TypeOK
<1>4. \A i \in DOMAIN outbox :
        outbox[i].entity = k => outbox[i].version \in Nat /\ outbox[i].version <= newest
  BY <1>2 DEF Of
<1> QED
  BY <1>2, <1>3, <1>4

\* Only Emit adds a row.
LEMMA SameRows ==
    ASSUME TypeOK, [Next]_vars, \A k \in Entities : ~Emit(k)
    PROVE  DOMAIN outbox' = DOMAIN outbox
<1>1. ASSUME NEW w \in Workers, Work(w) \/ NotifyRaises(w) \/ Crash(w)
      PROVE  DOMAIN outbox' = DOMAIN outbox
  BY <1>1, BeginSaves, FailSaves, FinishSaves, NotifyRaisesSaves, CrashSaves
     DEF Work, Fetch, Begin, Read, Write, Visiting, Saved
<1>2. RetryFailed => DOMAIN outbox' = DOMAIN outbox
  BY RetrySaves
<1>3. UNCHANGED vars => DOMAIN outbox' = DOMAIN outbox
  BY DEF vars
<1> QED
  BY <1>1, <1>2, <1>3 DEF Next

\* What a receiver shows stays published.
LEMMA ShownStays ==
    ASSUME Kept, NEW k \in Entities, NEW t \in DOMAIN Receivers, Shown(k, t),
           projection'[k][t] = projection[k][t]
    PROVE  Shown(k, t)'
BY DEF Shown, ShownBy, Kept

LEMMA ShownWrite ==
    ASSUME TypeOK, Kept, PublishedInv, NEW w \in Workers, Write(w)
    PROVE  \A k \in Entities, t \in DOMAIN Receivers : Shown(k, t)'
<1> DEFINE i == worker[w].at
           e == outbox[i].entity
           u == worker[w].next
           row == [version |-> outbox[i].version, type |-> outbox[i].type]
<1>1. i \in DOMAIN outbox /\ u \in DOMAIN Receivers /\ e \in Entities
  BY RowTypes DEF Write, Visiting, Active, TypeOK
<1> SUFFICES ASSUME NEW k \in Entities, NEW t \in DOMAIN Receivers
             PROVE  Shown(k, t)'
  OBVIOUS
<1>2. Shown(k, t)
  BY DEF PublishedInv
<1>3. CASE projection' = [projection EXCEPT ![e][u] = row]
  <2>1. CASE k = e /\ t = u
    <3>1. projection'[k][t] = row
      BY <1>1, <1>3, <2>1 DEF TypeOK
    <3>2. /\ i \in DOMAIN outbox' /\ outbox'[i].entity = k
          /\ outbox'[i].version = row.version /\ outbox'[i].type = row.type
      BY <1>1, <2>1 DEF Kept
    <3> QED
      BY <3>1, <3>2 DEF Shown, ShownBy
  <2>2. CASE ~(k = e /\ t = u)
    <3>1. projection'[k][t] = projection[k][t]
      BY <1>1, <1>3, <2>2 DEF TypeOK
    <3> QED
      BY <1>2, <3>1, ShownStays
  <2> QED
    BY <2>1, <2>2
<1>4. CASE UNCHANGED projection
  BY <1>2, <1>4, ShownStays
<1> QED
  BY <1>3, <1>4 DEF Write

LEMMA PublishedStep == TypeOK /\ PublishedInv /\ [Next]_vars => PublishedInv'
<1> SUFFICES ASSUME TypeOK, PublishedInv, [Next]_vars
             PROVE  PublishedInv'
  OBVIOUS
<1>1. Kept
  BY KeptStep
<1>2. \A k \in Entities, t \in DOMAIN Receivers : Shown(k, t)'
  <2>1. CASE \E w \in Workers : Write(w)
    BY <1>1, <2>1, ShownWrite
  <2>2. CASE UNCHANGED projection
    BY <1>1, <2>2, ShownStays DEF PublishedInv
  <2> QED
    BY <2>1, <2>2 DEF Next, Work, Emit, Fetch, Begin, Read, Finish, NotifyRaises, Crash,
                      RetryFailed, vars
<1>3. CASE DOMAIN outbox' = DOMAIN outbox
  <2>1. Distinct'
    BY <1>1, <1>3 DEF PublishedInv, Distinct, Kept
  <2>2. \A i \in DOMAIN outbox' : outbox'[i].version # 0
    BY <1>1, <1>3 DEF PublishedInv, Kept
  <2> QED
    BY <1>2, <2>1, <2>2 DEF PublishedInv
<1>4. ASSUME NEW k \in Entities, Emit(k)
      PROVE  PublishedInv'
  <2> DEFINE new == Len(outbox) + 1
  <2>1. /\ DOMAIN outbox' = DOMAIN outbox \cup {new}
        /\ \A i \in DOMAIN outbox : outbox'[i] = outbox[i]
    BY <1>4, EmitAppends
  <2>2. /\ outbox'[new].entity = k /\ outbox'[new].version # 0
        /\ \A i \in DOMAIN outbox :
             outbox[i].entity = k => outbox[i].version # outbox'[new].version
    BY <1>4, EmitIsNewer
  <2> HIDE DEF new
  <2>3. Distinct'
    BY <2>1, <2>2 DEF PublishedInv, Distinct
  <2>4. \A i \in DOMAIN outbox' : outbox'[i].version # 0
    BY <2>1, <2>2 DEF PublishedInv
  <2> QED
    BY <1>2, <2>3, <2>4 DEF PublishedInv
<1> QED
  BY <1>3, <1>4, SameRows

LEMMA PublishedInit == Init => PublishedInv
<1> SUFFICES ASSUME Init
             PROVE  PublishedInv
  OBVIOUS
<1>1. DOMAIN outbox = {} /\ \A k \in Entities, t \in DOMAIN Receivers : projection[k][t] = NoRow
  BY DEF Init
<1> QED
  BY <1>1 DEF PublishedInv, Distinct, Shown

-----------------------------------------------------------------------------
(* The outbox implements ReplicaContract *)

\* The refinement mapping of Contract, by name.
Newest(k) == Max(Versions(k))
Latest == [k \in Entities |-> Newest(k)]
Copy == [k \in Entities |-> [t \in DOMAIN Receivers |-> projection[k][t].version]]

IsNewest(k, m) == m \in Versions(k) /\ \A v \in Versions(k) : v <= m

\* Max is a CHOOSE: it says something of Versions(k) only where this holds.
HasNewest == \A k \in Entities : \E m : IsNewest(k, m)

\* An event's version is one of its entity's versions, and all are numbers.
LEMMA VersionTypes ==
    ASSUME TypeOK
    PROVE  /\ \A k \in Entities : Versions(k) \subseteq Nat
           /\ \A i \in DOMAIN outbox : outbox[i].version \in Versions(outbox[i].entity)
BY RowTypes DEF Versions, Of

LEMMA NewestIsMax ==
    ASSUME TypeOK, HasNewest, NEW k \in Entities
    PROVE  IsNewest(k, Newest(k)) /\ Newest(k) \in Nat
<1>1. PICK m : IsNewest(k, m)
  BY DEF HasNewest
<1>2. m \in Versions(k) /\ \A v \in Versions(k) : m >= v
  BY <1>1, VersionTypes DEF IsNewest
<1>3. Newest(k) \in Versions(k) /\ \A v \in Versions(k) : Newest(k) >= v
  BY <1>2 DEF Newest, Max
<1> QED
  BY <1>3, VersionTypes DEF IsNewest

LEMMA NewestIsUnique ==
    ASSUME TypeOK, HasNewest, NEW k \in Entities, NEW m, IsNewest(k, m)
    PROVE  Newest(k) = m
<1>1. Newest(k) <= m /\ m <= Newest(k)
  BY NewestIsMax DEF IsNewest
<1>2. m \in Nat
  BY VersionTypes DEF IsNewest
<1> QED
  BY <1>1, <1>2, NewestIsMax

\* A step that emits nothing publishes nothing.
LEMMA QuietPublishesNothing ==
    ASSUME TypeOK, HasNewest, Kept, DOMAIN outbox' = DOMAIN outbox
    PROVE  Latest' = Latest /\ HasNewest'
<1>1. ASSUME NEW k \in Entities PROVE Versions(k)' = Versions(k)
  BY DEF Versions, Of, Kept
<1>2. HasNewest'
  BY <1>1 DEF HasNewest, IsNewest
<1>3. ASSUME NEW k \in Entities PROVE Newest(k)' = Newest(k)
  BY <1>1 DEF Newest
<1> QED
  BY <1>2, <1>3 DEF Latest

\* Emit publishes the version after the newest (_next_entity_version).
LEMMA EmitPublishes ==
    ASSUME TypeOK, TypeOK', HasNewest, NEW k \in Entities, Emit(k)
    PROVE  Latest' = [Latest EXCEPT ![k] = @ + 1] /\ HasNewest'
<1>1. PICK m \in Moves, newest \in Versions(k) :
        /\ \A v \in Versions(k) : v <= newest
        /\ outbox' = Append(outbox, [entity |-> k, version |-> newest + 1,
                                     type |-> m.event, status |-> "pending", told |-> 0])
  BY DEF Emit
<1>2. newest = Newest(k) /\ newest \in Nat
  BY <1>1, NewestIsUnique, NewestIsMax DEF IsNewest
<1>a. PICK end : end = Len(outbox) + 1
  OBVIOUS
<1>3. outbox \in Seq(Event) /\ DOMAIN outbox = 1 .. Len(outbox) /\ Len(outbox) \in Nat
  BY DEF TypeOK
<1>4. /\ outbox'[end].entity = k /\ outbox'[end].version = newest + 1
      /\ DOMAIN outbox' = DOMAIN outbox \cup {end}
      /\ \A i \in DOMAIN outbox : outbox'[i] = outbox[i]
  <2>1. DOMAIN outbox' = DOMAIN outbox \cup {end}
        /\ \A i \in DOMAIN outbox : outbox'[i] = outbox[i]
    BY <1>a, EmitAppends
  <2>2. outbox'[end] = [entity |-> k, version |-> newest + 1,
                        type |-> m.event, status |-> "pending", told |-> 0]
    BY <1>1, <1>3, <1>a
  <2> QED
    BY <1>2, <2>1, <2>2
<1>5. Versions(k)' = Versions(k) \cup {newest + 1}
  BY <1>4 DEF Versions, Of
<1>6. IsNewest(k, newest + 1)'
  <2>1. \A v \in Versions(k) : v \in Nat /\ v <= newest
    BY <1>1, VersionTypes
  <2>2. ASSUME NEW v \in Versions(k)' PROVE v <= newest + 1
    <3>1. v \in Versions(k) \/ v = newest + 1
      BY <1>5
    <3>2. newest \in Nat
      BY <1>2
    <3>3. CASE v \in Versions(k)
      <4>1. v \in Nat /\ v <= newest
        BY <2>1, <3>3
      <4> QED
        BY <3>2, <4>1
    <3>4. CASE v = newest + 1
      BY <3>2, <3>4
    <3> QED
      BY <3>1, <3>3, <3>4
  <2> QED
    BY <1>5, <2>2 DEF IsNewest
<1>7. ASSUME NEW l \in Entities, l # k PROVE Versions(l)' = Versions(l)
  BY <1>4, <1>7 DEF Versions, Of
<1>8. HasNewest'
  <2>1. ASSUME NEW l \in Entities PROVE (\E m_1 : IsNewest(l, m_1))'
    <3>1. CASE l = k
      BY <1>6, <3>1
    <3>2. CASE l # k
      BY <1>7, <3>2, NewestIsMax DEF IsNewest
    <3> QED
      BY <3>1, <3>2
  <2> QED
    BY <2>1 DEF HasNewest
<1>9. Newest(k)' = newest + 1
  <2>1. Versions(k)' \subseteq Nat
    BY <1>2, <1>5, VersionTypes
  <2>2. \A x \in Versions(k)' : (\A y \in Versions(k)' : x >= y) => x = newest + 1
    BY <1>2, <1>6, <2>1 DEF IsNewest
  <2>3. \A y \in Versions(k)' : newest + 1 >= y
    BY <1>2, <1>6, <2>1 DEF IsNewest
  <2>4. newest + 1 \in Versions(k)'
    BY <1>5
  <2> QED
    BY <2>2, <2>3, <2>4 DEF Newest, Max
<1>10. ASSUME NEW l \in Entities, l # k PROVE Newest(l)' = Newest(l)
  BY <1>7, <1>10 DEF Newest
<1> QED
  BY <1>2, <1>8, <1>9, <1>10 DEF Latest

\* The entity of a worker's event.
At(w) == outbox[worker[w].at].entity

\* Write stores a published version, or nothing.
LEMMA WriteCopies ==
    ASSUME TypeOK, PublishedInv, HasNewest, NEW w \in Workers, Write(w),
           ~UNCHANGED <<Copy, overtaken>>
    PROVE  LET i == worker[w].at  t == worker[w].next IN
           /\ i \in DOMAIN outbox /\ At(w) \in Entities /\ t \in DOMAIN Receivers
           /\ outbox[i].version \in 1 .. Latest[At(w)]
           /\ Copy' = [Copy EXCEPT ![At(w)][t] = outbox[i].version]
           /\ overtaken' = overtaken \cup (IF Stale(w) THEN {At(w)} ELSE {})
<1> DEFINE event == outbox[worker[w].at]
           row == [version |-> event.version, type |-> event.type]
           k == event.entity
           t == worker[w].next
<1>1. worker[w].at \in DOMAIN outbox /\ t \in DOMAIN Receivers
  BY RowTypes DEF Write, Visiting, Active, TypeOK
<1>2. k \in Entities /\ event.version \in Nat /\ projection[k][t].version \in Nat
  BY <1>1, RowTypes
<1>3. event.version <= Newest(k) /\ Newest(k) \in Nat /\ event.version # 0
  BY <1>1, <1>2, VersionTypes, NewestIsMax DEF IsNewest, PublishedInv
<1>4. /\ projection' = [projection EXCEPT ![k][t] = row]
      /\ overtaken' = overtaken \cup (IF Stale(w) THEN {k} ELSE {})
  BY DEF Write, Copy
<1>5. ASSUME NEW l \in Entities, NEW u \in DOMAIN Receivers
      PROVE  projection'[l][u] = IF l = k /\ u = t THEN row ELSE projection[l][u]
  BY <1>1, <1>2, <1>4 DEF TypeOK
<1>6. Copy' = [Copy EXCEPT ![k][t] = event.version]
  <2>1. ASSUME NEW l \in Entities, NEW u \in DOMAIN Receivers
        PROVE  Copy'[l][u] = IF l = k /\ u = t THEN event.version ELSE Copy[l][u]
    BY <1>5 DEF Copy
  <2>2. Copy' = [l \in Entities |-> [u \in DOMAIN Receivers |-> Copy'[l][u]]]
    BY DEF Copy
  <2>3. [Copy EXCEPT ![k][t] = event.version]
          = [l \in Entities |-> [u \in DOMAIN Receivers |->
               IF l = k /\ u = t THEN event.version ELSE Copy[l][u]]]
    BY <1>1, <1>2 DEF Copy
  <2> QED
    BY <2>1, <2>2, <2>3
<1>7. event.version \in 1 .. Latest[k]
  BY <1>2, <1>3 DEF Latest
<1> QED
  BY <1>1, <1>2, <1>4, <1>6, <1>7 DEF At

\* Where the row is still the one the worker has read, a newer one.
LEMMA WriteAdvances ==
    ASSUME TypeOK, ProjectionInv, PublishedInv, HasNewest, NEW w \in Workers, Write(w),
           ~UNCHANGED <<Copy, overtaken>>, ~Stale(w)
    PROVE  outbox[worker[w].at].version \in (Copy[At(w)][worker[w].next] + 1) .. Latest[At(w)]
<1> DEFINE event == outbox[worker[w].at]
           k == At(w)
           t == worker[w].next
<1>1. /\ worker[w].at \in DOMAIN outbox /\ k \in Entities /\ t \in DOMAIN Receivers
      /\ event.version \in 1 .. Latest[k]
      /\ Copy' = [Copy EXCEPT ![k][t] = event.version]
      /\ overtaken' = overtaken
  BY WriteCopies
<1>2. event.version \in Nat /\ projection[k][t].version \in Nat
      /\ Copy[k][t] = projection[k][t].version
  BY <1>1, RowTypes DEF Copy
<1>3. ~Ignored(event, projection[k][t])
  BY DEF Write, ProjectionInv, WorkerInv, ReadIsNewer, Stale, At
<1>4. event.version >= Copy[k][t]
  BY <1>2, <1>3 DEF Ignored
<1>5. event.version # Copy[k][t]
  <2>1. SUFFICES ASSUME event.version = Copy[k][t] PROVE Copy' = Copy
    BY <1>1
  <2>2. Copy = [l \in Entities |-> [u \in DOMAIN Receivers |-> Copy[l][u]]]
    BY DEF Copy
  <2> QED
    BY <1>1, <2>1, <2>2
<1>6. Latest[k] \in Nat
  BY <1>1, NewestIsMax DEF Latest
<1> QED
  BY <1>1, <1>2, <1>4, <1>5, <1>6

\* Every step of the outbox is a step of the contract, or none.
LEMMA ContractStep ==
    TypeOK /\ TypeOK' /\ ProjectionInv /\ PublishedInv /\ HasNewest /\ [Next]_vars
      => HasNewest' /\ [Contract!Next]_(Contract!rvars)
<1> SUFFICES ASSUME TypeOK, TypeOK', ProjectionInv, PublishedInv, HasNewest, [Next]_vars
             PROVE  HasNewest' /\ [Contract!Next]_(Contract!rvars)
  OBVIOUS
<1>1. Kept
  BY KeptStep
<1>2. ASSUME NEW k \in Entities, Emit(k)
      PROVE  HasNewest' /\ Contract!Publish(k)
  <2>1. Latest' = [Latest EXCEPT ![k] = @ + 1] /\ HasNewest'
    BY <1>2, EmitPublishes
  <2>2. Copy' = Copy /\ overtaken' = overtaken
    BY <1>2 DEF Emit, Copy
  <2> QED
    BY <2>1, <2>2 DEF Contract!Publish, Latest, Copy, Newest
<1>3. ASSUME DOMAIN outbox' = DOMAIN outbox, UNCHANGED <<projection, overtaken>>
      PROVE  HasNewest' /\ UNCHANGED Contract!rvars
  <2>1. Latest' = Latest /\ HasNewest'
    BY <1>1, <1>3, QuietPublishesNothing
  <2>2. Copy' = Copy
    BY <1>3 DEF Copy
  <2> QED
    BY <1>3, <2>1, <2>2 DEF Contract!rvars, Latest, Copy, Newest
<1>4. ASSUME NEW w \in Workers, Write(w), DOMAIN outbox' = DOMAIN outbox
      PROVE  HasNewest' /\ [Contract!Next]_(Contract!rvars)
  <2>1. Latest' = Latest /\ HasNewest'
    BY <1>1, <1>4, QuietPublishesNothing
  <2>2. CASE UNCHANGED <<Copy, overtaken>>
    BY <2>1, <2>2 DEF Contract!rvars, Latest, Copy, Newest
  <2>3. CASE ~UNCHANGED <<Copy, overtaken>>
    <3>1. PICK k \in Entities, t \in DOMAIN Receivers : \E v \in 1 .. Latest[k] :
            /\ Copy' = [Copy EXCEPT ![k][t] = v]
            /\ overtaken' = overtaken \cup (IF Stale(w) THEN {k} ELSE {})
            /\ ~Stale(w) => v \in (Copy[k][t] + 1) .. Latest[k]
      BY <1>4, <2>3, WriteCopies, WriteAdvances
    <3>2. CASE Stale(w)
      <4>1. Contract!Lose(k, t)
        BY <2>1, <3>1, <3>2 DEF Contract!Lose, Latest, Copy, Newest
      <4> QED
        BY <2>1, <4>1 DEF Contract!Next
    <3>3. CASE ~Stale(w)
      <4>1. /\ \E v \in (Copy[k][t] + 1) .. Latest[k] : Copy' = [Copy EXCEPT ![k][t] = v]
            /\ overtaken' = overtaken
        BY <3>1, <3>3
      <4>2. Contract!Advance(k, t)
        BY <2>1, <4>1 DEF Contract!Advance, Latest, Copy, Newest
      <4> QED
        BY <2>1, <4>2 DEF Contract!Next
    <3> QED
      BY <3>2, <3>3
  <2> QED
    BY <2>2, <2>3
<1>5. ASSUME NEW w \in Workers, Work(w) \/ NotifyRaises(w) \/ Crash(w)
      PROVE  DOMAIN outbox' = DOMAIN outbox
  BY <1>5, BeginSaves, FailSaves, FinishSaves, NotifyRaisesSaves, CrashSaves
     DEF Work, Fetch, Begin, Read, Write, Visiting, Saved
<1>6. ASSUME NEW w \in Workers, Work(w) \/ NotifyRaises(w) \/ Crash(w), ~Write(w)
      PROVE  UNCHANGED <<projection, overtaken>>
  BY <1>6 DEF Work, Fetch, Begin, Read, Finish, NotifyRaises, Crash
<1>7. CASE RetryFailed
  BY <1>3, <1>7 DEF RetryFailed
<1>8. CASE UNCHANGED vars
  BY <1>3, <1>8 DEF vars
<1> QED
  BY <1>2, <1>3, <1>4, <1>5, <1>6, <1>7, <1>8 DEF Next, Contract!Next

LEMMA ContractInit == Init => HasNewest /\ Contract!Init
<1> SUFFICES ASSUME Init PROVE HasNewest /\ Contract!Init
  OBVIOUS
<1>1. DOMAIN outbox = {}
  BY DEF Init
<1>2. ASSUME NEW k \in Entities PROVE Versions(k) = {0}
  BY <1>1 DEF Versions, Of
<1>3. HasNewest
  BY <1>2 DEF HasNewest, IsNewest
<1>4. ASSUME NEW k \in Entities PROVE Newest(k) = 0
  BY <1>2 DEF Newest, Max
<1>5. Latest = [k \in Entities |-> 0]
  BY <1>4 DEF Latest
<1>6. Copy = [k \in Entities |-> [t \in DOMAIN Receivers |-> 0]] /\ overtaken = {}
  BY DEF Init, Copy, NoRow
<1> QED
  BY <1>3, <1>5, <1>6 DEF Contract!Init, Latest, Copy, Newest

\* For any number of workers, retries, kills and failing notifications included,
\* the outbox implements ReplicaContract: the copies only move forward ("incoming
\* update must be newer"), and only to versions the owner published, until a worker
\* saves a row over one it had not read; a copy shows published versions even then.
THEOREM ImplementsReplicaAlways == Spec => ImplementsReplica
<1>1. Init => ProjectionInv
  BY ProjectionInit
<1>2. TypeOK /\ ProjectionInv /\ [Next]_vars => ProjectionInv'
  BY ProjectionStep
<1>3. Init => HasNewest /\ Contract!Init
  BY ContractInit
<1>4. TypeOK /\ TypeOK' /\ ProjectionInv /\ PublishedInv /\ HasNewest /\ [Next]_vars
        => HasNewest' /\ [Contract!Next]_(Contract!rvars)
  BY ContractStep
<1>5. Init => PublishedInv
  BY PublishedInit
<1>6. TypeOK /\ PublishedInv /\ [Next]_vars => PublishedInv'
  BY PublishedStep
<1> QED
  BY <1>1, <1>2, <1>3, <1>4, <1>5, <1>6, OutboxTypeCorrect, PTL
     DEF Spec, ImplementsReplica, Contract!Spec

-----------------------------------------------------------------------------
(* An event tells its users once, but where two workers share it *)

\* Two workers at work on an event share it.
SharedInv ==
    \A v, w \in Workers :
        v # w /\ Active(v) /\ worker[v].at = worker[w].at => worker[v].at \in shared

Excused(i) == i \in shared \/ outbox[i].entity \in overtaken

\* An event that has told its users has reached every receiver...
Told(i) == outbox[i].told # 0 /\ ~Excused(i) => outbox[i].told = 1 /\ Projected(i)

\* ...and so one that a worker has found to apply somewhere has not told them.
AppliedInv(w) ==
    worker[w].applied =>
        /\ Active(w)
        /\ Excused(worker[w].at) \/ outbox[worker[w].at].told = 0

ToldInv ==
    /\ SharedInv
    /\ \A i \in DOMAIN outbox : Told(i)
    /\ \A w \in Workers : AppliedInv(w)

\* Only Begin gives a worker an event, and it sees whether another has it.
LEMMA SharedStep ==
    TypeOK /\ SharedInv /\ [Next]_vars => SharedInv' /\ shared \subseteq shared'
<1> SUFFICES ASSUME TypeOK, SharedInv, [Next]_vars
             PROVE  SharedInv' /\ shared \subseteq shared'
  OBVIOUS
<1>1. ASSUME shared' = shared,
             \A v \in Workers : worker'[v].at = worker[v].at \/ worker'[v].at = 0
      PROVE  SharedInv'
  BY <1>1 DEF SharedInv, Active
<1>2. ASSUME NEW w \in Workers, Begin(w)
      PROVE  SharedInv' /\ shared \subseteq shared'
  <2>1. PICK i \in worker[w].batch : Take(w, i)
    BY <1>2 DEF Begin
  <2>2. /\ worker'[w].at = i
        /\ \A v \in Workers \ {w} : worker'[v] = worker[v]
    BY <2>1 DEF Take, TypeOK, Worker
  <2>3. shared' = IF \E v \in Workers : worker[v].at = i THEN shared \cup {i} ELSE shared
    BY <2>1 DEF Take
  <2> QED
    BY <2>2, <2>3 DEF SharedInv, Active
<1>3. ASSUME NEW w \in Workers, Work(w) \/ NotifyRaises(w) \/ Crash(w), ~Begin(w)
      PROVE  /\ shared' = shared
             /\ worker'[w].at = worker[w].at \/ worker'[w].at = 0
  <2>1. CASE Proceed(w)
    <3>1. worker'[w].at = 0
      BY <2>1 DEF Proceed, Free, TypeOK
    <3> QED
      BY <1>3, <3>1 DEF Work, Fetch, Read, Write, Finish, NotifyRaises, Crash
  <2>2. CASE Crash(w)
    BY <2>2 DEF Crash, Free, TypeOK
  <2>3. CASE Fetch(w)
    BY <2>3 DEF Fetch, TypeOK, Worker
  <2>4. CASE Read(w)
    <3>1. CASE Fail(w)
      BY <2>1, <3>1 DEF Fail
    <3>2. CASE ~Fail(w)
      BY <2>4, <3>2 DEF Read, TypeOK, Worker
    <3> QED
      BY <3>1, <3>2
  <2>5. CASE Write(w)
    <3>1. CASE Fail(w)
      BY <2>1, <3>1 DEF Fail
    <3>2. CASE ~Fail(w)
      BY <2>5, <3>2 DEF Write, TypeOK, Worker
    <3> QED
      BY <3>1, <3>2
  <2> QED
    BY <1>3, <2>1, <2>2, <2>3, <2>4, <2>5 DEF Work, Finish, NotifyRaises
<1>4. ASSUME NEW w \in Workers, Work(w) \/ NotifyRaises(w) \/ Crash(w), ~Begin(w)
      PROVE  SharedInv' /\ shared \subseteq shared'
  <2>1. shared' = shared
    BY <1>3, <1>4
  <2>2. \A v \in Workers : worker'[v].at = worker[v].at \/ worker'[v].at = 0
    BY <1>3, <1>4, OthersKeep
  <2> QED
    BY <1>1, <2>1, <2>2
<1>5. CASE UNCHANGED <<worker, shared>>
  BY <1>1, <1>5
<1> QED
  BY <1>2, <1>4, <1>5 DEF Next, Emit, RetryFailed, vars

\* What excuses an event excuses it for good.
LEMMA ExcusedStays ==
    ASSUME NeverBack, Kept, shared \subseteq shared', NEW i \in DOMAIN outbox, Excused(i)
    PROVE  Excused(i)'
BY DEF Excused, Kept, NeverBack

\* Where an event is, it is ignored.
LEMMA ProjectedIsIgnored ==
    ASSUME TypeOK, PublishedInv, NEW i \in DOMAIN outbox, Projected(i),
           NEW t \in DOMAIN Receivers
    PROVE  Ignored(outbox[i], projection[outbox[i].entity][t])
<1> DEFINE k == outbox[i].entity
           row == projection[k][t]
<1>1. k \in Entities /\ outbox[i].version \in Nat /\ row.version \in Nat
  BY RowTypes
<1>2. row.version >= outbox[i].version /\ outbox[i].version # 0
  BY DEF Projected, PublishedInv
<1>3. row # NoRow
  BY <1>1, <1>2 DEF NoRow
<1>4. PICK j \in DOMAIN outbox : ShownBy(j, k, t)
  BY <1>1, <1>3 DEF PublishedInv, Shown
<1>5. row.version = outbox[i].version => row.type = outbox[i].type
  BY <1>4 DEF ShownBy, PublishedInv, Distinct
<1> QED
  BY <1>1, <1>2, <1>5 DEF Ignored

\* What the rows say of their users after a step that tells none.
LEMMA ToldStays ==
    ASSUME TypeOK, TypeOK', NeverBack, Kept, shared \subseteq shared', NEW i \in DOMAIN outbox,
           Told(i), outbox'[i].told = outbox[i].told
    PROVE  Told(i)'
<1> SUFFICES ASSUME outbox'[i].told # 0, ~Excused(i)'
             PROVE  outbox'[i].told = 1 /\ Projected(i)'
  BY DEF Told
<1>1. ~Excused(i) /\ outbox[i].entity \notin overtaken'
  BY ExcusedStays DEF Excused, Kept
<1> QED
  BY <1>1, ProjectedStays DEF Told

\* A worker about to tell the users of its event has not told them.
LEMMA ToldNow ==
    ASSUME TypeOK, TypeOK', NeverBack, Kept, shared \subseteq shared',
           NEW w \in Workers, WorkerInv(w), AppliedInv(w),
           NEW i, i = worker[w].at, Telling(w), outbox'[i].told = outbox[i].told + 1
    PROVE  Told(i)'
<1>1. i \in DOMAIN outbox /\ (outbox[i].entity \in overtaken \/ Projected(i))
  BY FinishedIsProjected DEF Telling
<1> SUFFICES ASSUME ~Excused(i)'
             PROVE  outbox'[i].told = 1 /\ Projected(i)'
  BY DEF Told
<1>2. ~Excused(i) /\ outbox[i].entity \notin overtaken'
  BY <1>1, ExcusedStays DEF Excused, Kept
<1>3. outbox'[i].told = 1
  BY <1>2 DEF AppliedInv, Telling
<1> QED
  BY <1>1, <1>2, <1>3, ProjectedStays DEF Excused

LEMMA AppliedFree ==
    ASSUME NEW w \in Workers, worker'[w].applied = FALSE
    PROVE  AppliedInv(w)'
BY DEF AppliedInv

LEMMA AppliedProceed ==
    ASSUME TypeOK, NEW w \in Workers, Proceed(w)
    PROVE  AppliedInv(w)'
<1>1. worker'[w] = [Free EXCEPT !.batch = worker[w].batch]
  BY DEF Proceed, TypeOK
<1> QED
  BY <1>1, AppliedFree DEF Free

\* A step that goes on with the event of a worker, or leaves it alone.
LEMMA AppliedStays ==
    ASSUME TypeOK, NeverBack, Kept, shared \subseteq shared', NEW w \in Workers, AppliedInv(w),
           worker'[w].at = worker[w].at, worker'[w].applied = worker[w].applied,
           Active(w) => \/ outbox'[worker[w].at].told = outbox[worker[w].at].told
                        \/ worker[w].at \in shared
    PROVE  AppliedInv(w)'
<1> SUFFICES ASSUME worker[w].applied
             PROVE  Active(w)' /\ (Excused(worker[w].at)' \/ outbox'[worker[w].at].told = 0)
  BY DEF AppliedInv, Excused
<1>1. Active(w) /\ worker[w].at \in DOMAIN outbox
  BY DEF AppliedInv, Active, TypeOK
<1>2. CASE Excused(worker[w].at) \/ worker[w].at \in shared
  BY <1>1, <1>2, ExcusedStays DEF Active, Excused
<1>3. CASE outbox[worker[w].at].told = 0 /\ worker[w].at \notin shared
  BY <1>1, <1>3 DEF Active
<1> QED
  BY <1>1, <1>2, <1>3 DEF AppliedInv

\* A worker tells the users of its own event only: of another worker's, only if
\* they share it.
LEMMA AppliedOthers ==
    ASSUME TypeOK, NeverBack, Kept, shared \subseteq shared', ToldInv, NEW w \in Workers,
           Work(w) \/ NotifyRaises(w) \/ Crash(w),
           \A j \in DOMAIN outbox \ {worker[w].at} : outbox'[j].told = outbox[j].told,
           AppliedInv(w)'
    PROVE  \A v \in Workers : AppliedInv(v)'
<1>1. SUFFICES ASSUME NEW v \in Workers \ {w}
               PROVE  AppliedInv(v)'
  OBVIOUS
<1>2. worker'[v] = worker[v]
  BY OthersKeep
<1>3. Active(v) => \/ outbox'[worker[v].at].told = outbox[worker[v].at].told
                   \/ worker[v].at \in shared
  BY DEF ToldInv, SharedInv, Active, TypeOK
<1> QED
  BY <1>2, <1>3, AppliedStays DEF ToldInv

\* A step in which a worker may tell the users of its event (i).
LEMMA WorkerTold ==
    ASSUME TypeOK, TypeOK', NeverBack, Kept, SharedInv', shared \subseteq shared', ToldInv,
           NEW w \in Workers, Work(w) \/ NotifyRaises(w) \/ Crash(w), AppliedInv(w)',
           DOMAIN outbox' = DOMAIN outbox,
           NEW i, i = worker[w].at, i \in DOMAIN outbox => Told(i)',
           \A j \in DOMAIN outbox \ {i} : outbox'[j].told = outbox[j].told
    PROVE  ToldInv'
<1>1. \A j \in DOMAIN outbox \ {i} : Told(j)'
  BY ToldStays DEF ToldInv
<1>2. \A v \in Workers : AppliedInv(v)'
  BY AppliedOthers
<1>3. \A j \in DOMAIN outbox' : Told(j)'
  BY <1>1
<1> QED
  BY <1>2, <1>3 DEF ToldInv

LEMMA ToldStep ==
    TypeOK /\ ProjectionInv /\ PublishedInv /\ ToldInv /\ [Next]_vars => ToldInv'
<1> SUFFICES ASSUME TypeOK, ProjectionInv, PublishedInv, ToldInv, [Next]_vars
             PROVE  ToldInv'
  OBVIOUS
<1>a. TypeOK' /\ NeverBack /\ Kept /\ SharedInv' /\ shared \subseteq shared'
  BY TypeStep, ForwardStep, KeptStep, SharedStep DEF ToldInv
<1>b. \A w \in Workers : WorkerInv(w) /\ AppliedInv(w)
  BY DEF ProjectionInv, ToldInv
<1>c. \A i \in DOMAIN outbox : Told(i)
  BY DEF ToldInv
<1>1. ASSUME DOMAIN outbox' = DOMAIN outbox, worker' = worker,
             \A i \in DOMAIN outbox : outbox'[i].told = outbox[i].told
      PROVE  ToldInv'
  <2>1. \A i \in DOMAIN outbox' : Told(i)'
    BY <1>1, <1>a, <1>c, ToldStays
  <2>2. \A w \in Workers : Active(w) => worker[w].at \in DOMAIN outbox
    BY DEF Active, TypeOK
  <2>3. \A w \in Workers : AppliedInv(w)'
    BY <1>1, <1>a, <1>b, <2>2, AppliedStays
  <2> QED
    BY <1>a, <2>1, <2>3 DEF ToldInv
<1>2. ASSUME NEW w \in Workers, Work(w), AppliedInv(w)', DOMAIN outbox' = DOMAIN outbox,
             \A j \in DOMAIN outbox : outbox'[j].told = outbox[j].told
      PROVE  ToldInv'
  <2>1. \A j \in DOMAIN outbox' : Told(j)'
    BY <1>2, <1>a, <1>c, ToldStays
  <2>2. \A v \in Workers : AppliedInv(v)'
    BY <1>2, <1>a, AppliedOthers
  <2> QED
    BY <1>a, <2>1, <2>2 DEF ToldInv
<1>3. ASSUME NEW w \in Workers, Work(w), Fail(w), Active(w)
      PROVE  ToldInv'
  <2>1. /\ Saved(worker[w].at) /\ outbox'[worker[w].at].told = outbox[worker[w].at].told
        /\ worker[w].at \in DOMAIN outbox
    BY <1>3, FailSaves DEF Active, TypeOK
  <2>2. \A j \in DOMAIN outbox : outbox'[j].told = outbox[j].told
    BY <2>1 DEF Saved
  <2> QED
    BY <1>2, <1>3, <2>1, <2>2, AppliedProceed DEF Fail, Saved
<1>4. ASSUME NEW w \in Workers, Work(w), UNCHANGED outbox, AppliedInv(w)'
      PROVE  ToldInv'
  BY <1>2, <1>4
<1>5. CASE UNCHANGED vars
  BY <1>1, <1>5 DEF vars
<1>6. ASSUME NEW k \in Entities, Emit(k)
      PROVE  ToldInv'
  <2>1. PICK new : /\ DOMAIN outbox' = DOMAIN outbox \cup {new}
                   /\ \A i \in DOMAIN outbox : outbox'[i] = outbox[i]
                   /\ outbox'[new].told = 0
    BY <1>6, EmitAppends, EmitIsNewer
  <2>2. \A i \in DOMAIN outbox' : Told(i)'
    <3>1. Told(new)'
      BY <2>1 DEF Told
    <3>2. \A i \in DOMAIN outbox : Told(i)'
      BY <1>a, <1>c, <2>1, ToldStays
    <3> QED
      BY <2>1, <3>1, <3>2
  <2>3. \A w \in Workers : Active(w) => worker[w].at \in DOMAIN outbox
    BY DEF Active, TypeOK
  <2>4. \A w \in Workers : AppliedInv(w)'
    BY <1>6, <1>a, <1>b, <2>1, <2>3, AppliedStays DEF Emit
  <2> QED
    BY <1>a, <2>2, <2>4 DEF ToldInv
<1>7. ASSUME NEW w \in Workers, Fetch(w)
      PROVE  ToldInv'
  <2>1. PICK batch : worker' = [worker EXCEPT ![w].batch = batch]
    BY <1>7 DEF Fetch
  <2>2. worker'[w].at = worker[w].at /\ worker'[w].applied = worker[w].applied
    BY <2>1 DEF TypeOK, Worker
  <2>3. UNCHANGED outbox
    BY <1>7 DEF Fetch
  <2>4. AppliedInv(w)'
    BY <1>a, <1>b, <2>2, <2>3, AppliedStays
  <2> QED
    BY <1>4, <1>7, <2>3, <2>4 DEF Work
<1>8. ASSUME NEW w \in Workers, Begin(w)
      PROVE  ToldInv'
  <2>1. PICK i \in worker[w].batch :
          Take(w, i) /\ outbox' = [outbox EXCEPT ![i].status = "processing"]
    BY <1>8 DEF Begin
  <2>2. i \in DOMAIN outbox /\ Saved(i) /\ outbox'[i].told = outbox[i].told
    BY <2>1, BeginSaves
  <2>3. worker'[w].applied = FALSE
    <3>1. worker[w].applied = FALSE
      BY <1>b, <2>1 DEF Take, AppliedInv, TypeOK, Worker
    <3> QED
      BY <2>1, <3>1 DEF Take, TypeOK, Worker
  <2>4. \A j \in DOMAIN outbox : outbox'[j].told = outbox[j].told
    BY <2>2 DEF Saved
  <2> QED
    BY <1>2, <1>8, <2>2, <2>3, <2>4, AppliedFree DEF Saved, Work
<1>9. ASSUME NEW w \in Workers, Read(w)
      PROVE  ToldInv'
  <2>1. CASE Fail(w)
    BY <1>3, <1>9, <2>1 DEF Read, Visiting, Work
  <2>2. CASE /\ UNCHANGED outbox
             /\ \/ worker' = [worker EXCEPT ![w].next = @ + 1]
                \/ \E row : worker' = [worker EXCEPT ![w].read = row]
    <3>1. worker'[w].at = worker[w].at /\ worker'[w].applied = worker[w].applied
      BY <2>2 DEF TypeOK, Worker
    <3>2. AppliedInv(w)'
      BY <1>a, <1>b, <2>2, <3>1, AppliedStays
    <3> QED
      BY <1>4, <1>9, <2>2, <3>2 DEF Work
  <2> QED
    BY <1>9, <2>1, <2>2 DEF Read
<1>10. ASSUME NEW w \in Workers, Write(w)
       PROVE  ToldInv'
  <2>1. CASE Fail(w)
    BY <1>3, <1>10, <2>1 DEF Write, Visiting, Work
  <2>2. CASE /\ UNCHANGED outbox
             /\ overtaken' = overtaken \cup
                               (IF Stale(w) THEN {outbox[worker[w].at].entity} ELSE {})
             /\ worker' = [worker EXCEPT ![w].next = @ + 1, ![w].read = NotRead,
                                         ![w].applied = TRUE]
    <3>1. worker'[w].at = worker[w].at /\ Active(w) /\ worker[w].at \in DOMAIN outbox
      BY <1>10, <2>2 DEF Write, Visiting, Active, TypeOK, Worker
    <3>2. worker[w].next \in DOMAIN Receivers
      BY <1>10, RowTypes DEF Write, Visiting
    <3>3. CASE Stale(w)
      <4>1. outbox[worker[w].at].entity \in overtaken'
        BY <2>2, <3>3
      <4>2. AppliedInv(w)'
        BY <2>2, <3>1, <4>1 DEF AppliedInv, Excused, Active
      <4> QED
        BY <1>4, <1>10, <2>2, <4>2 DEF Work
    <3>4. CASE ~Stale(w)
      <4>1. ~Ignored(outbox[worker[w].at], projection[outbox[worker[w].at].entity][worker[w].next])
        BY <1>10, <1>b, <3>4 DEF Write, WorkerInv, ReadIsNewer, Stale
      <4>2. ~Projected(worker[w].at)
        BY <3>1, <3>2, <4>1, ProjectedIsIgnored
      <4>3. Excused(worker[w].at) \/ outbox[worker[w].at].told = 0
        BY <1>c, <3>1, <4>2 DEF Told
      <4>4. Excused(worker[w].at) => Excused(worker[w].at)'
        BY <1>a, <3>1, ExcusedStays
      <4>5. AppliedInv(w)'
        BY <2>2, <3>1, <4>3, <4>4 DEF AppliedInv, Active, Excused
      <4> QED
        BY <1>4, <1>10, <2>2, <4>5 DEF Work
    <3> QED
      BY <3>3, <3>4
  <2> QED
    BY <1>10, <2>1, <2>2 DEF Write
<1>12. ASSUME NEW w \in Workers, Finish(w) \/ NotifyRaises(w)
       PROVE  ToldInv'
  <2>1. PICK i \in DOMAIN outbox : i = worker[w].at /\ Saved(i)
    BY <1>12, FinishSaves, NotifyRaisesSaves DEF Finish, NotifyRaises, Active, TypeOK
  <2>2. \/ outbox'[i].told = outbox[i].told
        \/ Telling(w) /\ outbox'[i].told = outbox[i].told + 1
    <3>1. outbox[i] \in Event
      BY DEF TypeOK
    <3>2. outbox[i].told + 0 = outbox[i].told
      BY <3>1 DEF Event
    <3>3. CASE Finish(w)
      <4>1. outbox'[i].told = IF worker[w].applied THEN outbox[i].told + 1 ELSE outbox[i].told
        BY <2>1, <3>3, FinishSaves
      <4> QED
        BY <3>3, <4>1 DEF Finish, Telling
    <3>4. CASE NotifyRaises(w)
      <4>1. PICK reached \in {0, 1} : outbox'[i].told = outbox[i].told + reached
        BY <2>1, <3>4, NotifyRaisesSaves
      <4>2. Telling(w)
        BY <3>4 DEF NotifyRaises, Telling
      <4> QED
        BY <3>2, <4>1, <4>2
    <3> QED
      BY <1>12, <3>3, <3>4
  <2>3. Told(i)'
    BY <1>a, <1>b, <1>c, <2>1, <2>2, ToldStays, ToldNow
  <2>4. AppliedInv(w)'
    BY <1>12, AppliedProceed DEF Finish, NotifyRaises
  <2>5. \A j \in DOMAIN outbox \ {i} : outbox'[j].told = outbox[j].told
    BY <2>1 DEF Saved
  <2>6. Work(w) \/ NotifyRaises(w) \/ Crash(w)
    BY <1>12 DEF Work
  <2>7. DOMAIN outbox' = DOMAIN outbox
    BY <2>1 DEF Saved
  <2> QED
    BY <1>a, <2>1, <2>3, <2>4, <2>5, <2>6, <2>7, WorkerTold
<1>13. ASSUME NEW w \in Workers, Crash(w)
       PROVE  ToldInv'
  <2>1. AppliedInv(w)'
    <3>1. worker'[w] = Free
      BY <1>13 DEF Crash, TypeOK
    <3>2. worker'[w].applied = FALSE
      BY <3>1 DEF Free
    <3> QED
      BY <3>2, AppliedFree
  <2>2. DOMAIN outbox' = DOMAIN outbox
    BY <1>13, CrashSaves
  <2>3. PICK i : i = worker[w].at
    OBVIOUS
  <2>4. \A j \in DOMAIN outbox \ {i} : outbox'[j].told = outbox[j].told
    BY <1>13, <2>3, CrashSaves
  <2>5. ASSUME i \in DOMAIN outbox
        PROVE  Told(i)'
    <3>1. \/ outbox'[i].told = outbox[i].told
          \/ Telling(w) /\ outbox'[i].told = outbox[i].told + 1
      BY <1>13, <2>3, <2>5, CrashSaves
    <3> QED
      BY <1>a, <1>b, <1>c, <2>3, <2>5, <3>1, ToldStays, ToldNow
  <2> QED
    BY <1>13, <1>a, <2>1, <2>2, <2>3, <2>4, <2>5, WorkerTold
<1>14. CASE RetryFailed
  BY <1>1, <1>14, RetrySaves DEF RetryFailed
<1> QED
  BY <1>5, <1>6, <1>7, <1>8, <1>9, <1>10, <1>12, <1>13, <1>14 DEF Next, Work

\* However many workers share the outbox, an event tells its users once at most,
\* however often it is retried: after notifications that raise halfway, after
\* kills between telling them and saving the event, and in the stale batch of
\* another worker (process_outbox_event applies an event again only where it
\* changes a receiver).  Excepted are an event on which two workers were at work
\* at a time and the events of an entity that was overtaken.
THEOREM ToldOnceAlways == Spec => []ToldOnce
<1> DEFINE IInv == TypeOK /\ ProjectionInv /\ PublishedInv /\ ToldInv
<1>1. Init => IInv
  <2>1. Init => ToldInv
    BY DEF Init, ToldInv, SharedInv, AppliedInv, Active, Free
  <2> QED
    BY <2>1, TypeInit, ProjectionInit, PublishedInit
<1>2. IInv /\ [Next]_vars => IInv'
  BY TypeStep, ProjectionStep, PublishedStep, ToldStep
<1>3. IInv => ToldOnce
  <2> SUFFICES ASSUME IInv, NEW i \in DOMAIN outbox, ~Excused(i)
               PROVE  outbox[i].told <= 1
    BY DEF ToldOnce, Excused
  <2>1. outbox[i] \in Event
    BY DEF TypeOK
  <2> QED
    BY <2>1 DEF ToldInv, Told, Event
<1> QED
  BY <1>1, <1>2, <1>3, PTL DEF Spec

=============================================================================
