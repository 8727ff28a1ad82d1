------------------------------ MODULE Notices -------------------------------
(***************************************************************************)
(* Notifications of a store's team (notifications/services.py, tasks.py    *)
(* and views.py).  An alert of the outbox becomes a row for each user of   *)
(* the store with one of its roles, in the transaction of the event; when  *)
(* it has committed, a task for each row is queued, which marks the row    *)
(* sent while its user may be reading it.                                  *)
(***************************************************************************)
EXTENDS Integers, Sequences, FiniteSets, SequencesExt

CONSTANTS
    Shops,         \* stores in the order of their names
    Home,          \* the store whose alerts are sent
    Users,
    MaxRetries,    \* of dispatch_notification_async: 3
    MaxAlerts,     \* bound: alerts
    MaxMarks,      \* bound: clicks on a notification
    MaxFaults      \* bound: errors of the database and of the broker, and kills

ASSUME NoticeAssumption ==
    /\ Shops \subseteq Nat \ {0} /\ Home \in Shops
    /\ MaxRetries \in Nat /\ MaxAlerts \in Nat /\ MaxMarks \in Nat /\ MaxFaults \in Nat

VARIABLES
    staff,       \* User rows, each with its UserStoreAssignment rows
    notice,      \* Notification rows in the order of creation
    committed,   \* rows whose task the committed transaction has yet to queue
    tasks,       \* tasks queued or waiting for their retry
    job,         \* the task the Celery worker runs
    marking,     \* the click of each user that is being served
    lost,        \* history: rows whose task is gone
    alerts, marks, faults

deliveryVars == <<notice, committed, tasks, job, marking, lost, alerts, marks, faults>>

-----------------------------------------------------------------------------
Roles == {"account_user", "manager", "admin", "repair_staff"}
Scopes == {"primary", "manager_scope", "admin_scope", "repair_scope"}
Account == [role: Roles, active: BOOLEAN, prefers: Shops \cup {0}, scopes: SUBSET (Shops \X Scopes)]

Sleeping == [n |-> 0]
Unclicked == [n |-> 0]

NoticeTypeOK ==
    /\ staff \in [Users -> Account]
    /\ notice \in Seq([user: Users, alert: 1 .. MaxAlerts, sent: BOOLEAN, read: BOOLEAN])
    /\ ToSet(committed) \cup lost \subseteq DOMAIN notice
    /\ tasks \subseteq [n: DOMAIN notice, tries: 0 .. MaxRetries]
    /\ job.n \in DOMAIN notice \cup {0}
    /\ \A u \in Users : marking[u].n \in DOMAIN notice \cup {0}

NoticeInit ==
    /\ notice = <<>>
    /\ committed = <<>>
    /\ tasks = {}
    /\ job = Sleeping
    /\ marking = [u \in Users |-> Unclicked]
    /\ lost = {}
    /\ alerts = 0
    /\ marks = 0
    /\ faults = 0

-----------------------------------------------------------------------------
(* users_for_store_roles and notify_users *)

\* A row of the join for every assignment, and one for who prefers the store.
JoinRows(roles) ==
    {row \in Users \X (Scopes \cup {"preferred"}) :
        LET user == staff[row[1]]
        IN  /\ <<Home, row[2]>> \in user.scopes \/ (row[2] = "preferred" /\ user.prefers = Home)
            /\ user.role \in roles
            /\ user.active}

\* distinct()
Recipients(roles) == SetToSeq({r[1] : r \in JoinRows(roles)})

\* A machine calls for the repair staff too, a visit that is blocked does not.
AlertRoles == {{"repair_staff", "manager", "admin"}, {"manager", "admin"}}

\* notify_store_roles, in the transaction of dispatch_outbox_event.
Alert(roles) ==
    LET told == Recipients(roles)
    IN  /\ alerts < MaxAlerts
        /\ committed = <<>>
        /\ alerts' = alerts + 1
        /\ notice' = notice \o [i \in DOMAIN told |->
             [user |-> told[i], alert |-> alerts', sent |-> FALSE, read |-> FALSE]]
        /\ committed' = [i \in DOMAIN told |-> Len(notice) + i]
        /\ UNCHANGED <<staff, tasks, job, marking, lost, marks, faults>>

\* on_commit
Queue ==
    /\ committed # <<>>
    /\ tasks' = tasks \cup {[n |-> Head(committed), tries |-> 0]}
    /\ committed' = Tail(committed)
    /\ UNCHANGED <<staff, notice, job, marking, lost, alerts, marks, faults>>

\* The process dies, or the broker is down: the tasks that are left are not queued.
QueueFails ==
    /\ committed # <<>>
    /\ faults < MaxFaults
    /\ faults' = faults + 1
    /\ lost' = lost \cup ToSet(committed)
    /\ committed' = <<>>
    /\ UNCHANGED <<staff, notice, tasks, job, marking, alerts, marks>>

-----------------------------------------------------------------------------
(* dispatch_notification_async *)

\* The worker reads the row...
Take(t) ==
    /\ job = Sleeping
    /\ t \in tasks
    /\ tasks' = tasks \ {t}
    /\ job' = [n |-> t.n, tries |-> t.tries, row |-> notice[t.n]]
    /\ UNCHANGED <<staff, notice, committed, marking, lost, alerts, marks, faults>>

\* Mutant: the whole row is saved.
Sent_Whole(current, row) == [row EXCEPT !.sent = TRUE]

\* ...and saves its status, and an entry of the audit log.
Sent(current, row) == [current EXCEPT !.sent = TRUE]

SaveSent ==
    /\ job # Sleeping
    /\ notice' = [notice EXCEPT ![job.n] = Sent(@, job.row)]
    /\ job' = Sleeping
    /\ UNCHANGED <<staff, committed, tasks, marking, lost, alerts, marks, faults>>

\* Mutant: the task has no retries.
Retried_Never(j) == {}

Retried(j) == IF j.tries < MaxRetries THEN {[n |-> j.n, tries |-> j.tries + 1]} ELSE {}

\* The database or the audit log raises, before the row is saved or after it:
\* the task is queued again, three times at most.
DispatchFails(saved) ==
    /\ job # Sleeping
    /\ faults < MaxFaults
    /\ faults' = faults + 1
    /\ notice' = IF saved THEN [notice EXCEPT ![job.n] = Sent(@, job.row)] ELSE notice
    /\ tasks' = tasks \cup Retried(job)
    /\ lost' = IF job.tries = MaxRetries THEN lost \cup {job.n} ELSE lost
    /\ job' = Sleeping
    /\ UNCHANGED <<staff, committed, marking, alerts, marks>>

\* A worker that is killed takes its task with it.
KillWorker ==
    /\ job # Sleeping
    /\ faults < MaxFaults
    /\ faults' = faults + 1
    /\ lost' = lost \cup {job.n}
    /\ job' = Sleeping
    /\ UNCHANGED <<staff, notice, committed, tasks, marking, alerts, marks>>

-----------------------------------------------------------------------------
(* NotificationMarkReadView and NotificationMarkAllReadView *)

Click(u, n) ==
    /\ marking[u] = Unclicked
    /\ marks < MaxMarks
    /\ marks' = marks + 1
    /\ n \in DOMAIN notice /\ notice[n].user = u
    /\ marking' = [marking EXCEPT ![u] = [n |-> n, row |-> notice[n]]]
    /\ UNCHANGED <<staff, notice, committed, tasks, job, lost, alerts, faults>>

Read(current, row) == [current EXCEPT !.read = TRUE]

SaveRead(u) ==
    /\ marking[u] # Unclicked
    /\ notice' = [notice EXCEPT ![marking[u].n] = Read(@, marking[u].row)]
    /\ marking' = [marking EXCEPT ![u] = Unclicked]
    /\ UNCHANGED <<staff, committed, tasks, job, lost, alerts, marks, faults>>

\* One statement.
ReadAll(u) ==
    /\ marking[u] = Unclicked
    /\ marks < MaxMarks
    /\ marks' = marks + 1
    /\ notice' = [n \in DOMAIN notice |-> IF notice[n].user = u THEN [notice[n] EXCEPT !.read = TRUE]
                                          ELSE notice[n]]
    /\ UNCHANGED <<staff, committed, tasks, job, marking, lost, alerts, faults>>

-----------------------------------------------------------------------------
Deliver == Queue \/ SaveSent \/ \E t \in tasks : Take(t)

Mark(u) == SaveRead(u) \/ ReadAll(u) \/ \E n \in DOMAIN notice : Click(u, n)

Fault == QueueFails \/ KillWorker \/ \E saved \in BOOLEAN : DispatchFails(saved)

-----------------------------------------------------------------------------
(* Properties *)

\* What a user has read stays read and what was sent stays sent, though the task
\* and the click save rows they read before the other one saved its own.
SentAndReadStay ==
    [][\A n \in DOMAIN notice : /\ notice[n].read => notice'[n].read
                                /\ notice[n].sent => notice'[n].sent]_notice

\* Every row of an alert is sent, through errors of the database and of the audit
\* log, unless its task was lost with the process, the broker or the worker that
\* had it, or failed at each of its attempts: again and again none is left to send,
\* and a row keeps its mark.
NoticeIsSent == []<>(\A n \in DOMAIN notice : notice[n].sent \/ n \in lost)
=============================================================================
