-------------------------- MODULE FleetMaintenance --------------------------
(***************************************************************************)
(* Machines, the repair visits assigned for them (server/apps/maintenance) *)
(* and the import jobs that report their state (server/apps/imports).      *)
(*                                                                         *)
(* A web request loads the assignment or machine it is about, then runs a  *)
(* service, one transaction that saves the rows it holds.  An import is a  *)
(* Celery task: its job is saved, its rows applied, and its outcome saved  *)
(* and told in transactions of their own, and the worker may be killed     *)
(* between them.  The transaction that applies a file is one step: it      *)
(* locks the machines it reports, and a request that saves one of them     *)
(* meanwhile waits for it, or is killed by the database, as the import is. *)
(***************************************************************************)
EXTENDS Lifecycles, Integers, Sequences, FiniteSets

CONSTANTS
    Machines,
    Known,          \* those in the database at the start
    Staff,          \* repair staff
    Serves,         \* machines of the stores each of them is assigned to, once hired
    Jobs,           \* imports that may be queued
    Files,          \* what their files may hold: rows, Invalid or Broken
    Invalid,        \* a file that fails its validation
    Broken,         \* a file that breaks the CSV reader
    Web,            \* web workers
    Celery,         \* Celery workers
    Interval,       \* max_days_between_service
    Window,         \* schedule_service_window_days
    Shutdown,       \* warning_shutdown_days
    ErrorMax,       \* error_max_days, 0 for none
    MaxDay,         \* bound: days that pass
    MaxRequests,    \* bound: web requests
    MaxCrashes      \* bound: workers killed, tasks lost

ASSUME StaffAssumption == Serves \in [Staff -> SUBSET Machines] /\ Known \subseteq Machines
ASSUME PolicyAssumption ==
    Interval \in Nat /\ Window \in Nat /\ Shutdown \in Nat /\ ErrorMax \in Nat
ASSUME BoundAssumption == MaxDay \in Nat \ {0} /\ MaxRequests \in Nat /\ MaxCrashes \in Nat

VARIABLES
    machine,        \* Machine rows
    visits,         \* RepairAssignment rows, by created_at
    job,            \* ImportJob rows, with their queued task
    today,
    hired,          \* the staff with an active account
    req,            \* what each worker is doing
    escaped,        \* history: jobs whose import ended in an exception nobody caught
    overlapped,     \* whether one began while another was at work
    requests,       \* number of web requests
    crashes

vars == <<machine, visits, job, today, hired, req, escaped, overlapped, requests,
          crashes>>

Workers == Web \cup Celery

-----------------------------------------------------------------------------
(* Rows *)

MachineStatus == {"absent", "normal", "repair-start", "repair-end", "schedule-service",
                  "warning", "error", "out-of-order"}

\* A row of a file: the status reported of a machine, and its day.
ReportedRow == [machine: Machines, status: MachineStatus \ {"absent"}, date: Nat]
ASSUME FileAssumption ==
    Files \subseteq Seq(ReportedRow) /\ {Invalid, Broken} \cap Files = {} /\ Invalid # Broken

\* ACTIONABLE_MACHINE_STATUSES
Actionable == {"schedule-service", "warning", "error", "out-of-order"}

\* current_status, current_status_date and next_service_due_date; 0: no date.
\* Absent is no row.
MachineRow == [status: MachineStatus, since: Int, due: Int]
Absent == [status |-> "absent", since |-> 0, due |-> 0]

\* RepairAssignment.actionable_statuses
Open == {"scheduled", "acknowledged", "in_progress", "blocked"}

Visit == [machine: Machines, to: Staff, status: RepairStatus \ {"none"}]

\* applied: the rows that name the job as their source_import_job, if any;
\* told: notifications of its outcome.
Job == [status: {"none", "pending", "processing", "succeeded", "failed"},
        file: Files \cup {Invalid, Broken}, queued: BOOLEAN, applied: BOOLEAN, told: Nat]

\* The status an action of RepairAssignmentActionView asks for; "update" keeps
\* the one there is.
StatusAfter == [acknowledge |-> "acknowledged", start |-> "in_progress", block |-> "blocked",
                complete |-> "completed", close |-> "closed"]

\* A visit and a claim hold the rows they loaded; a check holds every machine,
\* and the day it began; missing: the machines that were not there when an import
\* began.
Idle == [op |-> "idle"]
Request ==
    [op: {"idle"}]
      \cup [op: {"visit"}, action: DOMAIN StatusAfter \cup {"update"}, id: Nat, row: Visit,
            held: MachineRow]
      \cup [op: {"claim", "create"}, machine: Machines, held: MachineRow, who: Staff \cup {"auto"}]
      \cup [op: {"check"}, rows: [Machines -> MachineRow], todo: SUBSET Machines, day: Nat]
      \cup [op: {"apply", "raise", "succeed", "fail", "tell"}, job: Jobs, missing: SUBSET Machines]

TypeOK ==
    /\ machine \in [Machines -> MachineRow]
    /\ visits \in Seq(Visit)
    /\ job \in [Jobs -> Job]
    /\ today \in 1 .. MaxDay
    /\ hired \subseteq Staff
    /\ req \in [Workers -> Request]
    /\ escaped \subseteq Jobs
    /\ overlapped \in BOOLEAN
    /\ requests \in Nat /\ crashes \in Nat

NewMachine == [status |-> "normal", since |-> 0, due |-> 0]

Init ==
    /\ machine = [m \in Machines |-> IF m \in Known THEN NewMachine ELSE Absent]
    /\ visits = << >>
    /\ job = [j \in Jobs |-> [status |-> "none", file |-> Invalid, queued |-> FALSE,
                              applied |-> FALSE, told |-> 0]]
    /\ today = 1
    /\ hired = {}
    /\ req = [r \in Workers |-> Idle]
    /\ escaped = {}
    /\ overlapped = FALSE
    /\ requests = 0
    /\ crashes = 0

-----------------------------------------------------------------------------
(* The services: what they make of the rows of a machine and the visits.    *)
(* "pair" is [row, visits], and a service yields the set of pairs it may    *)
(* leave behind.                                                            *)

OpenVisits(list, m) == {i \in DOMAIN list : list[i].machine = m /\ list[i].status \in Open}

Load(list, w) == Cardinality({i \in DOMAIN list : list[i].to = w /\ list[i].status \in Open})

\* select_repair_assignee: those with the fewest open visits; names, which
\* break the tie, are left out.
Assignees(list, m) ==
    LET staff == {w \in hired : m \in Serves[w]}
    IN  {w \in staff : \A v \in staff : Load(list, w) <= Load(list, v)}

\* create_repair_assignment, for the one asked for or for one selected; with no
\* one to select nothing is created.
Assigned(list, m, who) ==
    LET chosen == IF who # "auto" THEN {who} ELSE Assignees(list, m)
    IN  IF chosen = {} THEN {list}
        ELSE {Append(list, [machine |-> m, to |-> w, status |-> "scheduled"]) : w \in chosen}

\* Mutant: a blocked visit does not count as open.
Ensured_Blocked(list, m, status) ==
    IF status \notin Actionable \/ \E i \in OpenVisits(list, m) : list[i].status # "blocked"
    THEN {list} ELSE Assigned(list, m, "auto")

\* ensure_repair_assignment inside a transaction that has saved the machine: an
\* open visit is brought up to date (its score and dates are left out), or one
\* is created.
Ensured(list, m, status) ==
    IF status \notin Actionable \/ OpenVisits(list, m) # {} THEN {list}
    ELSE Assigned(list, m, "auto")

\* The row append_machine_status_event saves.
Marked(row, status, date) ==
    [status |-> status, since |-> date,
     due |-> IF status \in {"repair-end", "normal"} THEN date + Interval ELSE row.due]

\* Mutant: whether a visit is called for is asked of the row before the report.
Reported_Before(pair, m, status, date) ==
    {[row |-> Marked(pair.row, status, date), visits |-> list] :
        list \in Ensured(pair.visits, m, pair.row.status)}

\* append_machine_status_event
Reported(pair, m, status, date) ==
    {[row |-> Marked(pair.row, status, date), visits |-> list] :
        list \in Ensured(pair.visits, m, status)}

\* ensure_repair_assignment alone.
Kept(pair, m) == {[pair EXCEPT !.visits = list] : list \in Ensured(pair.visits, m, pair.row.status)}

\* evaluate_service_window
ServiceWindow(pair, m, day) ==
    LET row == pair.row
    IN  IF row.due = 0 \/ row.status \in {"warning", "error", "out-of-order", "repair-start"}
           \/ day < row.due - Window
        THEN {pair}
        ELSE IF row.status = "schedule-service" THEN Kept(pair, m)
             ELSE Reported(pair, m, "schedule-service", day)

\* Mutant: on the last day allowed the warning still stands.
WarningEscalation_DayLate(pair, m, day) ==
    IF pair.row.status # "warning" \/ pair.row.since = 0 THEN {pair}
    ELSE IF day - pair.row.since <= Shutdown THEN Kept(pair, m)
    ELSE Reported(pair, m, "out-of-order", day)

\* evaluate_warning_escalation
WarningEscalation(pair, m, day) ==
    IF pair.row.status # "warning" \/ pair.row.since = 0 THEN {pair}
    ELSE IF day - pair.row.since < Shutdown THEN Kept(pair, m)
    ELSE Reported(pair, m, "out-of-order", day)

\* evaluate_error_escalation
ErrorEscalation(pair, m, day) ==
    IF pair.row.status # "error" \/ pair.row.since = 0 THEN {pair}
    ELSE IF ErrorMax = 0 \/ day - pair.row.since < ErrorMax THEN Kept(pair, m)
    ELSE Reported(pair, m, "out-of-order", day)

-----------------------------------------------------------------------------
(* Workers *)

Serving(r, op) == req[r].op = op
Done(r) == req' = [req EXCEPT ![r] = Idle]

Begin(r, state) ==
    /\ Serving(r, "idle")
    /\ req' = [req EXCEPT ![r] = state]
    /\ overlapped' = (overlapped \/ \E o \in Workers \ {r} : req[o] # Idle)

\* One transaction leaves a machine and the visits as "pair" has them.
Saved(m, pair) ==
    /\ machine' = [machine EXCEPT ![m] = pair.row]
    /\ visits' = pair.visits

-----------------------------------------------------------------------------
(* Web requests *)

Asked ==
    /\ requests < MaxRequests
    /\ requests' = requests + 1

\* RepairAssignmentActionView.post, up to the service.  What it refuses, it
\* refuses on the row it loads here.
LoadVisit(r, id, action) ==
    LET row == visits[id]
    IN  /\ action # "update" => StatusAfter[action] \in RepairAllowed[row.status]
        /\ Begin(r, [op |-> "visit", action |-> action, id |-> id, row |-> row,
                     held |-> machine[row.machine]])
        /\ Asked
        /\ UNCHANGED <<machine, visits, job, today, hired, escaped, crashes>>

\* The reports start_repair_assignment and complete_repair_assignment append to
\* the machine they hold.
RepairReport(action, row) ==
    CASE action = "start" -> Marked(row, "repair-start", today)
      [] action = "complete" -> Marked(Marked(row, "repair-end", today), "normal", today)

\* acknowledge_, start_, block_, complete_, close_repair_assignment and
\* add_repair_assignment_note: assignment.save() writes the whole row.
CommitVisit(r) ==
    LET q == req[r]
        m == q.row.machine
    IN  /\ Serving(r, "visit")
        /\ visits' = [visits EXCEPT ![q.id] =
                        IF q.action = "update" THEN q.row
                        ELSE [q.row EXCEPT !.status = StatusAfter[q.action]]]
        /\ machine' = IF q.action \in {"start", "complete"}
                      THEN [machine EXCEPT ![m] = RepairReport(q.action, q.held)]
                      ELSE machine
        /\ Done(r)
        /\ UNCHANGED <<job, today, hired, overlapped, escaped, requests, crashes>>

\* MaintenanceMachineAssignView.post: claimed by one of the store's staff, or
\* assigned by a manager.
LoadClaim(r, m, who) ==
    /\ machine[m] # Absent
    /\ who # "auto" => who \in hired /\ m \in Serves[who]
    /\ Begin(r, [op |-> "claim", machine |-> m, held |-> machine[m], who |-> who])
    /\ Asked
    /\ UNCHANGED <<machine, visits, job, today, hired, escaped, crashes>>

\* ensure_repair_assignment, up to get_active_repair_assignment.
ClaimFind(r) ==
    LET q == req[r]
    IN  /\ Serving(r, "claim")
        /\ IF q.held.status \in Actionable /\ OpenVisits(visits, q.machine) = {}
           THEN req' = [req EXCEPT ![r].op = "create"]
           ELSE Done(r)
        /\ UNCHANGED <<machine, visits, job, today, hired, overlapped, escaped, requests, crashes>>

ClaimCreate(r) ==
    LET q == req[r]
    IN  /\ Serving(r, "create")
        /\ visits' \in Assigned(visits, q.machine, q.who)
        /\ Done(r)
        /\ UNCHANGED <<machine, job, today, hired, overlapped, escaped, requests, crashes>>

-----------------------------------------------------------------------------
(* run_maintenance_policy_checks, as an operator would run it: no schedule  *)
(* and no view of the repository calls it.                                  *)

LoadChecks(r) ==
    /\ Begin(r, [op |-> "check", rows |-> machine, day |-> today,
                 todo |-> {m \in Machines : machine[m] # Absent}])
    /\ Asked
    /\ UNCHANGED <<machine, visits, job, today, hired, escaped, crashes>>

\* The three evaluations of a machine, on the row loaded at the start: at most
\* one of them saves it.
Evaluated(pair, m, day) ==
    UNION {UNION {ErrorEscalation(q, m, day) : q \in WarningEscalation(p, m, day)} :
              p \in ServiceWindow(pair, m, day)}

CheckNext(r) ==
    LET q == req[r]
    IN  /\ Serving(r, "check")
        /\ \E m \in q.todo :
             /\ \E pair \in Evaluated([row |-> q.rows[m], visits |-> visits], m, q.day) :
                  /\ visits' = pair.visits
                  /\ machine' = IF pair.row = q.rows[m] THEN machine
                                ELSE [machine EXCEPT ![m] = pair.row]
             /\ req' = [req EXCEPT ![r].todo = @ \ {m}]
        /\ UNCHANGED <<job, today, hired, overlapped, escaped, requests, crashes>>

EndChecks(r) ==
    /\ Serving(r, "check")
    /\ req[r].todo = {}
    /\ Done(r)
    /\ UNCHANGED <<machine, visits, job, today, hired, overlapped, escaped, requests, crashes>>

-----------------------------------------------------------------------------
(* Imports *)

\* queue_import_job: the row is committed, then the task sent to the broker,
\* which may fail.
Queue(j, file) ==
    /\ job[j].status = "none"
    /\ \/ job' = [job EXCEPT ![j].status = "pending", ![j].file = file, ![j].queued = TRUE]
          /\ UNCHANGED crashes
       \/ crashes < MaxCrashes
          /\ job' = [job EXCEPT ![j].status = "pending", ![j].file = file]
          /\ crashes' = crashes + 1
    /\ UNCHANGED <<machine, visits, today, hired, req, overlapped, escaped, requests>>

\* What the parsing of a file leads to.
AfterParse(j) ==
    CASE job[j].file = Invalid -> [op |-> "fail", job |-> j, missing |-> {}]
      [] job[j].file = Broken -> [op |-> "raise", job |-> j, missing |-> {}]
      [] OTHER -> [op |-> "apply", job |-> j, missing |-> {m \in Machines : machine[m] = Absent}]

\* Mutant: the outcome is saved before the rows.
BeginImport_Early(r, j) ==
    /\ job[j].queued
    /\ job' = [job EXCEPT ![j].status = "processing", ![j].queued = FALSE]
    /\ Begin(r, [AfterParse(j) EXCEPT !.op = IF @ = "apply" THEN "succeed" ELSE @])
    /\ UNCHANGED <<machine, visits, today, hired, escaped, requests, crashes>>

\* process_import_job: _mark_job_processing, then the parsing of the file.
BeginImport(r, j) ==
    /\ job[j].queued
    /\ job' = [job EXCEPT ![j].status = "processing", ![j].queued = FALSE]
    /\ Begin(r, AfterParse(j))
    /\ UNCHANGED <<machine, visits, today, hired, escaped, requests, crashes>>

\* One row of the file: the machine is created if need be, its report appended
\* and, as of the day reported, its warning evaluated.
ReportRow(state, report) ==
    LET m == report.machine
        row == IF state.machine[m] = Absent THEN NewMachine ELSE state.machine[m]
    IN  {[machine |-> [state.machine EXCEPT ![m] = pair.row], visits |-> pair.visits] :
            pair \in UNION {WarningEscalation(p, m, report.date) :
                        p \in Reported([row |-> row, visits |-> state.visits], m,
                                       report.status, report.date)}}

\* What the rows of a file, one after the other, may leave behind.
FileApplied(file) ==
    LET after[n \in 0 .. Len(file)] ==
          IF n = 0 THEN {[machine |-> machine, visits |-> visits]}
          ELSE UNION {ReportRow(state, file[n]) : state \in after[n - 1]}
    IN  after[Len(file)]

\* _process_repair_status_import, its transaction.
Apply(r) ==
    LET j == req[r].job
    IN  /\ Serving(r, "apply")
        /\ \E state \in FileApplied(job[j].file) :
             machine' = state.machine /\ visits' = state.visits
        /\ job' = [job EXCEPT ![j].applied = TRUE]
        /\ req' = [req EXCEPT ![r] = [op |-> "succeed", job |-> j, missing |-> {}]]
        /\ UNCHANGED <<today, hired, overlapped, escaped, requests, crashes>>

\* Only a CSVImportError is caught.  The reader's own error is not, nor that of the
\* database where another import created the machine after this one had looked for
\* it: the job stays in processing, and the uploader is not told.
Raise(r) ==
    /\ \/ Serving(r, "raise")
       \/ /\ Serving(r, "apply")
          /\ LET file == job[req[r].job].file
             IN  \E n \in DOMAIN file : /\ file[n].machine \in req[r].missing
                                        /\ machine[file[n].machine] # Absent
    /\ escaped' = escaped \cup {req[r].job}
    /\ Done(r)
    /\ UNCHANGED <<machine, visits, job, today, hired, overlapped, crashes, requests>>

\* Mutant: a failure is raised without a word to the uploader.
Finalize_Silent(r, op, status) ==
    /\ Serving(r, op)
    /\ job' = [job EXCEPT ![req[r].job].status = status]
    /\ req' = [req EXCEPT ![r] = IF op = "fail" THEN Idle ELSE [@ EXCEPT !.op = "tell"]]
    /\ UNCHANGED <<machine, visits, today, hired, overlapped, escaped, requests, crashes>>

\* _finalize_job_success and _finalize_job_failure, up to the notification.
Finalize(r, op, status) ==
    /\ Serving(r, op)
    /\ job' = [job EXCEPT ![req[r].job].status = status]
    /\ req' = [req EXCEPT ![r].op = "tell"]
    /\ UNCHANGED <<machine, visits, today, hired, overlapped, escaped, requests, crashes>>

\* notify_user
Tell(r) ==
    /\ Serving(r, "tell")
    /\ job' = [job EXCEPT ![req[r].job].told = @ + 1]
    /\ Done(r)
    /\ UNCHANGED <<machine, visits, today, hired, overlapped, escaped, requests, crashes>>

-----------------------------------------------------------------------------
\* A worker is killed, or the database ends its transaction in a deadlock: what
\* it had not committed is lost, and Celery does not run the task again.
Crash(r) ==
    /\ req[r] # Idle
    /\ crashes < MaxCrashes
    /\ crashes' = crashes + 1
    /\ Done(r)
    /\ UNCHANGED <<machine, visits, job, today, hired, overlapped, escaped, requests>>

Tomorrow ==
    /\ today < MaxDay
    /\ today' = today + 1
    /\ UNCHANGED <<machine, visits, job, hired, req, overlapped, escaped, requests, crashes>>

\* An account of repair staff is opened and assigned to its stores.
Hire(w) ==
    /\ w \notin hired
    /\ hired' = hired \cup {w}
    /\ UNCHANGED <<machine, visits, job, today, req, overlapped, escaped, requests, crashes>>

\* The steps a worker takes once it has begun.
Work(r) ==
    \/ CommitVisit(r)
    \/ ClaimFind(r) \/ ClaimCreate(r)
    \/ CheckNext(r) \/ EndChecks(r)
    \/ Apply(r) \/ Raise(r)
    \/ Finalize(r, "succeed", "succeeded") \/ Finalize(r, "fail", "failed")
    \/ Tell(r)

Next ==
    \/ \E r \in Web :
         \/ \E id \in DOMAIN visits, action \in DOMAIN StatusAfter \cup {"update"} :
              LoadVisit(r, id, action)
         \/ \E m \in Machines, who \in Staff \cup {"auto"} : LoadClaim(r, m, who)
         \/ LoadChecks(r)
    \/ \E r \in Celery, j \in Jobs : BeginImport(r, j)
    \/ \E r \in Workers : Work(r) \/ Crash(r)
    \/ \E j \in Jobs, file \in Files \cup {Invalid, Broken} : Queue(j, file)
    \/ \E w \in Staff : Hire(w)
    \/ Tomorrow

\* Workers finish what they begin, and Celery takes every task it was sent.
Fairness ==
    /\ \A r \in Workers : WF_vars(Work(r))
    /\ \A j \in Jobs : SF_vars(\E r \in Celery : BeginImport(r, j))

Spec == Init /\ [][Next]_vars /\ Fairness

-----------------------------------------------------------------------------
(* Properties *)

Served(m) == \E w \in hired : m \in Serves[w]

Uncrewed == {m \in Machines : machine[m].status \in Actionable /\ OpenVisits(visits, m) = {}}

\* No step leaves a machine that calls for service without an open visit while
\* someone could be sent, however web requests, checks and imports overlap: no
\* report, escalation, claim or end of a visit does, nor a save of a machine as it
\* was.  One save may: that of a visit which another request has changed meanwhile.
FaultIsCrewed ==
    [][\A m \in Uncrewed' \ Uncrewed :
         \/ ~Served(m)
         \/ \E r \in Web : CommitVisit(r) /\ req[r].row # visits[req[r].id]]_vars

\* Requests that take turns never send two repairers to one machine.  (Two that
\* overlap may: ensure_repair_assignment looks and creates without a lock.)
OneOpenVisit ==
    ~overlapped => \A m \in Machines : Cardinality(OpenVisits(visits, m)) <= 1

\* A check that ran alone leaves no machine past what its policy allows: no
\* warning older than warning_shutdown_days, no error older than
\* error_max_days, no machine in service inside its service window.
CheckedIsCurrent ==
    [][\A r \in Web : EndChecks(r) /\ ~overlapped =>
         \A m \in Machines :
           LET row == machine[m]
               age == req[r].day - row.since
           IN  /\ row.status = "warning" => row.since = 0 \/ age < Shutdown
               /\ row.status = "error" => ErrorMax = 0 \/ row.since = 0 \/ age < ErrorMax
               /\ row.status \in {"normal", "repair-end"} =>
                    row.due = 0 \/ req[r].day < row.due - Window]_vars

\* What the uploader is shown is what was done: the rows of a job that
\* succeeded were applied, those of one that failed or waits were not, and the
\* outcome is told once, after it was saved.
JobTruthful ==
    \A j \in Jobs :
      /\ job[j].status = "succeeded" => job[j].applied
      /\ job[j].status \in {"none", "pending", "failed"} => ~job[j].applied
      /\ job[j].told <= (IF job[j].status \in {"succeeded", "failed"} THEN 1 ELSE 0)

\* A job that is queued ends and is told, unless an exception escaped, a worker was
\* killed or a task lost: nothing looks for the jobs they leave in pending or
\* processing.
JobEnds ==
    \A j \in Jobs : job[j].status = "pending" ~> (job[j].told = 1 \/ j \in escaped \/ crashes > 0)

=============================================================================
