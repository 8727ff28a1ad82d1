---------------------- MODULE FleetMaintenance_Proofs -----------------------
(***************************************************************************)
(* What an import job shows its uploader, which machines have a repairer,  *)
(* and what a check of the fleet leaves, for any machines, staff, files,   *)
(* workers and kills.                                                      *)
(*                                                                         *)
(* Three parts: the jobs (JobInv); the services, which save no row that    *)
(* calls for a visit without there being one (Careful), and the rows of a  *)
(* file one after the other, by induction on the least row that fails      *)
(* (FileAppliedIs); and the requests, which hold rows as they are while    *)
(* they take turns (TurnInv).                                              *)
(***************************************************************************)
EXTENDS FleetMaintenance, Sums, TLAPS

-----------------------------------------------------------------------------
\* The steps of process_import_job that a worker may have before it.
JobSteps == {"apply", "raise", "succeed", "fail", "tell"}

OnIt == [op: JobSteps, job: Jobs, missing: SUBSET Machines]

OnJob(r, j) == req[r].op \in JobSteps /\ req[r].job = j

JobType == job \in [Jobs -> Job]

\* Whatever a worker holds says what it is for; a step of a job, which job.
ReqShape ==
    /\ DOMAIN req = Workers /\ req = [r \in Workers |-> req[r]]
    /\ \A r \in Workers :
         /\ "op" \in DOMAIN req[r]
         /\ req[r].op \in JobSteps => req[r] \in OnIt

\* A job is with one worker, from the time its task is taken, and its row tells
\* how far that worker has come.
InHand(j) ==
    \A r \in Workers : OnJob(r, j) =>
        /\ \A q \in Workers : OnJob(q, j) => q = r
        /\ ~job[j].queued /\ job[j].told = 0
        /\ req[r].op \in {"apply", "raise", "succeed", "fail"} => job[j].status = "processing"
        /\ req[r].op \in {"apply", "fail"} => ~job[j].applied
        /\ req[r].op = "succeed" => job[j].applied
        /\ req[r].op = "tell" => job[j].status \in {"succeeded", "failed"}

Booked(j) ==
    /\ job[j].queued => job[j].status = "pending"
    /\ job[j].status = "succeeded" => job[j].applied
    /\ job[j].status \in {"none", "pending", "failed"} => ~job[j].applied
    /\ job[j].status \in {"none", "pending", "processing"} => job[j].told = 0
    /\ job[j].told <= 1

JobInv == JobType /\ ReqShape /\ \A j \in Jobs : InHand(j) /\ Booked(j)

-----------------------------------------------------------------------------
LEMMA JobInit == Init => JobInv
<1> SUFFICES ASSUME Init
             PROVE  JobInv
  OBVIOUS
<1>1. JobType
  BY DEF Init, JobType, Job
<1>2. ReqShape /\ \A j \in Jobs : InHand(j)
  BY DEF Init, ReqShape, InHand, OnJob, JobSteps, Idle
<1>3. \A j \in Jobs : Booked(j)
  BY DEF Init, Booked
<1> QED
  BY <1>1, <1>2, <1>3 DEF JobInv

\* A worker takes up or lays down what has nothing to do with a job.
LEMMA AsideStep ==
    ASSUME JobInv, NEW r \in Workers, UNCHANGED job,
           \E v : req' = [req EXCEPT ![r] = v] /\ "op" \in DOMAIN v /\ v.op \notin JobSteps
    PROVE  JobInv'
<1>1. /\ "op" \in DOMAIN req'[r] /\ req'[r].op \notin JobSteps
      /\ DOMAIN req' = Workers /\ req' = [q \in Workers |-> req'[q]]
      /\ \A q \in Workers : q # r => req'[q] = req[q]
  BY DEF JobInv, ReqShape
<1>2. JobType' /\ ReqShape'
  BY <1>1 DEF JobInv, JobType, Job, ReqShape
<1>3. \A j \in Jobs : InHand(j)' /\ Booked(j)'
  BY <1>1 DEF JobInv, InHand, Booked, OnJob
<1> QED
  BY <1>2, <1>3 DEF JobInv

\* Nothing of the jobs and the workers changes.
LEMMA StillStep == ASSUME JobInv, UNCHANGED <<job, req>> PROVE JobInv'
BY DEF JobInv, JobType, Job, ReqShape, InHand, Booked, OnJob

LEMMA NextOp ==
    ASSUME NEW q \in OnIt, NEW op \in JobSteps
    PROVE  /\ [q EXCEPT !.op = op] = [op |-> op, job |-> q.job, missing |-> q.missing]
           /\ [q EXCEPT !.op = op] \in OnIt
BY DEF OnIt

\* The row of a job whose worker is at "op", or has ended.
Fits(row, op) ==
    /\ row \in Job
    /\ ~row.queued
    /\ op \in JobSteps => row.told = 0
    /\ op \in {"apply", "raise", "succeed", "fail"} => row.status = "processing"
    /\ op \in {"apply", "fail"} => ~row.applied
    /\ op = "succeed" => row.applied
    /\ op = "tell" => row.status \in {"succeeded", "failed"}
    /\ row.status = "succeeded" => row.applied
    /\ row.status \in {"none", "pending", "failed"} => ~row.applied
    /\ row.status \in {"none", "pending", "processing"} => row.told = 0
    /\ row.told <= 1

\* A worker goes on with its job.
LEMMA OnwardStep ==
    ASSUME JobInv, NEW r \in Workers, NEW j \in Jobs, OnJob(r, j),
           NEW row, NEW op, Fits(row, op),
           job' = [job EXCEPT ![j] = row],
           \/ op = "idle" /\ req' = [req EXCEPT ![r] = Idle]
           \/ /\ op \in JobSteps
              /\ \E missing \in SUBSET Machines :
                   req' = [req EXCEPT ![r] = [op |-> op, job |-> j, missing |-> missing]]
    PROVE  JobInv'
<1> USE DEF Fits, Job
<1>1. /\ job'[j] = row /\ \A i \in Jobs : i # j => job'[i] = job[i]
      /\ JobType'
  BY DEF JobInv, JobType, Job
<1>2. /\ DOMAIN req' = Workers /\ req' = [q \in Workers |-> req'[q]]
      /\ \A q \in Workers : q # r => req'[q] = req[q]
      /\ \/ op = "idle" /\ req'[r] = Idle
         \/ op \in JobSteps /\ req'[r] \in OnIt /\ req'[r].op = op /\ req'[r].job = j
  <2>1. CASE op = "idle"
    BY <2>1 DEF JobInv, ReqShape, JobSteps
  <2>2. CASE op \in JobSteps
    <3>1. PICK missing \in SUBSET Machines :
            req' = [req EXCEPT ![r] = [op |-> op, job |-> j, missing |-> missing]]
      BY <2>2 DEF JobSteps
    <3>2. [op |-> op, job |-> j, missing |-> missing] \in OnIt
      BY <2>2 DEF OnIt
    <3> QED
      BY <2>2, <3>1, <3>2 DEF JobInv, ReqShape
  <2> QED
    BY <2>1, <2>2
<1>3. ReqShape'
  BY <1>2 DEF JobInv, ReqShape, Idle, JobSteps
<1>4. \A i \in Jobs : Booked(i)'
  BY <1>1 DEF JobInv, Booked
<1>5. \A i \in Jobs : InHand(i)'
  <2>1. ASSUME NEW i \in Jobs, i # j
        PROVE  InHand(i)'
    <3>1. \A q \in Workers : OnJob(q, i)' => q # r /\ OnJob(q, i) /\ req'[q] = req[q]
      BY <1>2, <2>1 DEF OnJob, Idle, JobSteps
    <3> QED
      BY <1>1, <2>1, <3>1 DEF JobInv, InHand
  <2>2. \A q \in Workers : OnJob(q, j)' => q = r /\ req'[r].op = op /\ op \in JobSteps
    BY <1>2 DEF JobInv, InHand, OnJob, Idle, JobSteps
  <2>3. InHand(j)'
    BY <1>1, <2>2 DEF InHand, JobSteps
  <2> QED
    BY <2>1, <2>3
<1> QED
  BY <1>1, <1>3, <1>4, <1>5 DEF JobInv

\* The steps that parsing may lead to.
LEMMA AfterParseIs ==
    ASSUME NEW j \in Jobs
    PROVE  /\ AfterParse(j) \in OnIt /\ AfterParse(j).job = j
           /\ AfterParse(j).op \in {"apply", "raise", "fail"}
           /\ AfterParse(j).op = "apply" => job[j].file \notin {Invalid, Broken}
<1>1. CASE job[j].file = Invalid
  <2>1. AfterParse(j) = [op |-> "fail", job |-> j, missing |-> {}]
    BY <1>1, FileAssumption DEF AfterParse
  <2> QED
    BY <2>1 DEF OnIt, JobSteps
<1>2. CASE job[j].file # Invalid /\ job[j].file = Broken
  <2>1. AfterParse(j) = [op |-> "raise", job |-> j, missing |-> {}]
    BY <1>2, FileAssumption DEF AfterParse
  <2> QED
    BY <2>1 DEF OnIt, JobSteps
<1>3. CASE job[j].file # Invalid /\ job[j].file # Broken
  <2> DEFINE missing == {m \in Machines : machine[m] = Absent}
  <2>1. AfterParse(j) = [op |-> "apply", job |-> j, missing |-> missing]
    BY <1>3 DEF AfterParse
  <2>2. missing \in SUBSET Machines
    OBVIOUS
  <2> HIDE DEF missing
  <2> QED
    BY <1>3, <2>1, <2>2 DEF OnIt, JobSteps
<1> QED
  BY <1>1, <1>2, <1>3

LEMMA JobStep == JobInv /\ [Next]_vars => JobInv'
<1> SUFFICES ASSUME JobInv, [Next]_vars
             PROVE  JobInv'
  OBVIOUS
<1>1. ASSUME NEW r \in Workers,
             \/ \E id, action : LoadVisit(r, id, action)
             \/ \E m, who : LoadClaim(r, m, who)
             \/ LoadChecks(r)
      PROVE  JobInv'
  <2>1. UNCHANGED job
    BY <1>1 DEF LoadVisit, LoadClaim, LoadChecks
  <2>2. CASE \E id, action : LoadVisit(r, id, action)
    <3>1. PICK id, action : LoadVisit(r, id, action)
      BY <2>2
    <3>2. PICK row, held : req' = [req EXCEPT ![r] = [op |-> "visit", action |-> action,
                                                      id |-> id, row |-> row, held |-> held]]
      BY <3>1 DEF LoadVisit, Begin
    <3> DEFINE v == [op |-> "visit", action |-> action, id |-> id, row |-> row, held |-> held]
    <3>3. req' = [req EXCEPT ![r] = v] /\ "op" \in DOMAIN v /\ v.op \notin JobSteps
      BY <3>2 DEF JobSteps
    <3> HIDE DEF v
    <3> QED
      BY <2>1, <3>3, AsideStep
  <2>3. CASE \E m, who : LoadClaim(r, m, who)
    <3>1. PICK m, who, held : req' = [req EXCEPT ![r] = [op |-> "claim", machine |-> m,
                                                         held |-> held, who |-> who]]
      BY <2>3 DEF LoadClaim, Begin
    <3> DEFINE v == [op |-> "claim", machine |-> m, held |-> held, who |-> who]
    <3>2. req' = [req EXCEPT ![r] = v] /\ "op" \in DOMAIN v /\ v.op \notin JobSteps
      BY <3>1 DEF JobSteps
    <3> HIDE DEF v
    <3> QED
      BY <2>1, <3>2, AsideStep
  <2>4. CASE LoadChecks(r)
    <3>1. PICK rows, todo, day : req' = [req EXCEPT ![r] = [op |-> "check", rows |-> rows,
                                                            day |-> day, todo |-> todo]]
      BY <2>4 DEF LoadChecks, Begin
    <3> DEFINE v == [op |-> "check", rows |-> rows, day |-> day, todo |-> todo]
    <3>2. req' = [req EXCEPT ![r] = v] /\ "op" \in DOMAIN v /\ v.op \notin JobSteps
      BY <3>1 DEF JobSteps
    <3> HIDE DEF v
    <3> QED
      BY <2>1, <3>2, AsideStep
  <2> QED
    BY <1>1, <2>2, <2>3, <2>4
<1>2. ASSUME NEW r \in Workers,
             CommitVisit(r) \/ ClaimFind(r) \/ ClaimCreate(r) \/ CheckNext(r) \/ EndChecks(r) \/ Crash(r)
      PROVE  JobInv'
  <2>1. UNCHANGED job
    BY <1>2 DEF CommitVisit, ClaimFind, ClaimCreate, CheckNext, EndChecks, Crash
  <2>2. /\ "op" \in DOMAIN req[r]
        /\ "op" \in DOMAIN Idle /\ Idle.op \notin JobSteps
    BY DEF JobInv, ReqShape, Idle, JobSteps
  <2>3. CASE CommitVisit(r) \/ ClaimCreate(r) \/ EndChecks(r) \/ Crash(r)
    <3>1. req' = [req EXCEPT ![r] = Idle]
      BY <2>3 DEF CommitVisit, ClaimCreate, EndChecks, Crash, Done
    <3> QED
      BY <2>1, <2>2, <3>1, AsideStep
  <2>4. CASE ClaimFind(r)
    <3>1. \/ req' = [req EXCEPT ![r] = Idle]
          \/ req' = [req EXCEPT ![r] = [req[r] EXCEPT !.op = "create"]]
      BY <2>4 DEF ClaimFind, Done
    <3>2. LET v == [req[r] EXCEPT !.op = "create"] IN "op" \in DOMAIN v /\ v.op \notin JobSteps
      BY <2>2 DEF JobSteps
    <3> QED
      BY <2>1, <2>2, <3>1, <3>2, AsideStep
  <2>5. CASE CheckNext(r)
    <3>1. PICK S : req' = [req EXCEPT ![r] = [req[r] EXCEPT !.todo = S]]
      BY <2>5 DEF CheckNext
    <3>2. LET v == [req[r] EXCEPT !.todo = S] IN "op" \in DOMAIN v /\ v.op \notin JobSteps
      BY <2>2, <2>5 DEF CheckNext, Serving, JobSteps
    <3> QED
      BY <2>1, <3>1, <3>2, AsideStep
  <2> QED
    BY <1>2, <2>3, <2>4, <2>5
<1>3. ASSUME NEW j \in Jobs, NEW file \in Files \cup {Invalid, Broken}, Queue(j, file)
      PROVE  JobInv'
  <2>1. job[j].status = "none" /\ UNCHANGED req
    BY <1>3 DEF Queue
  <2>2. /\ job'[j].status = "pending" /\ job'[j].told = job[j].told
        /\ job'[j].applied = job[j].applied
        /\ \A i \in Jobs : i # j => job'[i] = job[i]
        /\ JobType'
    <3>1. job \in [Jobs -> Job]
      BY DEF JobInv, JobType
    <3>2. PICK queued \in BOOLEAN :
            job' = [job EXCEPT ![j] = [job[j] EXCEPT !.status = "pending", !.file = file,
                                                     !.queued = queued]]
      <4>1. job[j].queued \in BOOLEAN
        BY <3>1 DEF Job
      <4>2. [job[j] EXCEPT !.status = "pending", !.file = file]
              = [job[j] EXCEPT !.status = "pending", !.file = file, !.queued = job[j].queued]
        BY <3>1 DEF Job
      <4> QED
        BY <1>3, <4>1, <4>2 DEF Queue
    <3> DEFINE row == [job[j] EXCEPT !.status = "pending", !.file = file, !.queued = queued]
    <3>3. /\ row \in Job /\ row.status = "pending" /\ row.told = job[j].told
          /\ row.applied = job[j].applied
      BY <3>1 DEF Job
    <3> HIDE DEF row
    <3>4. job' = [job EXCEPT ![j] = row]
      BY <3>2 DEF row
    <3> QED
      BY <3>1, <3>3, <3>4 DEF JobType
  <2>3. \A r \in Workers : ~ OnJob(r, j)
    BY <2>1 DEF JobInv, InHand, OnJob, JobSteps
  <2>4. \A i \in Jobs : Booked(i)'
    BY <2>1, <2>2 DEF JobInv, Booked
  <2>5. \A i \in Jobs : InHand(i)'
    BY <2>1, <2>2, <2>3 DEF JobInv, InHand, OnJob
  <2>6. ReqShape'
    BY <2>1 DEF JobInv, ReqShape
  <2> QED
    BY <2>2, <2>4, <2>5, <2>6 DEF JobInv
<1>4. ASSUME NEW r \in Workers, NEW j \in Jobs, BeginImport(r, j)
      PROVE  JobInv'
  <2>1. /\ job[j].queued /\ job[j].status = "pending" /\ ~job[j].applied /\ job[j].told = 0
    BY <1>4 DEF BeginImport, JobInv, Booked
  <2>2. /\ job'[j].status = "processing" /\ job'[j].told = job[j].told
        /\ job'[j].applied = job[j].applied /\ ~job'[j].queued
        /\ \A i \in Jobs : i # j => job'[i] = job[i]
        /\ JobType'
    BY <1>4 DEF BeginImport, JobInv, JobType, Job
  <2>3. /\ req' = [req EXCEPT ![r] = AfterParse(j)] /\ AfterParse(j) \in OnIt
        /\ AfterParse(j).op \in {"apply", "raise", "fail"} /\ AfterParse(j).job = j
    BY <1>4, AfterParseIs DEF BeginImport, Begin
  <2> DEFINE op == AfterParse(j).op
  <2>4. /\ DOMAIN req' = Workers /\ req' = [q \in Workers |-> req'[q]]
        /\ req'[r] \in OnIt /\ req'[r].op = op /\ req'[r].job = j
        /\ op \in {"apply", "raise", "fail"}
        /\ \A q \in Workers : q # r => req'[q] = req[q]
    BY <2>3 DEF JobInv, ReqShape
  <2> HIDE DEF op
  <2>5. req[r].op = "idle" /\ \A q \in Workers : ~ OnJob(q, j)
    BY <1>4, <2>1 DEF BeginImport, Begin, Serving, JobInv, InHand
  <2>6. ReqShape'
    BY <2>4 DEF JobInv, ReqShape, OnIt
  <2>7. \A i \in Jobs : Booked(i)'
    BY <2>1, <2>2 DEF JobInv, Booked
  <2>8. \A i \in Jobs : InHand(i)'
    <3>1. ASSUME NEW i \in Jobs, i # j
          PROVE  InHand(i)'
      <4>1. \A q \in Workers : OnJob(q, i)' => OnJob(q, i) /\ req'[q] = req[q]
        BY <2>4, <3>1 DEF OnJob
      <4> QED
        BY <2>2, <3>1, <4>1 DEF JobInv, InHand
    <3>2. \A q \in Workers : OnJob(q, j)' => q = r /\ req'[q].op = op
      BY <2>4, <2>5 DEF OnJob
    <3>3. InHand(j)'
      BY <2>1, <2>2, <2>4, <3>2 DEF InHand
    <3> QED
      BY <3>1, <3>3
  <2> QED
    BY <2>2, <2>6, <2>7, <2>8 DEF JobInv
<1>5. ASSUME NEW r \in Workers,
             \/ Apply(r) \/ Raise(r) \/ Tell(r)
             \/ Finalize(r, "succeed", "succeeded") \/ Finalize(r, "fail", "failed")
      PROVE  JobInv'
  <2>0. req[r].op \in JobSteps
    BY <1>5 DEF Apply, Raise, Tell, Finalize, Serving, JobSteps
  <2>1. PICK j \in Jobs : j = req[r].job /\ OnJob(r, j)
    BY <2>0 DEF JobInv, ReqShape, OnJob, OnIt
  <2>9. ASSUME NEW op \in JobSteps
        PROVE  [req[r] EXCEPT !.op = op] = [op |-> op, job |-> j, missing |-> req[r].missing]
                 /\ req[r].missing \in SUBSET Machines
    <3>1. req[r] \in OnIt
      BY <2>0 DEF JobInv, ReqShape
    <3> QED
      BY <2>1, <3>1, NextOp DEF OnIt
  <2>2. /\ ~job[j].queued /\ job[j].told = 0
        /\ req[r].op \in {"apply", "raise", "succeed", "fail"} => job[j].status = "processing"
        /\ req[r].op \in {"apply", "fail"} => ~job[j].applied
        /\ req[r].op = "succeed" => job[j].applied
        /\ req[r].op = "tell" => job[j].status \in {"succeeded", "failed"}
        /\ Booked(j)
    BY <2>1 DEF JobInv, InHand
  <2>3. job[j] \in Job
    BY DEF JobInv, JobType, Job
  <2>4. CASE Apply(r)
    <3> DEFINE row == [job[j] EXCEPT !.applied = TRUE]
    <3>1. /\ job' = [job EXCEPT ![j] = row]
          /\ req' = [req EXCEPT ![r] = [op |-> "succeed", job |-> j, missing |-> {}]]
      BY <2>1, <2>4 DEF Apply
    <3>2. /\ row \in Job
          /\ row.status = "processing" /\ row.applied /\ row.told = 0 /\ ~row.queued
      BY <2>2, <2>3, <2>4 DEF Apply, Serving, Job
    <3> HIDE DEF row
    <3>3. Fits(row, "succeed")
      BY <3>2 DEF Fits, JobSteps
    <3>4. "succeed" \in JobSteps
      BY DEF JobSteps
    <3> QED
      BY <2>1, <3>1, <3>3, <3>4, OnwardStep
  <2>5. CASE Finalize(r, "succeed", "succeeded")
    <3> DEFINE row == [job[j] EXCEPT !.status = "succeeded"]
    <3>1. /\ job' = [job EXCEPT ![j] = row]
          /\ \E missing \in SUBSET Machines :
               req' = [req EXCEPT ![r] = [op |-> "tell", job |-> j, missing |-> missing]]
      BY <2>1, <2>5, <2>9 DEF Finalize, JobSteps
    <3>2. /\ row \in Job
          /\ row.status = "succeeded" /\ row.applied /\ row.told = 0 /\ ~row.queued
      BY <2>2, <2>3, <2>5 DEF Finalize, Serving, Job
    <3> HIDE DEF row
    <3>3. Fits(row, "tell")
      BY <3>2 DEF Fits, JobSteps
    <3>4. "tell" \in JobSteps
      BY DEF JobSteps
    <3> QED
      BY <2>1, <3>1, <3>3, <3>4, OnwardStep
  <2>6. CASE Finalize(r, "fail", "failed")
    <3> DEFINE row == [job[j] EXCEPT !.status = "failed"]
    <3>1. /\ job' = [job EXCEPT ![j] = row]
          /\ \E missing \in SUBSET Machines :
               req' = [req EXCEPT ![r] = [op |-> "tell", job |-> j, missing |-> missing]]
      BY <2>1, <2>6, <2>9 DEF Finalize, JobSteps
    <3>2. /\ row \in Job
          /\ row.status = "failed" /\ ~row.applied /\ row.told = 0 /\ ~row.queued
      BY <2>2, <2>3, <2>6 DEF Finalize, Serving, Job
    <3> HIDE DEF row
    <3>3. Fits(row, "tell")
      BY <3>2 DEF Fits, JobSteps
    <3>4. "tell" \in JobSteps
      BY DEF JobSteps
    <3> QED
      BY <2>1, <3>1, <3>3, <3>4, OnwardStep
  <2>7. CASE Tell(r)
    <3> DEFINE row == [job[j] EXCEPT !.told = @ + 1]
    <3>1. job' = [job EXCEPT ![j] = row] /\ req' = [req EXCEPT ![r] = Idle]
      BY <2>1, <2>7 DEF Tell, Done
    <3>2. /\ row \in Job
          /\ row.status \in {"succeeded", "failed"} /\ row.told = 1 /\ ~row.queued
          /\ row.status = "succeeded" => row.applied
          /\ row.status = "failed" => ~row.applied
      BY <2>2, <2>3, <2>7 DEF Tell, Serving, Booked, Job
    <3> HIDE DEF row
    <3>3. Fits(row, "idle")
      BY <3>2 DEF Fits, JobSteps
    <3> QED
      BY <2>1, <3>1, <3>3, OnwardStep
  <2>8. CASE Raise(r)
    <3>1. job' = [job EXCEPT ![j] = job[j]] /\ req' = [req EXCEPT ![r] = Idle]
      BY <2>8 DEF Raise, Done, JobInv, JobType
    <3>2. Fits(job[j], "idle")
      BY <2>2, <2>3 DEF Fits, Booked, JobSteps
    <3> QED
      BY <2>1, <3>1, <3>2, OnwardStep
  <2> QED
    BY <1>5, <2>4, <2>5, <2>6, <2>7, <2>8
<1>6. CASE (\E w \in Staff : Hire(w)) \/ Tomorrow \/ UNCHANGED vars
  BY <1>6, StillStep DEF Hire, Tomorrow, vars
<1> QED
  BY <1>1, <1>2, <1>3, <1>4, <1>5, <1>6 DEF Next, Work, Workers

\* What the uploader is shown is what was done, and is told once: the rows of a
\* job that succeeded were applied, those of one that failed or waits were not
\* (process_import_job and its two _finalize functions).
THEOREM JobsTruthful == Spec => []JobTruthful
<1>1. JobInv => JobTruthful
  <2> SUFFICES ASSUME JobInv, NEW j \in Jobs
               PROVE  /\ job[j].status = "succeeded" => job[j].applied
                      /\ job[j].status \in {"none", "pending", "failed"} => ~job[j].applied
                      /\ job[j].told <= (IF job[j].status \in {"succeeded", "failed"} THEN 1 ELSE 0)
    BY DEF JobTruthful
  <2>1. Booked(j) /\ job[j].status \in {"none", "pending", "processing", "succeeded", "failed"}
    BY DEF JobInv, JobType, Job
  <2> QED
    BY <2>1 DEF Booked
<1> QED
  BY <1>1, JobInit, JobStep, PTL DEF Spec

-----------------------------------------------------------------------------
(* The services *)

Pair == [row: MachineRow, visits: Seq(Visit)]

Scheduled(m) == {v \in Visit : v.machine = m /\ v.status = "scheduled"}

\* The visits are the same, or one is scheduled of a machine that had none.
Grown(list, new, m) ==
    \/ new = list
    \/ /\ OpenVisits(list, m) = {}
       /\ \E v \in Scheduled(m) : new = Append(list, v)

\* A machine whose row calls for a visit has an open one, or no one to send.
Crewed(row, list, m) == row.status \in Actionable /\ Served(m) => OpenVisits(list, m) # {}

\* What every service promises of a machine: it saves no row that calls for a
\* visit without there being one.
Careful(pair, new, m) ==
    /\ new \in Pair
    /\ Grown(pair.visits, new.visits, m)
    /\ new.row = pair.row \/ Crewed(new.row, new.visits, m)

\* An appended visit is the only new one, and open.
LEMMA AppendVisit ==
    ASSUME NEW list \in Seq(Visit), NEW m \in Machines, NEW v \in Scheduled(m)
    PROVE  /\ Append(list, v) \in Seq(Visit)
           /\ \A i \in DOMAIN list : i \in DOMAIN Append(list, v) /\ Append(list, v)[i] = list[i]
           /\ OpenVisits(Append(list, v), m) = OpenVisits(list, m) \cup {Len(list) + 1}
           /\ \A o \in Machines : o # m => OpenVisits(Append(list, v), o) = OpenVisits(list, o)
<1> DEFINE new == Append(list, v)
<1>1. v \in Visit /\ v.machine = m /\ v.status = "scheduled"
  BY DEF Scheduled
<1>2. /\ new \in Seq(Visit) /\ Len(list) \in Nat
      /\ DOMAIN list = 1 .. Len(list) /\ DOMAIN new = 1 .. Len(list) + 1
      /\ new[Len(list) + 1] = v
      /\ \A i \in DOMAIN list : new[i] = list[i]
  BY <1>1
<1>3. DOMAIN new = DOMAIN list \cup {Len(list) + 1} /\ Len(list) + 1 \notin DOMAIN list
  BY <1>2
<1>4. v.status \in Open
  BY <1>1 DEF Open
<1> HIDE DEF new
<1>5. OpenVisits(new, m) = OpenVisits(list, m) \cup {Len(list) + 1}
  BY <1>1, <1>2, <1>3, <1>4 DEF OpenVisits
<1>6. ASSUME NEW o \in Machines, o # m
      PROVE  OpenVisits(new, o) = OpenVisits(list, o)
  BY <1>1, <1>2, <1>3, <1>6 DEF OpenVisits
<1> QED
  BY <1>2, <1>3, <1>5, <1>6 DEF new

LEMMA GrownVisits ==
    ASSUME NEW list \in Seq(Visit), NEW m \in Machines, NEW new, Grown(list, new, m)
    PROVE  /\ new \in Seq(Visit)
           /\ \A i \in DOMAIN list : i \in DOMAIN new /\ new[i] = list[i]
           /\ OpenVisits(list, m) \subseteq OpenVisits(new, m)
           /\ new = list \/ OpenVisits(new, m) = {Len(list) + 1}
           /\ \A o \in Machines \ {m} : OpenVisits(new, o) = OpenVisits(list, o)
<1>1. CASE new = list
  BY <1>1
<1>2. CASE new # list
  <2>1. PICK v \in Scheduled(m) : new = Append(list, v)
    BY <1>2 DEF Grown
  <2>2. OpenVisits(list, m) = {}
    BY <1>2 DEF Grown
  <2>3. /\ Append(list, v) \in Seq(Visit)
        /\ \A i \in DOMAIN list : i \in DOMAIN Append(list, v) /\ Append(list, v)[i] = list[i]
        /\ OpenVisits(Append(list, v), m) = OpenVisits(list, m) \cup {Len(list) + 1}
        /\ \A o \in Machines : o # m => OpenVisits(Append(list, v), o) = OpenVisits(list, o)
    BY AppendVisit
  <2> QED
    BY <2>1, <2>2, <2>3
<1> QED
  BY <1>1, <1>2

\* Someone is selected when there is anyone (select_repair_assignee).
LEMMA AssigneeExists ==
    ASSUME NEW list \in Seq(Visit), NEW m \in Machines, Served(m)
    PROVE  Assignees(list, m) # {}
<1> DEFINE staff == {w \in hired : m \in Serves[w]}
           loads == {Load(list, w) : w \in staff}
<1>1. staff # {}
  BY DEF Served
<1>2. \A w \in staff : Load(list, w) \in Nat
  <2>1. DOMAIN list = 1 .. Len(list) /\ Len(list) \in Nat
    OBVIOUS
  <2>2. IsFiniteSet(DOMAIN list)
    BY <2>1, FS_Interval
  <2>3. \A w \in staff : IsFiniteSet({i \in DOMAIN list : list[i].to = w /\ list[i].status \in Open})
    BY <2>2, FS_Subset
  <2> QED
    BY <2>3, FS_CardinalityType DEF Load
<1>3. loads \subseteq Nat /\ loads # {}
  BY <1>1, <1>2
<1>4. PICK n \in loads : \A k \in loads : n <= k
  BY <1>3, LeastNat
<1>5. PICK w \in staff : Load(list, w) = n
  BY <1>4
<1>6. \A v \in staff : Load(list, w) <= Load(list, v)
  BY <1>4, <1>5
<1> QED
  BY <1>5, <1>6 DEF Assignees

\* create_repair_assignment
LEMMA AssignedAppends ==
    ASSUME hired \subseteq Staff, NEW list \in Seq(Visit), NEW m \in Machines,
           NEW who \in Staff \cup {"auto"}, NEW new \in Assigned(list, m, who)
    PROVE  \/ new = list /\ ~(who = "auto" /\ Served(m))
           \/ \E v \in Scheduled(m) : new = Append(list, v)
<1> DEFINE chosen == IF who # "auto" THEN {who} ELSE Assignees(list, m)
<1>1. chosen \subseteq Staff
  BY DEF Assignees
<1>2. who = "auto" /\ Served(m) => chosen # {}
  BY AssigneeExists
<1>3. CASE chosen = {}
  <2>1. new = list
    BY <1>3 DEF Assigned
  <2> QED
    BY <1>2, <1>3, <2>1
<1>4. CASE chosen # {}
  <2>1. PICK w \in chosen : new = Append(list, [machine |-> m, to |-> w, status |-> "scheduled"])
    BY <1>4 DEF Assigned
  <2>2. [machine |-> m, to |-> w, status |-> "scheduled"] \in Scheduled(m)
    BY <1>1 DEF Scheduled, Visit, RepairStatus
  <2> QED
    BY <2>1, <2>2
<1> QED
  BY <1>3, <1>4

\* ensure_repair_assignment
LEMMA EnsuredIs ==
    ASSUME hired \subseteq Staff, NEW list \in Seq(Visit), NEW m \in Machines, NEW status,
           NEW new \in Ensured(list, m, status)
    PROVE  /\ Grown(list, new, m)
           /\ status \in Actionable /\ Served(m) => OpenVisits(new, m) # {}
<1>1. CASE status \notin Actionable \/ OpenVisits(list, m) # {}
  BY <1>1 DEF Ensured, Grown
<1>2. CASE status \in Actionable /\ OpenVisits(list, m) = {}
  <2>1. new \in Assigned(list, m, "auto")
    BY <1>2 DEF Ensured
  <2>2. CASE new = list /\ ~Served(m)
    BY <2>2 DEF Grown
  <2>3. ASSUME NEW v \in Scheduled(m), new = Append(list, v)
        PROVE  Grown(list, new, m) /\ OpenVisits(new, m) # {}
    <3>1. OpenVisits(Append(list, v), m) = OpenVisits(list, m) \cup {Len(list) + 1}
      BY AppendVisit
    <3> QED
      BY <1>2, <2>3, <3>1 DEF Grown
  <2>4. \/ new = list /\ ~Served(m)
        \/ \E v \in Scheduled(m) : new = Append(list, v)
    BY <2>1, AssignedAppends
  <2> QED
    BY <2>2, <2>3, <2>4
<1> QED
  BY <1>1, <1>2

LEMMA MarkedRow ==
    ASSUME NEW row \in MachineRow, NEW status \in MachineStatus, NEW date \in Int
    PROVE  Marked(row, status, date) \in MachineRow /\ Marked(row, status, date).status = status
<1>1. date + Interval \in Int /\ row.due \in Int
  BY PolicyAssumption DEF MachineRow
<1> QED
  BY <1>1 DEF Marked, MachineRow

\* append_machine_status_event
LEMMA ReportedIs ==
    ASSUME hired \subseteq Staff, NEW pair \in Pair, NEW m \in Machines,
           NEW status \in MachineStatus, NEW date \in Int,
           NEW new \in Reported(pair, m, status, date)
    PROVE  /\ Careful(pair, new, m) /\ Crewed(new.row, new.visits, m)
           /\ new.row = Marked(pair.row, status, date)
<1>1. PICK list \in Ensured(pair.visits, m, status) :
        new = [row |-> Marked(pair.row, status, date), visits |-> list]
  BY DEF Reported
<1>2. pair.row \in MachineRow /\ pair.visits \in Seq(Visit)
  BY DEF Pair
<1>3. /\ Grown(pair.visits, list, m)
      /\ status \in Actionable /\ Served(m) => OpenVisits(list, m) # {}
  BY <1>1, <1>2, EnsuredIs
<1>4. list \in Seq(Visit)
  BY <1>2, <1>3, GrownVisits
<1>5. Marked(pair.row, status, date) \in MachineRow /\ Marked(pair.row, status, date).status = status
  BY <1>2, MarkedRow
<1> QED
  BY <1>1, <1>3, <1>4, <1>5 DEF Careful, Crewed, Pair

LEMMA KeptIs ==
    ASSUME hired \subseteq Staff, NEW pair \in Pair, NEW m \in Machines, NEW new \in Kept(pair, m)
    PROVE  Careful(pair, new, m) /\ new.row = pair.row
<1>1. PICK list \in Ensured(pair.visits, m, pair.row.status) : new = [pair EXCEPT !.visits = list]
  BY DEF Kept
<1>2. Grown(pair.visits, list, m) /\ list \in Seq(Visit)
  BY <1>1, EnsuredIs, GrownVisits DEF Pair
<1> QED
  BY <1>1, <1>2 DEF Careful, Pair

LEMMA SameIsCareful ==
    ASSUME NEW pair \in Pair, NEW m
    PROVE  Careful(pair, pair, m)
BY DEF Careful, Grown

\* Days of the policy.
InWarning(row, day) == row.status = "warning" => row.since = 0 \/ day - row.since < Shutdown
InError(row, day) ==
    row.status = "error" => ErrorMax = 0 \/ row.since = 0 \/ day - row.since < ErrorMax
InService(row, day) ==
    row.status \in {"normal", "repair-end"} => row.due = 0 \/ day < row.due - Window

\* evaluate_service_window
LEMMA ServiceWindowIs ==
    ASSUME hired \subseteq Staff, NEW pair \in Pair, NEW m \in Machines, NEW day \in Int,
           NEW new \in ServiceWindow(pair, m, day)
    PROVE  Careful(pair, new, m) /\ InService(new.row, day)
<1> DEFINE row == pair.row
           aside == \/ row.due = 0
                    \/ row.status \in {"warning", "error", "out-of-order", "repair-start"}
                    \/ day < row.due - Window
<1>1. CASE aside
  <2>1. new = pair
    BY <1>1 DEF ServiceWindow
  <2> QED
    BY <1>1, <2>1, SameIsCareful DEF InService
<1>2. CASE ~aside /\ row.status = "schedule-service"
  <2>1. new \in Kept(pair, m)
    BY <1>2 DEF ServiceWindow
  <2> QED
    BY <1>2, <2>1, KeptIs DEF InService
<1>3. CASE ~aside /\ row.status # "schedule-service"
  <2>1. new \in Reported(pair, m, "schedule-service", day)
    BY <1>3 DEF ServiceWindow
  <2>2. row \in MachineRow /\ "schedule-service" \in MachineStatus
    BY DEF Pair, MachineStatus
  <2>3. Careful(pair, new, m) /\ new.row = Marked(row, "schedule-service", day)
    BY <2>1, <2>2, ReportedIs
  <2>4. new.row.status = "schedule-service"
    BY <2>2, <2>3, MarkedRow
  <2> QED
    BY <2>3, <2>4 DEF InService
<1> QED
  BY <1>1, <1>2, <1>3

\* evaluate_warning_escalation
LEMMA WarningEscalationIs ==
    ASSUME hired \subseteq Staff, NEW pair \in Pair, NEW m \in Machines, NEW day \in Int,
           NEW new \in WarningEscalation(pair, m, day)
    PROVE  /\ Careful(pair, new, m) /\ InWarning(new.row, day)
           /\ InService(pair.row, day) => InService(new.row, day)
<1> DEFINE row == pair.row
<1>1. CASE row.status # "warning" \/ row.since = 0
  <2>1. new = pair
    BY <1>1 DEF WarningEscalation
  <2> QED
    BY <1>1, <2>1, SameIsCareful DEF InWarning
<1>2. CASE ~(row.status # "warning" \/ row.since = 0) /\ day - row.since < Shutdown
  <2>1. new \in Kept(pair, m)
    BY <1>2 DEF WarningEscalation
  <2> QED
    BY <1>2, <2>1, KeptIs DEF InWarning
<1>3. CASE ~(row.status # "warning" \/ row.since = 0) /\ ~(day - row.since < Shutdown)
  <2>1. new \in Reported(pair, m, "out-of-order", day)
    BY <1>3 DEF WarningEscalation
  <2>2. row \in MachineRow /\ "out-of-order" \in MachineStatus
    BY DEF Pair, MachineStatus
  <2>3. Careful(pair, new, m) /\ new.row = Marked(row, "out-of-order", day)
    BY <2>1, <2>2, ReportedIs
  <2>4. new.row.status = "out-of-order"
    BY <2>2, <2>3, MarkedRow
  <2> QED
    BY <2>3, <2>4 DEF InWarning, InService
<1> QED
  BY <1>1, <1>2, <1>3

\* evaluate_error_escalation
LEMMA ErrorEscalationIs ==
    ASSUME hired \subseteq Staff, NEW pair \in Pair, NEW m \in Machines, NEW day \in Int,
           NEW new \in ErrorEscalation(pair, m, day)
    PROVE  /\ Careful(pair, new, m) /\ InError(new.row, day)
           /\ InService(pair.row, day) => InService(new.row, day)
           /\ InWarning(pair.row, day) => InWarning(new.row, day)
<1> DEFINE row == pair.row
           young == ErrorMax = 0 \/ day - row.since < ErrorMax
<1>1. CASE row.status # "error" \/ row.since = 0
  <2>1. new = pair
    BY <1>1 DEF ErrorEscalation
  <2> QED
    BY <1>1, <2>1, SameIsCareful DEF InError
<1>2. CASE ~(row.status # "error" \/ row.since = 0) /\ young
  <2>1. new \in Kept(pair, m)
    BY <1>2 DEF ErrorEscalation
  <2> QED
    BY <1>2, <2>1, KeptIs DEF InError
<1>3. CASE ~(row.status # "error" \/ row.since = 0) /\ ~young
  <2>1. new \in Reported(pair, m, "out-of-order", day)
    BY <1>3 DEF ErrorEscalation
  <2>2. row \in MachineRow /\ "out-of-order" \in MachineStatus
    BY DEF Pair, MachineStatus
  <2>3. Careful(pair, new, m) /\ new.row = Marked(row, "out-of-order", day)
    BY <2>1, <2>2, ReportedIs
  <2>4. new.row.status = "out-of-order"
    BY <2>2, <2>3, MarkedRow
  <2> QED
    BY <2>3, <2>4 DEF InError, InService, InWarning
<1> QED
  BY <1>1, <1>2, <1>3

\* One careful service after another is careful.
LEMMA CarefulTwice ==
    ASSUME NEW a \in Pair, NEW b, NEW c, NEW m \in Machines, Careful(a, b, m), Careful(b, c, m)
    PROVE  Careful(a, c, m) /\ (Crewed(b.row, b.visits, m) => Crewed(c.row, c.visits, m))
<1>1. /\ a.visits \in Seq(Visit) /\ b.visits \in Seq(Visit)
      /\ Grown(a.visits, b.visits, m) /\ Grown(b.visits, c.visits, m)
  BY DEF Careful, Pair
<1>2. Grown(a.visits, c.visits, m)
  <2>1. CASE b.visits = a.visits
    BY <1>1, <2>1
  <2>2. CASE b.visits # a.visits
    <3>1. OpenVisits(b.visits, m) = {Len(a.visits) + 1}
      <4>1. PICK list \in Seq(Visit), new \in {b.visits} : list = a.visits /\ new = b.visits
        BY <1>1
      <4>2. Grown(list, new, m) /\ new # list
        BY <1>1, <2>2, <4>1
      <4>3. OpenVisits(new, m) = {Len(list) + 1}
        BY <4>2, GrownVisits
      <4> QED
        BY <4>1, <4>3
    <3>2. c.visits = b.visits
      BY <1>1, <3>1 DEF Grown
    <3> QED
      BY <1>1, <3>2
  <2> QED
    BY <2>1, <2>2
<1>3. OpenVisits(b.visits, m) \subseteq OpenVisits(c.visits, m)
  BY <1>1, GrownVisits
<1>4. Crewed(b.row, b.visits, m) => Crewed(c.row, c.visits, m)
  BY <1>3 DEF Crewed, Careful
<1> QED
  BY <1>2, <1>4 DEF Careful

\* The three evaluations of run_maintenance_policy_checks.
LEMMA EvaluatedIs ==
    ASSUME hired \subseteq Staff, NEW pair \in Pair, NEW m \in Machines, NEW day \in Int,
           NEW new \in Evaluated(pair, m, day)
    PROVE  /\ Careful(pair, new, m)
           /\ InService(new.row, day) /\ InWarning(new.row, day) /\ InError(new.row, day)
<1>1. PICK p \in ServiceWindow(pair, m, day) :
        \E q \in WarningEscalation(p, m, day) : new \in ErrorEscalation(q, m, day)
  BY DEF Evaluated
<1>2. PICK q \in WarningEscalation(p, m, day) : new \in ErrorEscalation(q, m, day)
  BY <1>1
<1>3. Careful(pair, p, m) /\ InService(p.row, day)
  BY <1>1, ServiceWindowIs
<1>4. p \in Pair
  BY <1>3 DEF Careful
<1>5. Careful(p, q, m) /\ InWarning(q.row, day) /\ InService(q.row, day)
  BY <1>2, <1>3, <1>4, WarningEscalationIs
<1>6. q \in Pair
  BY <1>5 DEF Careful
<1>7. /\ Careful(q, new, m)
      /\ InService(new.row, day) /\ InWarning(new.row, day) /\ InError(new.row, day)
  BY <1>2, <1>5, <1>6, ErrorEscalationIs
<1>8. Careful(pair, q, m)
  BY <1>3, <1>5, CarefulTwice
<1> QED
  BY <1>7, <1>8, CarefulTwice

-----------------------------------------------------------------------------
(* What a transaction leaves of the machines and the visits *)

States == [machine: [Machines -> MachineRow], visits: Seq(Visit)]

OneOpen(list, m) == \A i, k \in OpenVisits(list, m) : i = k

\* The visits there were are still there as they were; no machine has lost its
\* crew, and none has got a second one.
Advanced(rows, list, newRows, new) ==
    /\ \A i \in DOMAIN list : i \in DOMAIN new /\ new[i] = list[i]
    /\ \A m \in Machines : /\ Crewed(rows[m], list, m) => Crewed(newRows[m], new, m)
                           /\ OneOpen(list, m) => OneOpen(new, m)

LEMMA AdvancedTwice ==
    ASSUME NEW r1, NEW v1, NEW r2, NEW v2, NEW r3, NEW v3,
           Advanced(r1, v1, r2, v2), Advanced(r2, v2, r3, v3)
    PROVE  Advanced(r1, v1, r3, v3)
<1>1. \A i \in DOMAIN v1 : i \in DOMAIN v3 /\ v3[i] = v1[i]
  BY DEF Advanced
<1>2. \A m \in Machines : /\ Crewed(r1[m], v1, m) => Crewed(r3[m], v3, m)
                          /\ OneOpen(v1, m) => OneOpen(v3, m)
  BY DEF Advanced
<1> QED
  BY <1>1, <1>2 DEF Advanced

\* A machine is saved with the visits a service grew for it.
LEMMA GrownAdvances ==
    ASSUME NEW rows \in [Machines -> MachineRow], NEW list \in Seq(Visit), NEW m \in Machines,
           NEW row \in MachineRow, NEW new, Grown(list, new, m),
           row = rows[m] \/ Crewed(row, new, m)
    PROVE  /\ [rows EXCEPT ![m] = row] \in [Machines -> MachineRow] /\ new \in Seq(Visit)
           /\ Advanced(rows, list, [rows EXCEPT ![m] = row], new)
<1> DEFINE newRows == [rows EXCEPT ![m] = row]
<1>1. /\ new \in Seq(Visit)
      /\ \A i \in DOMAIN list : i \in DOMAIN new /\ new[i] = list[i]
      /\ OpenVisits(list, m) \subseteq OpenVisits(new, m)
      /\ new = list \/ OpenVisits(new, m) = {Len(list) + 1}
      /\ \A o \in Machines \ {m} : OpenVisits(new, o) = OpenVisits(list, o)
  BY GrownVisits
<1>2. /\ newRows \in [Machines -> MachineRow] /\ newRows[m] = row
      /\ \A o \in Machines \ {m} : newRows[o] = rows[o]
  OBVIOUS
<1> HIDE DEF newRows
<1>3. ASSUME NEW o \in Machines
      PROVE  /\ Crewed(rows[o], list, o) => Crewed(newRows[o], new, o)
             /\ OneOpen(list, o) => OneOpen(new, o)
  <2>1. CASE o = m
    BY <1>1, <1>2, <2>1 DEF Crewed, OneOpen
  <2>2. CASE o # m
    BY <1>1, <1>2, <2>2 DEF Crewed, OneOpen
  <2> QED
    BY <2>1, <2>2
<1> QED
  BY <1>1, <1>2, <1>3 DEF Advanced, newRows

LEMMA ReportRowIs ==
    ASSUME hired \subseteq Staff, NEW state \in States, NEW report \in ReportedRow,
           NEW new \in ReportRow(state, report)
    PROVE  new \in States /\ Advanced(state.machine, state.visits, new.machine, new.visits)
<1> DEFINE m == report.machine
           row == IF state.machine[m] = Absent THEN NewMachine ELSE state.machine[m]
           base == [row |-> row, visits |-> state.visits]
<1>1. /\ m \in Machines /\ report.status \in MachineStatus /\ report.date \in Int
      /\ state.machine \in [Machines -> MachineRow] /\ state.visits \in Seq(Visit)
  BY DEF ReportedRow, States
<1>2. row \in MachineRow
  BY <1>1 DEF NewMachine, MachineRow, MachineStatus
<1>3. PICK p \in Reported(base, m, report.status, report.date) :
        \E q \in WarningEscalation(p, m, report.date) :
          new = [machine |-> [state.machine EXCEPT ![m] = q.row], visits |-> q.visits]
  BY DEF ReportRow
<1>4. PICK q \in WarningEscalation(p, m, report.date) :
        new = [machine |-> [state.machine EXCEPT ![m] = q.row], visits |-> q.visits]
  BY <1>3
<1> HIDE DEF m, row
<1>5. base \in Pair /\ base.visits = state.visits
  BY <1>1, <1>2 DEF Pair
<1> HIDE DEF base
<1>6. Careful(base, p, m) /\ Crewed(p.row, p.visits, m)
  BY <1>1, <1>3, <1>5, ReportedIs
<1>7. p \in Pair
  BY <1>6 DEF Careful
<1>8. Careful(p, q, m)
  BY <1>1, <1>4, <1>7, WarningEscalationIs
<1>9. Careful(base, q, m) /\ Crewed(q.row, q.visits, m)
  BY <1>1, <1>5, <1>6, <1>8, CarefulTwice
<1>10. q.row \in MachineRow /\ Grown(state.visits, q.visits, m)
  BY <1>5, <1>9 DEF Careful, Pair
<1>11. /\ [state.machine EXCEPT ![m] = q.row] \in [Machines -> MachineRow]
       /\ q.visits \in Seq(Visit)
       /\ Advanced(state.machine, state.visits, [state.machine EXCEPT ![m] = q.row], q.visits)
  BY <1>1, <1>9, <1>10, GrownAdvances
<1> QED
  BY <1>4, <1>11 DEF States

\* The transaction of _process_repair_status_import: by induction over the rows
\* of the file, on the least row it does not hold of.
LEMMA FileAppliedIs ==
    ASSUME hired \subseteq Staff, machine \in [Machines -> MachineRow], visits \in Seq(Visit),
           NEW file \in Seq(ReportedRow), NEW state \in FileApplied(file)
    PROVE  state \in States /\ Advanced(machine, visits, state.machine, state.visits)
<1> DEFINE start == [machine |-> machine, visits |-> visits]
           More(S, n) == UNION {ReportRow(s, file[n]) : s \in S}
           Runs(g, n) == g = [k \in 0 .. n |-> IF k = 0 THEN {start} ELSE More(g[k - 1], k)]
           reached == {s \in States : Advanced(machine, visits, s.machine, s.visits)}
<1>1. FileApplied(file) = (CHOOSE g : Runs(g, Len(file)))[Len(file)]
  BY DEF FileApplied
<1>2. Len(file) \in Nat /\ \A n \in 1 .. Len(file) : file[n] \in ReportedRow
  OBVIOUS
<1>3. start \in reached
  BY DEF States, Advanced
<1>4. \A S \in SUBSET reached, n \in 1 .. Len(file) : More(S, n) \subseteq reached
  <2> SUFFICES ASSUME NEW S \in SUBSET reached, NEW n \in 1 .. Len(file),
                      NEW s \in S, NEW t \in ReportRow(s, file[n])
               PROVE  t \in reached
    OBVIOUS
  <2>1. s \in States /\ Advanced(machine, visits, s.machine, s.visits)
    OBVIOUS
  <2>2. file[n] \in ReportedRow
    BY <1>2
  <2>3. t \in States /\ Advanced(s.machine, s.visits, t.machine, t.visits)
    BY <2>1, <2>2, ReportRowIs
  <2> QED
    BY <2>1, <2>3, AdvancedTwice
<1> HIDE DEF start, More, reached
<1>5. \A n \in Nat : \E g : Runs(g, n)
  <2> DEFINE bad == {n \in Nat : ~ \E g : Runs(g, n)}
  <2> SUFFICES ASSUME bad # {}
               PROVE  FALSE
    OBVIOUS
  <2>1. bad \subseteq Nat
    OBVIOUS
  <2>2. PICK n \in bad : \A k \in bad : n <= k
    BY <2>1, LeastNat
  <2>3. CASE n = 0
    <3> DEFINE g == [k \in 0 .. n |-> {start}]
    <3>1. Runs(g, n)
      BY <2>3
    <3> HIDE DEF g, Runs
    <3>2. ~ Runs(g, n)
      BY <2>2
    <3> QED
      BY <3>1, <3>2
  <2>4. CASE n # 0
    <3>1. n \in Nat /\ n - 1 \in Nat /\ n - 1 \notin bad
      <4> HIDE DEF bad
      <4> QED
        BY <2>1, <2>2, <2>4
    <3>2. PICK g : Runs(g, n - 1)
      <4> HIDE DEF Runs
      <4> QED
        BY <3>1
    <3> DEFINE h == [k \in 0 .. n |-> IF k = n THEN More(g[n - 1], n) ELSE g[k]]
    <3>3. ASSUME NEW k \in 0 .. n
          PROVE  h[k] = IF k = 0 THEN {start} ELSE More(h[k - 1], k)
      <4>1. CASE k = n
        <5>1. h[n] = More(g[n - 1], n) /\ h[n - 1] = g[n - 1]
          BY <3>1, <2>4
        <5> QED
          BY <4>1, <5>1, <2>4
      <4>2. CASE k # n
        <5>1. k \in 0 .. n - 1
          BY <3>1, <4>2
        <5>2. g[k] = IF k = 0 THEN {start} ELSE More(g[k - 1], k)
          BY <3>2, <5>1
        <5>3. h[k] = g[k] /\ (k # 0 => h[k - 1] = g[k - 1])
          BY <3>1, <4>2, <5>1
        <5> QED
          BY <5>2, <5>3
      <4> QED
        BY <4>1, <4>2
    <3>4. h = [k \in 0 .. n |-> h[k]]
      OBVIOUS
    <3> HIDE DEF h
    <3>5. h = [k \in 0 .. n |-> IF k = 0 THEN {start} ELSE More(h[k - 1], k)]
      BY <3>3, <3>4
    <3>6. Runs(h, n)
      BY <3>5
    <3> HIDE DEF Runs
    <3> QED
      BY <2>2, <3>6
  <2> QED
    BY <2>3, <2>4
<1>6. PICK g : Runs(g, Len(file)) /\ FileApplied(file) = g[Len(file)]
  BY <1>1, <1>2, <1>5
<1>7. \A k \in 0 .. Len(file) : g[k] = IF k = 0 THEN {start} ELSE More(g[k - 1], k)
  BY <1>6
<1>8. \A k \in 0 .. Len(file) : g[k] \subseteq reached
  <2> DEFINE bad == {k \in 0 .. Len(file) : ~(g[k] \subseteq reached)}
  <2> SUFFICES ASSUME bad # {}
               PROVE  FALSE
    OBVIOUS
  <2>1. bad \subseteq Nat
    BY <1>2
  <2>2. PICK k \in bad : \A i \in bad : k <= i
    BY <2>1, LeastNat
  <2>3. k \in 0 .. Len(file) /\ k # 0
    BY <1>3, <1>7, <2>2
  <2>4. k - 1 \in 0 .. Len(file) /\ k - 1 \notin bad /\ k \in 1 .. Len(file)
    BY <1>2, <2>2, <2>3
  <2>5. g[k - 1] \in SUBSET reached /\ g[k] = More(g[k - 1], k)
    BY <1>7, <2>3, <2>4
  <2>6. g[k] \subseteq reached
    BY <1>4, <2>4, <2>5
  <2> QED
    BY <2>2, <2>6
<1>9. state \in reached
  BY <1>2, <1>6, <1>8
<1> QED
  BY <1>9 DEF reached

-----------------------------------------------------------------------------
(* Types *)

\* The file of an import under way was parsed.
FileInv == \A r \in Workers : req[r].op = "apply" => job[req[r].job].file \in Files

TypeInv == TypeOK /\ JobInv /\ FileInv

LEMMA OpShapes ==
    ASSUME NEW q \in Request
    PROVE  /\ q.op = "idle" => q = Idle
           /\ q.op = "visit" => q \in [op: {"visit"}, action: DOMAIN StatusAfter \cup {"update"},
                                       id: Nat, row: Visit, held: MachineRow]
           /\ q.op \in {"claim", "create"} =>
                q \in [op: {"claim", "create"}, machine: Machines, held: MachineRow,
                       who: Staff \cup {"auto"}]
           /\ q.op = "check" => q \in [op: {"check"}, rows: [Machines -> MachineRow],
                                       todo: SUBSET Machines, day: Nat]
           /\ q.op \in JobSteps => q \in OnIt
           /\ q.op \in {"idle", "visit", "claim", "create", "check"} \cup JobSteps
<1>1. CASE q \in [op: {"idle"}]
  BY <1>1 DEF JobSteps, Idle
<1>2. CASE q \in [op: {"visit"}, action: DOMAIN StatusAfter \cup {"update"}, id: Nat,
                  row: Visit, held: MachineRow]
  BY <1>2 DEF JobSteps
<1>3. CASE q \in [op: {"claim", "create"}, machine: Machines, held: MachineRow,
                  who: Staff \cup {"auto"}]
  BY <1>3 DEF JobSteps
<1>4. CASE q \in [op: {"check"}, rows: [Machines -> MachineRow], todo: SUBSET Machines, day: Nat]
  BY <1>4 DEF JobSteps
<1>5. CASE q \in OnIt
  BY <1>5 DEF OnIt, JobSteps
<1> QED
  BY <1>1, <1>2, <1>3, <1>4, <1>5 DEF Request, OnIt, JobSteps

\* What a worker may be given to do.
LEMMA IsRequest ==
    /\ Idle \in Request
    /\ \A action \in DOMAIN StatusAfter \cup {"update"}, id \in Nat, row \in Visit, held \in MachineRow :
         [op |-> "visit", action |-> action, id |-> id, row |-> row, held |-> held] \in Request
    /\ \A m \in Machines, held \in MachineRow, who \in Staff \cup {"auto"}, op \in {"claim", "create"} :
         [op |-> op, machine |-> m, held |-> held, who |-> who] \in Request
    /\ \A rows \in [Machines -> MachineRow], todo \in SUBSET Machines, day \in Nat :
         [op |-> "check", rows |-> rows, day |-> day, todo |-> todo] \in Request
    /\ OnIt \subseteq Request
<1>1. Idle \in Request
  BY DEF Request, Idle
<1>2. ASSUME NEW action \in DOMAIN StatusAfter \cup {"update"}, NEW id \in Nat, NEW row \in Visit,
             NEW held \in MachineRow
      PROVE  [op |-> "visit", action |-> action, id |-> id, row |-> row, held |-> held] \in Request
  BY DEF Request
<1>3. ASSUME NEW m \in Machines, NEW held \in MachineRow, NEW who \in Staff \cup {"auto"},
             NEW op \in {"claim", "create"}
      PROVE  [op |-> op, machine |-> m, held |-> held, who |-> who] \in Request
  BY DEF Request
<1>4. ASSUME NEW rows \in [Machines -> MachineRow], NEW todo \in SUBSET Machines, NEW day \in Nat
      PROVE  [op |-> "check", rows |-> rows, day |-> day, todo |-> todo] \in Request
  BY DEF Request
<1>5. OnIt \subseteq Request
  BY DEF Request, OnIt, JobSteps
<1> QED
  BY <1>1, <1>2, <1>3, <1>4, <1>5

LEMMA TypeInit == Init => TypeInv
<1> SUFFICES ASSUME Init
             PROVE  TypeInv
  OBVIOUS
<1>1. machine \in [Machines -> MachineRow]
  BY DEF Init, MachineRow, MachineStatus, NewMachine, Absent
<1>2. visits \in Seq(Visit)
  BY DEF Init
<1>6. /\ hired \subseteq Staff /\ overlapped \in BOOLEAN /\ crashes \in Nat
      /\ escaped \subseteq Jobs /\ requests \in Nat
  BY DEF Init
<1>3. today \in 1 .. MaxDay
  BY BoundAssumption DEF Init
<1>4. job \in [Jobs -> Job]
  BY DEF Init, Job
<1>5. req \in [Workers -> Request] /\ FileInv
  BY IsRequest DEF Init, FileInv, Idle
<1> QED
  BY <1>1, <1>2, <1>3, <1>4, <1>5, <1>6, JobInit DEF TypeInv, TypeOK

\* The types of the jobs come with JobInv, and each action has its own reason
\* for the rest.
LEMMA JobTypeStep == ASSUME TypeInv, [Next]_vars PROVE job' \in [Jobs -> Job] /\ JobInv'
BY JobStep DEF TypeInv, JobInv, JobType, Job

Rest == <<today, hired, escaped, crashes>>

LEMMA RestTypeStep ==
    ASSUME TypeInv, [Next]_vars
    PROVE  today' \in 1 .. MaxDay /\ hired' \subseteq Staff /\ crashes' \in Nat
             /\ overlapped' \in BOOLEAN /\ escaped' \subseteq Jobs /\ requests' \in Nat
<1> USE DEF TypeInv, TypeOK
<1>1. /\ today \in 1 .. MaxDay /\ hired \subseteq Staff /\ crashes \in Nat
      /\ overlapped \in BOOLEAN /\ MaxDay \in Nat
      /\ escaped \subseteq Jobs /\ requests \in Nat
  BY BoundAssumption
<1> HIDE DEF TypeInv, TypeOK
<1>2. CASE UNCHANGED vars
  BY <1>1, <1>2 DEF vars
<1>3. ASSUME NEW r \in Workers,
             \/ \E id, action : LoadVisit(r, id, action)
             \/ \E m, who : LoadClaim(r, m, who)
             \/ LoadChecks(r)
             \/ \E j \in Jobs : BeginImport(r, j)
      PROVE  /\ UNCHANGED Rest /\ overlapped' \in BOOLEAN /\ requests' \in Nat
  <2>1. UNCHANGED Rest
    BY <1>3 DEF LoadVisit, LoadClaim, LoadChecks, BeginImport, Rest
  <2>2. overlapped' = (overlapped \/ \E o \in Workers \ {r} : req[o] # Idle)
    BY <1>3 DEF LoadVisit, LoadClaim, LoadChecks, BeginImport, Begin
  <2>3. overlapped' \in BOOLEAN
    BY Zenon, <1>1, <2>2
  <2>4. requests' = requests \/ requests' = requests + 1
    BY <1>3 DEF LoadVisit, LoadClaim, LoadChecks, BeginImport, Asked
  <2> QED
    BY <1>1, <2>1, <2>3, <2>4
<1>9. ASSUME NEW r \in Workers, Raise(r)
      PROVE  UNCHANGED <<today, hired, overlapped, requests, crashes>> /\ escaped' \subseteq Jobs
  <2>1. req[r] \in Request /\ req[r].op \in JobSteps
    BY <1>9 DEF Raise, Serving, TypeInv, TypeOK, JobSteps
  <2>2. req[r] \in OnIt
    BY <2>1, OpShapes
  <2>3. req[r].job \in Jobs
    BY <2>2 DEF OnIt
  <2> QED
    BY <1>1, <1>9, <2>3 DEF Raise
<1>4. ASSUME NEW r \in Workers, Work(r) \/ Crash(r), ~Raise(r)
      PROVE  /\ UNCHANGED <<today, hired, overlapped, escaped, requests>> /\ crashes' \in Nat
  BY <1>1, <1>4 DEF Work, CommitVisit, ClaimFind, ClaimCreate, CheckNext, EndChecks, Apply,
                    Finalize, Tell, Crash
<1>5. ASSUME NEW j \in Jobs, NEW file \in Files \cup {Invalid, Broken}, Queue(j, file)
      PROVE  /\ UNCHANGED <<today, hired, overlapped, escaped, requests>> /\ crashes' \in Nat
  BY <1>1, <1>5 DEF Queue
<1>6. ASSUME NEW w \in Staff, Hire(w)
      PROVE  UNCHANGED <<today, overlapped, escaped, requests, crashes>> /\ hired' \subseteq Staff
  BY <1>1, <1>6 DEF Hire
<1>7. ASSUME Tomorrow
      PROVE  UNCHANGED <<hired, overlapped, escaped, requests, crashes>> /\ today' \in 1 .. MaxDay
  BY <1>1, <1>7 DEF Tomorrow
<1>8. Workers = Web \cup Celery
  BY DEF Workers
<1> QED
  BY <1>1, <1>2, <1>3, <1>4, <1>5, <1>6, <1>7, <1>8, <1>9 DEF Next, Rest

\* A visit that is being worked on was loaded with a status that its action may
\* follow.
Allows(q) == q.action # "update" => StatusAfter[q.action] \in RepairAllowed[q.row.status]

HeldInv ==
    \A r \in Workers : req[r].op = "visit" => /\ r \in Web /\ req[r].id \in DOMAIN visits
                                              /\ Allows(req[r])

Current(row, day) == InService(row, day) /\ InWarning(row, day) /\ InError(row, day)

\* acknowledge_, start_, block_, complete_, close_repair_assignment and
\* add_repair_assignment_note save a visit and, some of them, its machine.
LEMMA CommitVisitIs ==
    ASSUME TypeInv, HeldInv, NEW r \in Workers, CommitVisit(r)
    PROVE  LET q == req[r] IN
           /\ req' = [req EXCEPT ![r] = Idle] /\ UNCHANGED overlapped
           /\ q.id \in DOMAIN visits /\ q.row \in Visit
           /\ machine' \in [Machines -> MachineRow] /\ visits' \in Seq(Visit)
           /\ DOMAIN visits' = DOMAIN visits
           /\ \A i \in DOMAIN visits : i # q.id => visits'[i] = visits[i]
           /\ visits'[q.id].machine = q.row.machine
           /\ visits'[q.id].status \in Open => q.row.status \in Open
           /\ \A m \in Machines : m # q.row.machine => machine'[m] = machine[m]
           /\ \/ machine' = machine
                   /\ (q.row.status \in Open => visits'[q.id].status \in Open)
              \/ machine'[q.row.machine].status \in {"repair-start", "normal"}
<1> DEFINE q == req[r]
           m == q.row.machine
           new == IF q.action = "update" THEN q.row
                  ELSE [q.row EXCEPT !.status = StatusAfter[q.action]]
<1>1. /\ machine \in [Machines -> MachineRow] /\ visits \in Seq(Visit) /\ today \in Nat
      /\ q \in [op: {"visit"}, action: DOMAIN StatusAfter \cup {"update"}, id: Nat, row: Visit,
                held: MachineRow]
      /\ q.id \in DOMAIN visits /\ Allows(q)
  <2>1. q \in Request /\ q.op = "visit"
    BY DEF CommitVisit, Serving, TypeInv, TypeOK
  <2>2. today \in Nat
    BY BoundAssumption DEF TypeInv, TypeOK
  <2> QED
    BY <2>1, <2>2, OpShapes DEF TypeInv, TypeOK, HeldInv
<1>2. /\ visits' = [visits EXCEPT ![q.id] = new]
      /\ machine' = IF q.action \in {"start", "complete"}
                    THEN [machine EXCEPT ![m] = RepairReport(q.action, q.held)]
                    ELSE machine
      /\ req' = [req EXCEPT ![r] = Idle] /\ UNCHANGED overlapped
  BY DEF CommitVisit, Done
<1>3. /\ q.action \in {"acknowledge", "start", "block", "complete", "close", "update"}
      /\ q.row \in Visit /\ m \in Machines /\ q.held \in MachineRow
  BY <1>1 DEF StatusAfter, Visit
<1>4. /\ new \in Visit /\ new.machine = m
      /\ new.status \in Open => q.row.status \in Open
      /\ q.row.status \in Open => new.status \in Open \/ q.action = "complete"
  <2>1. CASE q.action = "update"
    BY <1>3, <2>1
  <2>2. CASE q.action # "update"
    <3>1. StatusAfter[q.action] \in RepairAllowed[q.row.status] /\ q.row.status \in RepairStatus
      BY <1>1, <1>3, <2>2 DEF Allows, Visit
    <3>2. /\ new.status = StatusAfter[q.action] /\ new.machine = m
          /\ StatusAfter[q.action] \in RepairStatus \ {"none"} => new \in Visit
      BY <1>3, <2>2 DEF Visit
    <3>3. /\ StatusAfter[q.action] \in RepairStatus \ {"none"}
          /\ StatusAfter[q.action] \in Open => q.row.status \in Open
          /\ q.row.status \in Open => StatusAfter[q.action] \in Open \/ q.action = "complete"
      BY <1>3, <2>2, <3>1 DEF StatusAfter, RepairAllowed, RepairStatus, Open
    <3> QED
      BY <3>2, <3>3
  <2> QED
    BY <2>1, <2>2
<1>5. /\ RepairReport("start", q.held) \in MachineRow
      /\ RepairReport("start", q.held).status = "repair-start"
      /\ RepairReport("complete", q.held) \in MachineRow
      /\ RepairReport("complete", q.held).status = "normal"
  <2>1. {"repair-start", "repair-end", "normal"} \subseteq MachineStatus /\ today \in Int
    BY <1>1 DEF MachineStatus
  <2>2. Marked(q.held, "repair-end", today) \in MachineRow
    BY <1>3, <2>1, MarkedRow
  <2>3. /\ Marked(q.held, "repair-start", today) \in MachineRow
        /\ Marked(q.held, "repair-start", today).status = "repair-start"
    BY <1>3, <2>1, MarkedRow
  <2>4. /\ Marked(Marked(q.held, "repair-end", today), "normal", today) \in MachineRow
        /\ Marked(Marked(q.held, "repair-end", today), "normal", today).status = "normal"
    BY <2>1, <2>2, MarkedRow
  <2> QED
    BY <2>3, <2>4 DEF RepairReport
<1> HIDE DEF new, m, q
<1>6. /\ visits' \in Seq(Visit) /\ DOMAIN visits' = DOMAIN visits
      /\ \A i \in DOMAIN visits : i # q.id => visits'[i] = visits[i]
      /\ visits'[q.id] = new
  BY <1>1, <1>2, <1>4
<1>7. CASE q.action \in {"start", "complete"}
  <2>1. PICK row \in MachineRow : /\ row.status \in {"repair-start", "normal"}
                                  /\ machine' = [machine EXCEPT ![m] = row]
    BY <1>2, <1>5, <1>7
  <2>2. /\ machine' \in [Machines -> MachineRow] /\ machine'[m] = row
        /\ \A o \in Machines : o # m => machine'[o] = machine[o]
    BY <1>1, <1>3, <2>1
  <2> QED
    BY <1>1, <1>2, <1>3, <1>4, <1>6, <2>1, <2>2 DEF q, m
<1>8. CASE q.action \notin {"start", "complete"}
  <2>1. machine' = machine
    BY <1>2, <1>8
  <2> QED
    BY <1>1, <1>2, <1>3, <1>4, <1>6, <1>8, <2>1 DEF q, m
<1> QED
  BY <1>7, <1>8

\* ensure_repair_assignment, its second half.
LEMMA ClaimCreateIs ==
    ASSUME TypeInv, NEW r \in Workers, ClaimCreate(r)
    PROVE  LET m == req[r].machine IN
           /\ req' = [req EXCEPT ![r] = Idle] /\ UNCHANGED <<machine, overlapped>>
           /\ m \in Machines
           /\ visits' = visits \/ \E v \in Scheduled(m) : visits' = Append(visits, v)
<1> DEFINE q == req[r]
<1>1. q \in [op: {"claim", "create"}, machine: Machines, held: MachineRow, who: Staff \cup {"auto"}]
  <2>1. q \in Request /\ q.op = "create"
    BY DEF ClaimCreate, Serving, TypeInv, TypeOK
  <2> QED
    BY <2>1, OpShapes
<1>2. /\ visits' \in Assigned(visits, q.machine, q.who)
      /\ req' = [req EXCEPT ![r] = Idle] /\ UNCHANGED <<machine, overlapped>>
  BY DEF ClaimCreate, Done
<1>3. q.machine \in Machines /\ q.who \in Staff \cup {"auto"}
  BY <1>1
<1>4. visits' = visits \/ \E v \in Scheduled(q.machine) : visits' = Append(visits, v)
  BY <1>2, <1>3, AssignedAppends DEF TypeInv, TypeOK
<1> QED
  BY <1>2, <1>3, <1>4

\* One machine of run_maintenance_policy_checks.
LEMMA CheckNextIs ==
    ASSUME TypeInv, NEW r \in Workers, CheckNext(r)
    PROVE  \E m \in req[r].todo :
             /\ req' = [req EXCEPT ![r].todo = @ \ {m}] /\ UNCHANGED overlapped
             /\ machine' \in [Machines -> MachineRow] /\ visits' \in Seq(Visit)
             /\ Advanced(machine, visits, machine', visits')
             /\ \A o \in Machines : o # m => machine'[o] = machine[o]
             /\ req[r].rows[m] = machine[m] => Current(machine'[m], req[r].day)
<1> DEFINE q == req[r]
<1>1. q \in [op: {"check"}, rows: [Machines -> MachineRow], todo: SUBSET Machines, day: Nat]
  <2>1. q \in Request /\ q.op = "check"
    BY DEF CheckNext, Serving, TypeInv, TypeOK
  <2> QED
    BY <2>1, OpShapes
<1> DEFINE Left(m, pair) == /\ visits' = pair.visits
                            /\ machine' = IF pair.row = q.rows[m] THEN machine
                                          ELSE [machine EXCEPT ![m] = pair.row]
<1>2. PICK m \in q.todo :
         /\ \E pair \in Evaluated([row |-> q.rows[m], visits |-> visits], m, q.day) : Left(m, pair)
         /\ req' = [req EXCEPT ![r].todo = @ \ {m}]
         /\ UNCHANGED overlapped
  BY DEF CheckNext
<1>3. PICK pair \in Evaluated([row |-> q.rows[m], visits |-> visits], m, q.day) : Left(m, pair)
  BY <1>2
<1>4. /\ m \in Machines /\ q.rows[m] \in MachineRow /\ q.day \in Int
      /\ machine \in [Machines -> MachineRow] /\ visits \in Seq(Visit) /\ hired \subseteq Staff
  BY <1>1, <1>3 DEF TypeInv, TypeOK
<1> DEFINE base == [row |-> q.rows[m], visits |-> visits]
<1>5. base \in Pair /\ base.row = q.rows[m] /\ base.visits = visits
  BY <1>4 DEF Pair
<1> HIDE DEF base
<1>6. Careful(base, pair, m) /\ Current(pair.row, q.day)
  BY <1>3, <1>4, <1>5, EvaluatedIs DEF base, Current
<1>7. /\ pair.row \in MachineRow /\ Grown(visits, visits', m)
      /\ pair.row = q.rows[m] \/ Crewed(pair.row, visits', m)
  BY <1>3, <1>5, <1>6 DEF Careful, Pair
<1> DEFINE row == IF pair.row = q.rows[m] THEN machine[m] ELSE pair.row
<1>8. /\ row \in MachineRow /\ machine' = [machine EXCEPT ![m] = row]
      /\ row = machine[m] \/ Crewed(row, visits', m)
      /\ q.rows[m] = machine[m] => row = pair.row
  BY <1>3, <1>4, <1>7
<1> HIDE DEF row
<1>9. /\ [machine EXCEPT ![m] = row] \in [Machines -> MachineRow] /\ visits' \in Seq(Visit)
      /\ Advanced(machine, visits, [machine EXCEPT ![m] = row], visits')
  BY <1>4, <1>7, <1>8, GrownAdvances
<1>10. machine'[m] = row /\ \A o \in Machines : o # m => machine'[o] = machine[o]
  BY <1>4, <1>8
<1>11. req[r].rows[m] = machine[m] => Current(machine'[m], req[r].day)
  BY <1>6, <1>8, <1>10
<1> QED
  BY <1>2, <1>8, <1>9, <1>10, <1>11

\* The transaction of an import.
LEMMA ApplyIs ==
    ASSUME TypeInv, NEW r \in Workers, Apply(r)
    PROVE  /\ \E v \in Request : req' = [req EXCEPT ![r] = v] /\ v.op = "succeed"
           /\ UNCHANGED overlapped
           /\ machine' \in [Machines -> MachineRow] /\ visits' \in Seq(Visit)
           /\ Advanced(machine, visits, machine', visits')
<1>1. PICK state \in FileApplied(job[req[r].job].file) :
        machine' = state.machine /\ visits' = state.visits
  BY DEF Apply
<1>2. job[req[r].job].file \in Seq(ReportedRow)
  BY FileAssumption DEF Apply, Serving, TypeInv, FileInv
<1>3. state \in States /\ Advanced(machine, visits, state.machine, state.visits)
  BY <1>1, <1>2, FileAppliedIs DEF TypeInv, TypeOK
<1> DEFINE v == [op |-> "succeed", job |-> req[r].job, missing |-> {}]
<1>4. req' = [req EXCEPT ![r] = v] /\ v.op = "succeed" /\ v \in Request
  <2>1. req[r] \in Request /\ req[r].op = "apply"
    BY DEF Apply, Serving, TypeInv, TypeOK
  <2>2. req[r].job \in Jobs
    BY <2>1, OpShapes DEF OnIt, JobSteps
  <2>3. v \in OnIt
    BY <2>2 DEF OnIt, JobSteps
  <2> QED
    BY <2>3, IsRequest DEF Apply
<1> QED
  BY <1>1, <1>3, <1>4 DEF States, Apply

-----------------------------------------------------------------------------
(* Steps *)

Loads(r) ==
    \/ r \in Web /\ \E id \in DOMAIN visits, action \in DOMAIN StatusAfter \cup {"update"} :
                      LoadVisit(r, id, action)
    \/ r \in Web /\ \E m \in Machines, who \in Staff \cup {"auto"} : LoadClaim(r, m, who)
    \/ r \in Web /\ LoadChecks(r)
    \/ \E j \in Jobs : BeginImport(r, j)

\* What a worker sets out with.
Loaded(r, v) ==
    /\ v.op \in {"visit", "claim", "check", "apply", "raise", "fail"}
    /\ v.op = "visit" => /\ r \in Web /\ v.id \in DOMAIN visits /\ v.row = visits[v.id]
                         /\ Allows(v)
    /\ v.op = "check" => v.rows = machine /\ v.todo = {m \in Machines : machine[m] # Absent}

LEMMA LoadsAre ==
    ASSUME TypeInv, NEW r \in Workers, Loads(r)
    PROVE  /\ UNCHANGED <<machine, visits, hired>>
           /\ req[r] = Idle
           /\ overlapped' = (overlapped \/ \E o \in Workers \ {r} : req[o] # Idle)
           /\ \E v \in Request : req' = [req EXCEPT ![r] = v] /\ Loaded(r, v)
<1>1. /\ UNCHANGED <<machine, visits, hired>>
      /\ req[r].op = "idle"
      /\ overlapped' = (overlapped \/ \E o \in Workers \ {r} : req[o] # Idle)
  BY DEF Loads, LoadVisit, LoadClaim, LoadChecks, BeginImport, Begin, Serving
<1>2. req[r] = Idle
  <2>1. req[r] \in Request
    BY DEF TypeInv, TypeOK
  <2> QED
    BY <1>1, <2>1, OpShapes
<1>3. machine \in [Machines -> MachineRow] /\ visits \in Seq(Visit)
  BY DEF TypeInv, TypeOK
<1>4. ASSUME r \in Web, NEW id \in DOMAIN visits, NEW action \in DOMAIN StatusAfter \cup {"update"},
             LoadVisit(r, id, action)
      PROVE  \E v \in Request : req' = [req EXCEPT ![r] = v] /\ Loaded(r, v)
  <2> DEFINE v == [op |-> "visit", action |-> action, id |-> id, row |-> visits[id],
                   held |-> machine[visits[id].machine]]
  <2>1. req' = [req EXCEPT ![r] = v]
    BY <1>4 DEF LoadVisit, Begin
  <2>2. id \in Nat /\ visits[id] \in Visit /\ visits[id].machine \in Machines
    <3>1. id \in Nat /\ visits[id] \in Visit
      BY <1>3
    <3> QED
      BY <3>1 DEF Visit
  <2>3. v \in Request
    BY <1>3, <2>2, IsRequest
  <2>4. Loaded(r, v)
    BY <1>4 DEF Loaded, LoadVisit, Allows
  <2> QED
    BY <2>1, <2>3, <2>4
<1>5. ASSUME NEW m \in Machines, NEW who \in Staff \cup {"auto"}, LoadClaim(r, m, who)
      PROVE  \E v \in Request : req' = [req EXCEPT ![r] = v] /\ Loaded(r, v)
  <2> DEFINE v == [op |-> "claim", machine |-> m, held |-> machine[m], who |-> who]
  <2>1. req' = [req EXCEPT ![r] = v]
    BY <1>5 DEF LoadClaim, Begin
  <2>2. v \in Request
    BY <1>3, IsRequest
  <2>3. Loaded(r, v)
    BY DEF Loaded
  <2> QED
    BY <2>1, <2>2, <2>3
<1>6. ASSUME LoadChecks(r)
      PROVE  \E v \in Request : req' = [req EXCEPT ![r] = v] /\ Loaded(r, v)
  <2> DEFINE todo == {m \in Machines : machine[m] # Absent}
             v == [op |-> "check", rows |-> machine, day |-> today, todo |-> todo]
  <2>1. req' = [req EXCEPT ![r] = v]
    BY <1>6 DEF LoadChecks, Begin
  <2>2. today \in Nat
    BY BoundAssumption DEF TypeInv, TypeOK
  <2>3. v \in Request
    <3>1. todo \in SUBSET Machines
      OBVIOUS
    <3> HIDE DEF todo
    <3> QED
      BY <1>3, <2>2, <3>1, IsRequest
  <2>4. Loaded(r, v)
    BY DEF Loaded
  <2> QED
    BY <2>1, <2>3, <2>4
<1>7. ASSUME NEW j \in Jobs, BeginImport(r, j)
      PROVE  \E v \in Request : req' = [req EXCEPT ![r] = v] /\ Loaded(r, v)
  <2>1. req' = [req EXCEPT ![r] = AfterParse(j)]
    BY <1>7 DEF BeginImport, Begin
  <2>2. AfterParse(j) \in Request /\ AfterParse(j).op \in {"apply", "raise", "fail"}
    BY AfterParseIs, IsRequest
  <2>3. Loaded(r, AfterParse(j))
    BY <2>2 DEF Loaded
  <2> QED
    BY <2>1, <2>2, <2>3
<1> QED
  BY <1>1, <1>2, <1>4, <1>5, <1>6, <1>7 DEF Loads

\* A worker goes on, or stops, with the rows of the database left alone.
Goes(r, v) ==
    /\ req[r].op # "idle"
    /\ req' = [req EXCEPT ![r] = v]
    /\ UNCHANGED <<machine, visits, overlapped>>

LEMMA GoesOn ==
    ASSUME TypeInv, NEW r \in Workers,
           \/ ClaimFind(r) \/ EndChecks(r) \/ Raise(r) \/ Tell(r) \/ Crash(r)
           \/ Finalize(r, "succeed", "succeeded") \/ Finalize(r, "fail", "failed")
    PROVE  \E v \in Request :
             /\ Goes(r, v)
             /\ v.op \in {"idle", "create", "tell"}
             /\ v.op = "create" => OpenVisits(visits, v.machine) = {}
<1>1. req[r] \in Request
  BY DEF TypeInv, TypeOK
<1>2. CASE EndChecks(r) \/ Raise(r) \/ Tell(r) \/ Crash(r)
  <2>1. req[r].op # "idle"
    BY <1>1, <1>2, OpShapes DEF EndChecks, Raise, Tell, Crash, Serving
  <2>2. Goes(r, Idle)
    BY <1>2, <2>1 DEF EndChecks, Raise, Tell, Crash, Done, Goes
  <2> QED
    BY <2>2, IsRequest DEF Idle
<1>3. CASE Finalize(r, "succeed", "succeeded") \/ Finalize(r, "fail", "failed")
  <2>1. req[r].op \in {"succeed", "fail"} /\ req' = [req EXCEPT ![r].op = "tell"]
    BY <1>3 DEF Finalize, Serving
  <2>2. req[r] \in OnIt
    BY <1>1, <2>1, OpShapes DEF JobSteps
  <2> DEFINE v == [op |-> "tell", job |-> req[r].job, missing |-> req[r].missing]
  <2>3. v = [req[r] EXCEPT !.op = "tell"] /\ v \in Request
    BY <2>2, IsRequest, NextOp DEF JobSteps
  <2>4. Goes(r, v)
    BY <1>3, <2>1, <2>3 DEF Finalize, Goes
  <2> QED
    BY <2>3, <2>4
<1>4. CASE ClaimFind(r)
  <2>1. req[r].op = "claim" /\ UNCHANGED <<machine, visits, overlapped>>
    BY <1>4 DEF ClaimFind, Serving
  <2>2. req[r] \in [op: {"claim", "create"}, machine: Machines, held: MachineRow,
                    who: Staff \cup {"auto"}]
    BY <1>1, <2>1, OpShapes
  <2>3. CASE req' = [req EXCEPT ![r] = Idle]
    BY <2>1, <2>3, IsRequest DEF Goes, Idle
  <2>4. CASE req' = [req EXCEPT ![r].op = "create"] /\ OpenVisits(visits, req[r].machine) = {}
    <3> DEFINE v == [op |-> "create", machine |-> req[r].machine, held |-> req[r].held,
                     who |-> req[r].who]
    <3>1. v = [req[r] EXCEPT !.op = "create"]
      BY <2>2
    <3>2. v \in Request
      BY <2>2, IsRequest
    <3>3. Goes(r, v)
      BY <2>1, <2>4, <3>1 DEF Goes
    <3> QED
      BY <2>4, <3>2, <3>3
  <2> QED
    BY <1>4, <2>3, <2>4 DEF ClaimFind, Done
<1> QED
  BY <1>2, <1>3, <1>4

\* The actions, as the proofs below tell them apart.
LEMMA StepKinds ==
    ASSUME [Next]_vars
    PROVE  \/ UNCHANGED <<machine, visits, req, overlapped>>
           \/ \E r \in Workers :
                \/ Loads(r)
                \/ CommitVisit(r) \/ ClaimCreate(r) \/ CheckNext(r) \/ Apply(r)
                \/ ClaimFind(r) \/ EndChecks(r) \/ Raise(r) \/ Tell(r) \/ Crash(r)
                \/ Finalize(r, "succeed", "succeeded") \/ Finalize(r, "fail", "failed")
<1>1. CASE UNCHANGED vars \/ Tomorrow \/ (\E w \in Staff : Hire(w))
  BY <1>1 DEF vars, Tomorrow, Hire
<1>5. CASE \E j \in Jobs, file \in Files \cup {Invalid, Broken} : Queue(j, file)
  BY <1>5 DEF Queue
<1>2. CASE \E r \in Web : Loads(r)
  BY <1>2 DEF Workers
<1>3. CASE \E r \in Celery : Loads(r)
  BY <1>3 DEF Workers
<1>4. CASE \E r \in Workers : Work(r) \/ Crash(r)
  BY <1>4 DEF Work
<1> QED
  BY <1>1, <1>2, <1>3, <1>4, <1>5 DEF Next, Loads

\* The rows of the database keep their types, and visits are never deleted.
LEMMA RowsStep ==
    ASSUME TypeInv, HeldInv, [Next]_vars
    PROVE  /\ machine' \in [Machines -> MachineRow] /\ visits' \in Seq(Visit)
           /\ DOMAIN visits \subseteq DOMAIN visits'
<1>1. machine \in [Machines -> MachineRow] /\ visits \in Seq(Visit)
  BY DEF TypeInv, TypeOK
<1>2. ASSUME NEW r \in Workers, CommitVisit(r)
      PROVE  /\ machine' \in [Machines -> MachineRow] /\ visits' \in Seq(Visit)
             /\ DOMAIN visits \subseteq DOMAIN visits'
  BY <1>2, CommitVisitIs
<1>3. ASSUME NEW r \in Workers, ClaimCreate(r)
      PROVE  /\ machine' \in [Machines -> MachineRow] /\ visits' \in Seq(Visit)
             /\ DOMAIN visits \subseteq DOMAIN visits'
  <2>1. /\ machine' = machine /\ req[r].machine \in Machines
        /\ visits' = visits \/ \E v \in Scheduled(req[r].machine) : visits' = Append(visits, v)
    BY <1>3, ClaimCreateIs
  <2>2. ASSUME NEW m \in Machines, NEW v \in Scheduled(m), visits' = Append(visits, v)
        PROVE  visits' \in Seq(Visit) /\ DOMAIN visits \subseteq DOMAIN visits'
    <3>1. /\ Append(visits, v) \in Seq(Visit)
          /\ \A i \in DOMAIN visits : i \in DOMAIN Append(visits, v)
      BY <1>1, AppendVisit
    <3> QED
      BY <2>2, <3>1
  <2> QED
    BY <1>1, <2>1, <2>2
<1>4. ASSUME NEW r \in Workers, CheckNext(r)
      PROVE  /\ machine' \in [Machines -> MachineRow] /\ visits' \in Seq(Visit)
             /\ DOMAIN visits \subseteq DOMAIN visits'
  BY <1>4, CheckNextIs DEF Advanced
<1>5. ASSUME NEW r \in Workers, Apply(r)
      PROVE  /\ machine' \in [Machines -> MachineRow] /\ visits' \in Seq(Visit)
             /\ DOMAIN visits \subseteq DOMAIN visits'
  BY <1>5, ApplyIs DEF Advanced
<1>6. ASSUME NEW r \in Workers,
             \/ Loads(r)
             \/ ClaimFind(r) \/ EndChecks(r) \/ Raise(r) \/ Tell(r) \/ Crash(r)
             \/ Finalize(r, "succeed", "succeeded") \/ Finalize(r, "fail", "failed")
      PROVE  UNCHANGED <<machine, visits>>
  BY <1>6, LoadsAre, GoesOn DEF Goes
<1> QED
  BY <1>1, <1>2, <1>3, <1>4, <1>5, <1>6, StepKinds

LEMMA ReqStep ==
    ASSUME TypeInv, HeldInv, [Next]_vars
    PROVE  req' \in [Workers -> Request]
<1>1. req \in [Workers -> Request]
  BY DEF TypeInv, TypeOK
<1>2. ASSUME NEW r \in Workers, CommitVisit(r) \/ ClaimCreate(r)
      PROVE  req' = [req EXCEPT ![r] = Idle] /\ Idle \in Request
  BY <1>2, CommitVisitIs, ClaimCreateIs, IsRequest
<1>3. ASSUME NEW r \in Workers, CheckNext(r)
      PROVE  \E v \in Request : req' = [req EXCEPT ![r] = v]
  <2>1. PICK m \in req[r].todo : req' = [req EXCEPT ![r].todo = @ \ {m}]
    BY <1>3, CheckNextIs
  <2>2. req[r] \in [op: {"check"}, rows: [Machines -> MachineRow], todo: SUBSET Machines, day: Nat]
    BY <1>1, <1>3, OpShapes DEF CheckNext, Serving
  <2> DEFINE v == [op |-> "check", rows |-> req[r].rows, day |-> req[r].day,
                   todo |-> req[r].todo \ {m}]
  <2>3. v = [req[r] EXCEPT !.todo = @ \ {m}]
    BY <2>2
  <2>4. v \in Request
    BY <2>2, IsRequest
  <2> QED
    BY <2>1, <2>3, <2>4
<1>4. ASSUME NEW r \in Workers, Apply(r)
      PROVE  \E v \in Request : req' = [req EXCEPT ![r] = v]
  BY <1>4, ApplyIs
<1>5. ASSUME NEW r \in Workers,
             \/ Loads(r)
             \/ ClaimFind(r) \/ EndChecks(r) \/ Raise(r) \/ Tell(r) \/ Crash(r)
             \/ Finalize(r, "succeed", "succeeded") \/ Finalize(r, "fail", "failed")
      PROVE  \E v \in Request : req' = [req EXCEPT ![r] = v]
  BY <1>5, LoadsAre, GoesOn DEF Goes
<1>6. \A r \in Workers, v \in Request : [req EXCEPT ![r] = v] \in [Workers -> Request]
  BY <1>1
<1>7. UNCHANGED req \/ \E r \in Workers, v \in Request : req' = [req EXCEPT ![r] = v]
  BY <1>2, <1>3, <1>4, <1>5, StepKinds
<1> QED
  BY <1>1, <1>6, <1>7

\* A job keeps its file from the time it is queued.
LEMMA FileStep ==
    ASSUME TypeInv, HeldInv, [Next]_vars
    PROVE  FileInv'
<1>1. ASSUME NEW j \in Jobs, job[j].status # "none"
      PROVE  job'[j].file = job[j].file
  <2>1. job \in [Jobs -> Job]
    BY DEF TypeInv, TypeOK
  <2>2. CASE UNCHANGED job
    BY <2>2
  <2>3. ASSUME NEW i \in Jobs, NEW file, Queue(i, file)
        PROVE  job'[j].file = job[j].file
    BY <1>1, <2>1, <2>3 DEF Queue, Job
  <2>4. ASSUME NEW r \in Workers, NEW i \in Jobs, BeginImport(r, i)
        PROVE  job'[j].file = job[j].file
    BY <2>1, <2>4 DEF BeginImport, Job
  <2>5. ASSUME NEW r \in Workers,
               \/ Apply(r) \/ Tell(r)
               \/ Finalize(r, "succeed", "succeeded") \/ Finalize(r, "fail", "failed")
        PROVE  job'[j].file = job[j].file
    BY <2>1, <2>5 DEF Apply, Tell, Finalize, Job
  <2>6. ASSUME NEW r \in Workers,
               \/ \E id, action : LoadVisit(r, id, action)
               \/ \E m, who : LoadClaim(r, m, who)
               \/ LoadChecks(r) \/ CommitVisit(r) \/ ClaimFind(r) \/ ClaimCreate(r)
               \/ CheckNext(r) \/ EndChecks(r) \/ Raise(r) \/ Crash(r)
        PROVE  UNCHANGED job
    BY <2>6 DEF LoadVisit, LoadClaim, LoadChecks, CommitVisit, ClaimFind, ClaimCreate,
                CheckNext, EndChecks, Raise, Crash
  <2>7. ASSUME Tomorrow \/ (\E w \in Staff : Hire(w)) \/ UNCHANGED vars
        PROVE  UNCHANGED job
    BY <2>7 DEF Tomorrow, Hire, vars
  <2> QED
    BY <2>2, <2>3, <2>4, <2>5, <2>6, <2>7 DEF Next, Work, Workers
<1>2. ASSUME NEW q \in Workers, req'[q].op = "apply", req'[q] = req[q]
      PROVE  job'[req'[q].job].file \in Files
  <2>1. req[q] \in Request /\ req[q].op = "apply"
    BY <1>2 DEF TypeInv, TypeOK
  <2>2. req[q] \in OnIt /\ req[q].job \in Jobs
    BY <2>1, OpShapes DEF JobSteps, OnIt
  <2>3. job[req[q].job].status = "processing"
    BY <2>1, <2>2 DEF TypeInv, JobInv, InHand, OnJob, JobSteps
  <2>4. job[req[q].job].file \in Files
    BY <2>1 DEF TypeInv, FileInv
  <2> QED
    BY <1>1, <1>2, <2>2, <2>3, <2>4
<1>3. ASSUME NEW q \in Workers, req'[q].op = "apply", req'[q] # req[q]
      PROVE  job'[req'[q].job].file \in Files
  <2>1. req \in [Workers -> Request] /\ job \in [Jobs -> Job]
    BY DEF TypeInv, TypeOK
  <2>2. PICK r \in Workers : \/ Loads(r)
                             \/ CommitVisit(r) \/ ClaimCreate(r) \/ CheckNext(r) \/ Apply(r)
                             \/ ClaimFind(r) \/ EndChecks(r) \/ Raise(r) \/ Tell(r) \/ Crash(r)
                             \/ Finalize(r, "succeed", "succeeded")
                             \/ Finalize(r, "fail", "failed")
    BY <1>3, StepKinds
  <2>3. CASE CommitVisit(r) \/ ClaimCreate(r)
    BY <1>3, <2>1, <2>3, CommitVisitIs, ClaimCreateIs DEF Idle
  <2>4. CASE CheckNext(r)
    <3>1. PICK m \in req[r].todo : req' = [req EXCEPT ![r].todo = @ \ {m}]
      BY <2>4, CheckNextIs
    <3>2. req[r] \in [op: {"check"}, rows: [Machines -> MachineRow], todo: SUBSET Machines, day: Nat]
      BY <2>1, <2>4, OpShapes DEF CheckNext, Serving
    <3> QED
      BY <1>3, <2>1, <3>1, <3>2
  <2>5. CASE Apply(r)
    <3>1. PICK v \in Request : req' = [req EXCEPT ![r] = v] /\ v.op = "succeed"
      BY <2>5, ApplyIs
    <3> QED
      BY <1>3, <2>1, <3>1
  <2>6. CASE \/ ClaimFind(r) \/ EndChecks(r) \/ Raise(r) \/ Tell(r) \/ Crash(r)
             \/ Finalize(r, "succeed", "succeeded") \/ Finalize(r, "fail", "failed")
    <3>1. PICK v \in Request : req' = [req EXCEPT ![r] = v] /\ v.op \in {"idle", "create", "tell"}
      BY <2>6, GoesOn DEF Goes
    <3> QED
      BY <1>3, <2>1, <3>1
  <2>7. CASE \E id, action : LoadVisit(r, id, action)
    BY <1>3, <2>1, <2>7 DEF LoadVisit, Begin
  <2>8. CASE LoadChecks(r) \/ \E m, who : LoadClaim(r, m, who)
    BY <1>3, <2>1, <2>8 DEF LoadChecks, LoadClaim, Begin
  <2>9. ASSUME NEW j \in Jobs, BeginImport(r, j)
        PROVE  job'[req'[q].job].file \in Files
    <3>1. /\ req' = [req EXCEPT ![r] = AfterParse(j)]
          /\ job[j].status # "none"
      <4>1. job[j].queued => job[j].status = "pending"
        BY DEF TypeInv, JobInv, Booked
      <4> QED
        BY <2>9, <4>1 DEF BeginImport, Begin
    <3>2. q = r /\ req'[q].job = j /\ job[j].file \notin {Invalid, Broken}
      BY <1>3, <2>1, <3>1, AfterParseIs
    <3>3. job[j].file \in Files
      BY <2>1, <3>2 DEF Job
    <3> QED
      BY <1>1, <3>1, <3>2, <3>3
  <2> QED
    BY <2>2, <2>3, <2>4, <2>5, <2>6, <2>7, <2>8, <2>9 DEF Loads
<1> QED
  BY <1>2, <1>3 DEF FileInv

LEMMA TypeStep ==
    ASSUME TypeInv, HeldInv, [Next]_vars
    PROVE  TypeInv'
BY RowsStep, ReqStep, FileStep, JobTypeStep, RestTypeStep DEF TypeInv, TypeOK

-----------------------------------------------------------------------------
(* Requests that take turns *)

Busy(r) == req[r].op # "idle"

Alone == ~overlapped => \A a, b \in Workers : Busy(a) /\ Busy(b) => a = b

\* A request saves the visit as it is, where it ran alone.
Fresh ==
    ~overlapped =>
        \A r \in Workers : req[r].op = "visit" => req[r].row = visits[req[r].id]

Found ==
    ~overlapped =>
        \A r \in Workers : req[r].op = "create" => OpenVisits(visits, req[r].machine) = {}

SingleVisits == ~overlapped => \A m \in Machines : OneOpen(visits, m)

\* A check holds the machines it has not come to as they are, and those it has
\* passed are current.
Checked(q, rows) ==
    \A m \in Machines : IF m \in q.todo THEN q.rows[m] = rows[m] ELSE Current(rows[m], q.day)

Checking == ~overlapped => \A r \in Workers : req[r].op = "check" => Checked(req[r], machine)

TurnInv == Alone /\ HeldInv /\ Fresh /\ Found /\ SingleVisits /\ Checking

LEMMA TurnInit == Init => TurnInv
<1> SUFFICES ASSUME Init
             PROVE  TurnInv
  OBVIOUS
<1>1. visits = << >> /\ \A r \in Workers : req[r].op = "idle"
  BY DEF Init, Idle
<1>2. \A m \in Machines : OneOpen(visits, m)
  BY <1>1 DEF OneOpen, OpenVisits
<1> QED
  BY <1>1, <1>2 DEF TurnInv, Alone, Busy, HeldInv, Fresh, Found, SingleVisits, Checking

\* A worker sets out.
LEMMA TurnLoads ==
    ASSUME TypeInv, TurnInv, NEW r \in Workers, Loads(r)
    PROVE  TurnInv'
<1>1. /\ UNCHANGED <<machine, visits>>
      /\ req[r] = Idle
      /\ overlapped' = (overlapped \/ \E o \in Workers \ {r} : req[o] # Idle)
  BY LoadsAre
<1>2. PICK v \in Request : req' = [req EXCEPT ![r] = v] /\ Loaded(r, v)
  BY LoadsAre
<1>3. req'[r] = v /\ \A o \in Workers : o # r => req'[o] = req[o]
  BY <1>2 DEF TypeInv, TypeOK
<1>4. /\ ~overlapped' => ~overlapped
      /\ ~overlapped' => \A o \in Workers : o # r => req'[o].op = "idle"
  <2>1. ~overlapped' => ~overlapped /\ \A o \in Workers \ {r} : req[o] = Idle
    BY Zenon, <1>1
  <2> QED
    BY <1>3, <2>1 DEF Idle
<1>5. Alone'
  BY <1>4 DEF Alone, Busy
<1>6. HeldInv'
  BY <1>1, <1>2, <1>3 DEF TurnInv, HeldInv, Loaded, Allows
<1>7. Fresh'
  BY <1>1, <1>2, <1>3, <1>4 DEF TurnInv, Fresh, Loaded
<1>8. Found'
  BY <1>1, <1>2, <1>3, <1>4 DEF Found, Loaded
<1>9. SingleVisits'
  BY <1>1, <1>4 DEF TurnInv, SingleVisits, OneOpen, OpenVisits
<1>10. Checking'
  <2> SUFFICES ASSUME ~overlapped', NEW q \in Workers, req'[q].op = "check",
                      NEW m \in Machines
               PROVE  IF m \in req'[q].todo THEN req'[q].rows[m] = machine'[m]
                      ELSE Current(machine'[m], req'[q].day)
    BY DEF Checking, Checked, Current, InService, InWarning, InError
  <2>1. q = r /\ v.rows = machine /\ v.todo = {o \in Machines : machine[o] # Absent}
    BY <1>2, <1>3, <1>4 DEF Loaded
  <2>2. machine[m] = Absent => Current(machine[m], req'[q].day)
    BY DEF Absent, Current, InService, InWarning, InError
  <2> QED
    BY <1>1, <1>3, <2>1, <2>2
<1> QED
  BY <1>5, <1>6, <1>7, <1>8, <1>9, <1>10 DEF TurnInv

\* A worker at work goes on.
LEMMA TurnKept ==
    ASSUME TypeInv, TurnInv, NEW r \in Workers, Busy(r),
           NEW v, req' = [req EXCEPT ![r] = v], UNCHANGED overlapped, v.op # "visit",
           DOMAIN visits \subseteq DOMAIN visits',
           ~overlapped => \A m \in Machines : OneOpen(visits', m),
           ~overlapped /\ v.op = "create" => OpenVisits(visits', v.machine) = {},
           ~overlapped /\ v.op = "check" => Checked(v, machine')
    PROVE  TurnInv'
<1>1. req'[r] = v /\ \A o \in Workers : o # r => req'[o] = req[o]
  BY DEF TypeInv, TypeOK
<1>2. ~overlapped => \A o \in Workers : o # r => ~Busy(o)
  BY DEF TurnInv, Alone
<1>3. Alone'
  BY <1>1, <1>2 DEF Alone, Busy
<1>4. HeldInv'
  BY <1>1 DEF TurnInv, HeldInv, Allows
<1>5. Fresh'
  BY <1>1, <1>2 DEF TurnInv, Fresh, Busy
<1>6. Found'
  BY <1>1, <1>2 DEF Found, Busy, OpenVisits
<1>7. SingleVisits'
  BY DEF SingleVisits, OneOpen, OpenVisits
<1>8. Checking'
  BY <1>1, <1>2 DEF Checking, Checked, Busy, Current, InService, InWarning, InError
<1> QED
  BY <1>3, <1>4, <1>5, <1>6, <1>7, <1>8 DEF TurnInv

LEMMA TurnStep ==
    ASSUME TypeInv, TurnInv, [Next]_vars
    PROVE  TurnInv'
<1>1. /\ visits \in Seq(Visit) /\ machine \in [Machines -> MachineRow]
      /\ \A r \in Workers : req[r] \in Request
      /\ HeldInv
  BY DEF TypeInv, TypeOK, TurnInv
<1>2. /\ ~overlapped => \A m \in Machines : OneOpen(visits, m)
      /\ \A r \in Workers : req[r].op = "visit" => req[r].id \in DOMAIN visits
  BY DEF TurnInv, SingleVisits, HeldInv
<1>3. Idle.op = "idle"
  BY DEF Idle
<1>4. CASE UNCHANGED <<machine, visits, req, overlapped>>
  <2>1. Alone' /\ HeldInv'
    BY <1>4 DEF TurnInv, Alone, Busy, HeldInv, Allows
  <2>2. Fresh' /\ Found' /\ SingleVisits'
    BY <1>4 DEF TurnInv, Fresh, Found, SingleVisits, OneOpen, OpenVisits
  <2>3. Checking'
    BY <1>4 DEF TurnInv, Checking, Checked, Current, InService, InWarning, InError
  <2> QED
    BY <2>1, <2>2, <2>3 DEF TurnInv
<1>5. ASSUME NEW r \in Workers, CommitVisit(r)
      PROVE  TurnInv'
  <2> DEFINE q == req[r]
  <2>1. Busy(r) /\ q.op = "visit"
    BY <1>5 DEF CommitVisit, Serving, Busy
  <2>2. /\ req' = [req EXCEPT ![r] = Idle] /\ UNCHANGED overlapped
        /\ q.id \in DOMAIN visits /\ DOMAIN visits' = DOMAIN visits
        /\ \A i \in DOMAIN visits : i # q.id => visits'[i] = visits[i]
        /\ visits'[q.id].machine = q.row.machine
        /\ visits'[q.id].status \in Open => q.row.status \in Open
    BY <1>1, <1>5, CommitVisitIs
  <2>4. ASSUME ~overlapped, NEW m \in Machines
        PROVE  OneOpen(visits', m)
    <3>1. q.row = visits[q.id]
      BY <2>1, <2>4 DEF TurnInv, Fresh
    <3>2. OpenVisits(visits', m) \subseteq OpenVisits(visits, m)
      BY <2>2, <3>1 DEF OpenVisits
    <3> QED
      BY <1>2, <2>4, <3>2 DEF OneOpen
  <2> QED
    BY <1>3, <2>1, <2>2, <2>4, TurnKept
<1>6. ASSUME NEW r \in Workers, ClaimCreate(r)
      PROVE  TurnInv'
  <2> DEFINE m == req[r].machine
  <2>1. Busy(r) /\ req[r].op = "create"
    BY <1>6 DEF ClaimCreate, Serving, Busy
  <2>2. /\ req' = [req EXCEPT ![r] = Idle] /\ UNCHANGED overlapped
        /\ m \in Machines
        /\ visits' = visits \/ \E v \in Scheduled(m) : visits' = Append(visits, v)
    BY <1>6, ClaimCreateIs
  <2>3. \A i \in DOMAIN visits : i \in DOMAIN visits' /\ visits'[i] = visits[i]
    BY <1>1, <2>2, AppendVisit
  <2>4. ASSUME ~overlapped
        PROVE  \A o \in Machines : OneOpen(visits', o)
    <3>1. OpenVisits(visits, m) = {}
      BY <2>1, <2>4 DEF TurnInv, Found
    <3>2. Grown(visits, visits', m)
      BY <2>2, <3>1 DEF Grown
    <3>3. machine[m] \in MachineRow
      BY <1>1, <2>2
    <3>4. Advanced(machine, visits, [machine EXCEPT ![m] = machine[m]], visits')
      BY <1>1, <2>2, <3>2, <3>3, GrownAdvances
    <3> QED
      BY <1>2, <2>4, <3>4 DEF Advanced
  <2> QED
    BY <1>2, <1>3, <2>1, <2>2, <2>3, <2>4, TurnKept
<1>7. ASSUME NEW r \in Workers, CheckNext(r)
      PROVE  TurnInv'
  <2>1. Busy(r) /\ req[r].op = "check"
    BY <1>7 DEF CheckNext, Serving, Busy
  <2>2. PICK m \in req[r].todo :
          /\ req' = [req EXCEPT ![r].todo = @ \ {m}] /\ UNCHANGED overlapped
          /\ Advanced(machine, visits, machine', visits')
          /\ \A o \in Machines : o # m => machine'[o] = machine[o]
          /\ req[r].rows[m] = machine[m] => Current(machine'[m], req[r].day)
    BY <1>7, CheckNextIs
  <2>3. req[r] \in [op: {"check"}, rows: [Machines -> MachineRow], todo: SUBSET Machines, day: Nat]
    BY <1>1, <2>1, OpShapes
  <2> DEFINE v == [req[r] EXCEPT !.todo = @ \ {m}]
  <2>4. /\ req' = [req EXCEPT ![r] = v] /\ v.op = "check"
        /\ v.rows = req[r].rows /\ v.day = req[r].day /\ v.todo = req[r].todo \ {m}
        /\ m \in Machines
    BY <2>2, <2>3
  <2> HIDE DEF v
  <2>5. \A i \in DOMAIN visits : i \in DOMAIN visits' /\ visits'[i] = visits[i]
    BY <2>2 DEF Advanced
  <2>6. ~overlapped => \A o \in Machines : OneOpen(visits', o)
    BY <1>2, <2>2 DEF Advanced
  <2>7. ASSUME ~overlapped
        PROVE  Checked(v, machine')
    <3>1. Checked(req[r], machine)
      BY <2>1, <2>7 DEF TurnInv, Checking
    <3> QED
      BY <2>2, <2>4, <3>1 DEF Checked
  <2> QED
    BY <1>2, <2>1, <2>2, <2>4, <2>5, <2>6, <2>7, TurnKept
<1>8. ASSUME NEW r \in Workers, Apply(r)
      PROVE  TurnInv'
  <2>1. Busy(r) /\ req[r].op = "apply"
    BY <1>8 DEF Apply, Serving, Busy
  <2>2. Advanced(machine, visits, machine', visits') /\ UNCHANGED overlapped
    BY <1>8, ApplyIs
  <2>3. PICK v \in Request : req' = [req EXCEPT ![r] = v] /\ v.op = "succeed"
    BY <1>8, ApplyIs
  <2>4. \A i \in DOMAIN visits : i \in DOMAIN visits' /\ visits'[i] = visits[i]
    BY <2>2 DEF Advanced
  <2>5. ~overlapped => \A o \in Machines : OneOpen(visits', o)
    BY <1>2, <2>2 DEF Advanced
  <2> QED
    BY <1>2, <2>1, <2>2, <2>3, <2>4, <2>5, TurnKept
<1>9. ASSUME NEW r \in Workers,
             \/ ClaimFind(r) \/ EndChecks(r) \/ Raise(r) \/ Tell(r) \/ Crash(r)
             \/ Finalize(r, "succeed", "succeeded") \/ Finalize(r, "fail", "failed")
      PROVE  TurnInv'
  <2>1. PICK v \in Request : /\ Goes(r, v)
                             /\ v.op \in {"idle", "create", "tell"}
                             /\ v.op = "create" => OpenVisits(visits, v.machine) = {}
    BY <1>9, GoesOn
  <2>2. /\ Busy(r) /\ req' = [req EXCEPT ![r] = v] /\ UNCHANGED overlapped
        /\ visits' = visits
    BY <2>1 DEF Goes, Busy
  <2> QED
    BY <1>2, <2>1, <2>2, TurnKept
<1>10. \A r \in Workers : Loads(r) => TurnInv'
  BY TurnLoads
<1> QED
  BY <1>4, <1>5, <1>6, <1>7, <1>8, <1>9, <1>10, StepKinds

\* Machines, visits, jobs and requests stay well formed, and requests that take
\* turns leave one another's rows alone.
THEOREM TurnsCorrect == Spec => [](TypeInv /\ TurnInv)
<1>1. Init => TypeInv /\ TurnInv
  BY TypeInit, TurnInit
<1>2. TypeInv /\ TurnInv /\ [Next]_vars => TypeInv' /\ TurnInv'
  BY TypeStep, TurnStep DEF TurnInv
<1> QED
  BY <1>1, <1>2, PTL DEF Spec

-----------------------------------------------------------------------------
(* What the runs check, for every instance *)

\* Machines, visits, jobs and requests stay well formed, whatever files hold.
THEOREM TypeCorrect == Spec => []TypeOK
<1>1. TypeInv => TypeOK
  BY DEF TypeInv
<1> QED
  BY <1>1, TurnsCorrect, PTL

\* Requests, checks and imports that take turns never send two repairers to one
\* machine (get_active_repair_assignment, before every create_repair_assignment).
THEOREM OneOpenVisitAlways == Spec => []OneOpenVisit
<1>1. TypeInv /\ TurnInv => OneOpenVisit
  <2> SUFFICES ASSUME TypeInv, TurnInv, ~overlapped, NEW m \in Machines
               PROVE  Cardinality(OpenVisits(visits, m)) <= 1
    BY DEF OneOpenVisit
  <2>1. \A i, k \in OpenVisits(visits, m) : i = k
    BY DEF TurnInv, SingleVisits, OneOpen
  <2>2. CASE OpenVisits(visits, m) = {}
    BY <2>2, FS_EmptySet
  <2>3. CASE OpenVisits(visits, m) # {}
    <3>1. PICK i : OpenVisits(visits, m) = {i}
      BY <2>1, <2>3
    <3>2. Cardinality({i}) = 1
      BY FS_Singleton
    <3> QED
      BY <3>1, <3>2
  <2> QED
    BY <2>2, <2>3
<1> QED
  BY <1>1, TurnsCorrect, PTL

\* A visit is saved by a request that holds it as it no longer is.
StaleSave == \E r \in Web : CommitVisit(r) /\ req[r].row # visits[req[r].id]

\* No other step takes the crew of a machine.
LEMMA CrewStep ==
    ASSUME TypeInv, TurnInv, [Next]_vars, ~StaleSave, NEW m \in Machines,
           Crewed(machine[m], visits, m)
    PROVE  Crewed(machine'[m], visits', m)
<1>1. visits \in Seq(Visit) /\ HeldInv
  BY DEF TypeInv, TypeOK, TurnInv
<1>2. ASSUME NEW r \in Workers, CommitVisit(r)
      PROVE  Crewed(machine'[m], visits', m)
  <2> DEFINE q == req[r]
  <2>1. q.row = visits[q.id]
    <3>1. r \in Web
      BY <1>1, <1>2 DEF CommitVisit, Serving, HeldInv
    <3> QED
      BY <1>2, <3>1 DEF StaleSave
  <2>2. /\ q.id \in DOMAIN visits /\ DOMAIN visits' = DOMAIN visits
        /\ \A i \in DOMAIN visits : i # q.id => visits'[i] = visits[i]
        /\ visits'[q.id].machine = q.row.machine
        /\ m # q.row.machine => machine'[m] = machine[m]
        /\ \/ machine' = machine
                /\ (q.row.status \in Open => visits'[q.id].status \in Open)
           \/ machine'[q.row.machine].status \in {"repair-start", "normal"}
    BY <1>1, <1>2, CommitVisitIs
  <2>3. CASE machine'[q.row.machine].status \in {"repair-start", "normal"} /\ m = q.row.machine
    BY <2>3 DEF Crewed, Actionable
  <2>4. CASE m # q.row.machine
    <3>1. OpenVisits(visits, m) \subseteq OpenVisits(visits', m)
      BY <2>1, <2>2, <2>4 DEF OpenVisits
    <3> QED
      BY <2>2, <2>4, <3>1 DEF Crewed
  <2>5. CASE machine' = machine /\ (q.row.status \in Open => visits'[q.id].status \in Open)
    <3>1. OpenVisits(visits, m) \subseteq OpenVisits(visits', m)
      BY <2>1, <2>2, <2>5 DEF OpenVisits
    <3> QED
      BY <2>5, <3>1 DEF Crewed
  <2> QED
    BY <2>2, <2>3, <2>4, <2>5
<1>3. ASSUME NEW r \in Workers, ClaimCreate(r)
      PROVE  Crewed(machine'[m], visits', m)
  <2>1. /\ machine' = machine /\ req[r].machine \in Machines
        /\ visits' = visits \/ \E v \in Scheduled(req[r].machine) : visits' = Append(visits, v)
    BY <1>3, ClaimCreateIs
  <2>2. \A i \in DOMAIN visits : i \in DOMAIN visits' /\ visits'[i] = visits[i]
    BY <1>1, <2>1, AppendVisit
  <2>3. OpenVisits(visits, m) \subseteq OpenVisits(visits', m)
    BY <2>2 DEF OpenVisits
  <2> QED
    BY <2>1, <2>3 DEF Crewed
<1>4. ASSUME NEW r \in Workers, CheckNext(r)
      PROVE  Crewed(machine'[m], visits', m)
  BY <1>4, CheckNextIs DEF Advanced
<1>5. ASSUME NEW r \in Workers, Apply(r)
      PROVE  Crewed(machine'[m], visits', m)
  BY <1>5, ApplyIs DEF Advanced
<1>6. ASSUME NEW r \in Workers,
             \/ Loads(r)
             \/ ClaimFind(r) \/ EndChecks(r) \/ Raise(r) \/ Tell(r) \/ Crash(r)
             \/ Finalize(r, "succeed", "succeeded") \/ Finalize(r, "fail", "failed")
      PROVE  UNCHANGED <<machine, visits>>
  BY <1>6, LoadsAre, GoesOn DEF Goes
<1> QED
  BY <1>2, <1>3, <1>4, <1>5, <1>6, StepKinds

\* However web requests, checks and imports overlap, on any number of workers: no
\* report, escalation, claim or end of a visit leaves a machine that calls for
\* service without a visit while someone could be sent (ensure_repair_assignment
\* inside append_machine_status_event, and what the visits' services save), nor
\* does a machine saved from a stale row; only a visit saved from one may.
THEOREM FaultIsCrewedAlways == Spec => FaultIsCrewed
<1> DEFINE Leaves ==
      \A m \in Uncrewed' \ Uncrewed :
         \/ ~Served(m)
         \/ \E r \in Web : CommitVisit(r) /\ req[r].row # visits[req[r].id]
<1>1. TypeInv /\ TurnInv /\ [Next]_vars => [Leaves]_vars
  <2> USE DEF StaleSave
  <2> SUFFICES ASSUME TypeInv, TurnInv, [Next]_vars, NEW m \in Uncrewed' \ Uncrewed,
                      Served(m), ~StaleSave
               PROVE  FALSE
    OBVIOUS
  <2>1. m \in Machines /\ machine'[m].status \in Actionable /\ OpenVisits(visits', m) = {}
    BY DEF Uncrewed, OpenVisits, Actionable
  <2>2. Crewed(machine[m], visits, m)
    BY <2>1 DEF Uncrewed, Crewed
  <2>3. Crewed(machine'[m], visits', m)
    BY <2>1, <2>2, CrewStep
  <2> QED
    BY <2>1, <2>3 DEF Crewed
<1> QED
  BY <1>1, TurnsCorrect, PTL DEF Spec, FaultIsCrewed

\* A check of the fleet that ran alone ends with every machine where its policy
\* has it on the day it began (evaluate_service_window,
\* evaluate_warning_escalation, evaluate_error_escalation).
THEOREM CheckedIsCurrentAlways == Spec => CheckedIsCurrent
<1> DEFINE Ends ==
      \A r \in Web : EndChecks(r) /\ ~overlapped =>
         \A m \in Machines :
           LET row == machine[m]
               age == req[r].day - row.since
           IN  /\ row.status = "warning" => row.since = 0 \/ age < Shutdown
               /\ row.status = "error" => ErrorMax = 0 \/ row.since = 0 \/ age < ErrorMax
               /\ row.status \in {"normal", "repair-end"} =>
                    row.due = 0 \/ req[r].day < row.due - Window
<1>1. TurnInv => Ends
  <2> SUFFICES ASSUME TurnInv, NEW r \in Web, EndChecks(r), ~overlapped, NEW m \in Machines
               PROVE  Current(machine[m], req[r].day)
    BY DEF Current, InService, InWarning, InError
  <2>1. r \in Workers /\ req[r].op = "check" /\ req[r].todo = {}
    BY DEF Workers, EndChecks, Serving
  <2>2. Checked(req[r], machine)
    BY <2>1 DEF TurnInv, Checking
  <2> QED
    BY <2>1, <2>2 DEF Checked
<1>2. TurnInv /\ [Next]_vars => [Ends]_vars
  BY <1>1
<1> QED
  BY <1>2, TurnsCorrect, PTL DEF Spec, CheckedIsCurrent
=============================================================================
