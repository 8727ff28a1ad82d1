-------------------------------- MODULE Desk --------------------------------
(***************************************************************************)
(* The desk of a chain: the teams of its stores (update_scoped_user), the  *)
(* alerts that reach the team of one of them (Notices) and a customer of   *)
(* the support (Support), served by the same web workers.  The role that   *)
(* one member of a team gives an account decides who is alerted, who may   *)
(* change a team and who is still a customer.  Every request is read and   *)
(* saved without a lock.                                                   *)
(***************************************************************************)
EXTENDS Support, Notices

CONSTANTS
    Team,          \* the rows of the accounts at first
    Customer,      \* the account that asks the support
    MaxUpdates,    \* bound: updates of the team
    MaxWork        \* bound: requests, clicks and alerts in all

ASSUME DeskAssumption ==
    /\ IsFiniteSet(Users)
    /\ Team \in [Users -> Account]
    /\ \A s \in Shops : \E u \in Users, type \in Scopes :
         Team[u].active /\ Team[u].role \in {"manager", "admin"} /\ <<s, type>> \in Team[u].scopes
    /\ Customer \in Users
    /\ MaxUpdates \in Nat /\ MaxWork \in Nat

VARIABLES
    updating,    \* the update each web worker serves
    updates,
    crossed,     \* history: an account acted while another one was changing it
    outside      \* history: stores with an account that one who does not manage
                 \* the store has changed

teamVars == <<staff, updating, updates, crossed, outside>>
vars == <<supportVars, deliveryVars, teamVars>>

-----------------------------------------------------------------------------
NoUpdate == [at |-> "idle"]
Free(w) == Resting(w) /\ updating[w] = NoUpdate

TypeOK ==
    /\ SupportTypeOK
    /\ NoticeTypeOK
    /\ \A w \in Workers : updating[w].at \in {"idle", "unassign", "assign", "save"}
    /\ updates \in 0 .. MaxUpdates
    /\ crossed \in BOOLEAN /\ outside \subseteq Shops

Init ==
    /\ SupportInit
    /\ NoticeInit
    /\ staff = Team
    /\ updating = [w \in Workers |-> NoUpdate]
    /\ updates = 0
    /\ crossed = FALSE
    /\ outside = {}

-----------------------------------------------------------------------------
(* update_scoped_user, by a manager or an administrator of a store *)

\* user_can_manage_store
ManagesStore(a, s) ==
    a.role \in {"manager", "admin"} /\ \E type \in Scopes : <<s, type>> \in a.scopes

\* actor.store_assignments.first(): the first of the actor's stores by name.
ScopedStore(a, s) ==
    /\ \E type \in Scopes : <<s, type>> \in a.scopes
    /\ \A assignment \in a.scopes : s =< assignment[1]

\* Mutant: one may change the own account.
MayUpdate_Self(actor, target, s) ==
    staff[actor].active /\ ScopedStore(staff[actor], s) /\ ManagesStore(staff[actor], s)

\* The checks of the service.  The view asks for the role of an administrator
\* after the update is done, and nobody asks for the stores of the target.
MayUpdate(actor, target, s) ==
    /\ staff[actor].active /\ ScopedStore(staff[actor], s) /\ ManagesStore(staff[actor], s)
    /\ actor # target

StartUpdate(w, actor, target, s, role, active) ==
    /\ updates < MaxUpdates
    /\ updates' = updates + 1
    /\ MayUpdate(actor, target, s)
    /\ updating' = [updating EXCEPT ![w] = [at |-> "unassign", target |-> target, store |-> s,
                                            role |-> role, active |-> active,
                                            prefers |-> staff[target].prefers]]
    /\ crossed' = (crossed \/ \E v \in Workers : updating[v] # NoUpdate /\ updating[v].target = actor)
    /\ outside' = outside \cup {t \in Shops : ManagesStore(staff[target], t) /\ ~ManagesStore(staff[actor], t)}
    /\ UNCHANGED staff

ScopeOf(role) == IF role = "manager" THEN "manager_scope" ELSE "admin_scope"

\* The scope of the other role in the actor's store is deleted, or all of them there...
Unassign(w) ==
    LET u == updating[w]
        gone == IF u.role = "account_user" THEN Scopes
                ELSE {"manager_scope", "admin_scope"} \ {ScopeOf(u.role)}
    IN  /\ u.at = "unassign"
        /\ staff' = [staff EXCEPT ![u.target].scopes = @ \ ({u.store} \X gone)]
        /\ updating' = [updating EXCEPT ![w].at = IF u.role = "account_user" THEN "save" ELSE "assign"]
        /\ UNCHANGED <<updates, crossed, outside>>

\* ...its own is there or created...
Assign(w) ==
    LET u == updating[w]
    IN  /\ u.at = "assign"
        /\ staff' = [staff EXCEPT ![u.target].scopes = @ \cup {<<u.store, ScopeOf(u.role)>>}]
        /\ updating' = [updating EXCEPT ![w].at = "save",
                                        ![w].prefers = IF @ = 0 THEN u.store ELSE @]
        /\ UNCHANGED <<updates, crossed, outside>>

\* ...and the row read at first is saved whole.
SaveUser(w) ==
    LET u == updating[w]
    IN  /\ u.at = "save"
        /\ staff' = [staff EXCEPT ![u.target].role = u.role, ![u.target].active = u.active,
                                  ![u.target].prefers = u.prefers]
        /\ updating' = [updating EXCEPT ![w] = NoUpdate]
        /\ UNCHANGED <<updates, crossed, outside>>

-----------------------------------------------------------------------------
\* The worker dies with the request it serves.
Die(w) ==
    /\ faults < MaxFaults
    /\ faults' = faults + 1
    /\ IF Resting(w) THEN UNCHANGED supportVars ELSE DropChat(w)
    /\ updating' = [updating EXCEPT ![w] = NoUpdate]
    /\ ~Free(w)
    /\ UNCHANGED <<notice, committed, tasks, job, marking, lost, alerts, marks, staff, updates, crossed, outside>>

\* A web worker begins a request...
Begin(w) ==
    /\ Free(w)
    /\ \/ /\ staff[Customer].role = "account_user" /\ staff[Customer].active
          /\ AskSupport(w)
          /\ UNCHANGED <<deliveryVars, teamVars>>
       \/ /\ \E actor, target \in Users, s \in Shops, role \in {"account_user", "manager", "admin"},
                active \in BOOLEAN : StartUpdate(w, actor, target, s, role, active)
          /\ UNCHANGED <<supportVars, deliveryVars>>

\* ...and goes on with it.
Serve(w) ==
    \/ ServeSupport(w) /\ UNCHANGED <<deliveryVars, teamVars>>
    \/ (Unassign(w) \/ Assign(w) \/ SaveUser(w)) /\ UNCHANGED <<supportVars, deliveryVars>>

\* The outbox, the Celery worker, and clicks on notifications.
Delivery ==
    /\ \/ Deliver \/ Fault
       \/ \E roles \in AlertRoles : Alert(roles)
       \/ \E u \in Users : Mark(u)
    /\ UNCHANGED <<supportVars, updating, updates, crossed, outside>>

Next ==
    /\ Delivery \/ \E w \in Workers : Begin(w) \/ Serve(w) \/ Die(w)
    /\ asked' + visits' + updates' + marks' + alerts' =< MaxWork

Spec == Init /\ [][Next]_vars

\* The process queues the tasks of what it committed, the broker hands them out
\* and the Celery worker goes on with the one it has.
FairSpec ==
    /\ Spec
    /\ WF_vars(Deliver /\ UNCHANGED <<supportVars, updating, updates, crossed, outside>>)

-----------------------------------------------------------------------------
(* Properties *)

\* A store keeps someone who can sign in and change its team, as long as accounts
\* that manage it are changed by their like alone, and no account acts while
\* another one is changing it: updates that overlap in any other way, end halfway,
\* lock an account or take its scope never leave the store to nobody.
KeepsManager ==
    ~crossed =>
      \A s \in Shops \ outside : \E u \in Users : staff[u].active /\ ManagesStore(staff[u], s)
=============================================================================
