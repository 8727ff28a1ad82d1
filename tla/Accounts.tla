------------------------------ MODULE Accounts ------------------------------
(***************************************************************************)
(* Accounts of stores that have no central identity provider               *)
(* (users/backends.py, PeerValidateView, RegistrationForm and              *)
(* update_scoped_user).  A store that does not know a password asks its    *)
(* peers in turn, each of which authenticates as if the customer were      *)
(* there, peers included; a customer that a peer knows gets a row of the   *)
(* store's own, in two commits.  A web worker waits while it asks.         *)
(***************************************************************************)
EXTENDS Integers, Sequences, FiniteSets

CONSTANTS
    Stores,
    Emails,
    Passwords,
    WebWorkers,     \* the web workers of each store
    Peers,          \* PEER_STORES of each store, in order
    MaxLogins,      \* bound: logins
    MaxAccountUpdates, \* bound: updates of accounts by an administrator
    MaxCrashes      \* bound: processes killed

ASSUME PeersAssumption ==
    \A s \in Stores : \A i \in DOMAIN Peers[s] : Peers[s][i] \in Stores \ {s}
ASSUME BoundAssumption == MaxLogins \in Nat /\ MaxAccountUpdates \in Nat /\ MaxCrashes \in Nat

VARIABLES
    row,         \* User rows of each store by e-mail
    req,         \* the request each worker of each store serves
    admitted,    \* history: the logins that succeeded
    promoted,    \* history: accounts that an administrator gave another role
    spoilt,      \* history: half-made accounts whose login died, or that
                 \* another request saved from a stale copy
    logins, accountUpdates, crashes

accountVars == <<row, req, admitted, promoted, spoilt, logins, accountUpdates, crashes>>

-----------------------------------------------------------------------------
Slots == UNION {{s} \X WebWorkers[s] : s \in Stores}
StoreOf(w) == w[1]

\* Django keeps "" apart from an unusable password: it counts as usable.
Blank == "blank"
Unusable == "unusable"

NoRow == [password |-> "none"]
AccountRoles == {"account_user", "manager"}
Row == [password: Passwords \cup {Blank, Unusable}, role: AccountRoles, status: {"active", "locked"}]
\* No form takes an empty password.
PasswordsApart == Passwords \cap {Blank, Unusable, "none"} = {}
ASSUME PasswordAssumption == PasswordsApart

NewRow(password) == [password |-> password, role |-> "account_user", status |-> "active"]

\* Who waits for the answer, if not the worker of a peer.
Browser == <<"browser">>
Nobody == <<"nobody">>

NoRequest == [op |-> "idle"]
Available(w) == req[w] = NoRequest
IsLogin(w) == req[w].op = "login"

LoginRequest ==
    [op: {"login"}, email: Emails, password: Passwords, from: {Browser, Nobody} \cup Slots,
     at: {"local", "call", "wait", "failed", "create", "save"},
     peer: Nat, made: BOOLEAN, copy: Row \cup {NoRow}, role: AccountRoles, backed: BOOLEAN]
UpdateRequest == [op: {"update"}, email: Emails, copy: Row]
Request == {NoRequest} \cup LoginRequest \cup UpdateRequest

AccountTypeOK ==
    /\ row \in [Stores -> [Emails -> Row \cup {NoRow}]]
    /\ req \in [Slots -> Request]

AccountInit ==
    /\ row = [s \in Stores |-> [e \in Emails |-> NoRow]]
    /\ req = [w \in Slots |-> NoRequest]
    /\ admitted = {}
    /\ promoted = {}
    /\ spoilt = {}
    /\ logins = 0
    /\ accountUpdates = 0
    /\ crashes = 0

-----------------------------------------------------------------------------
(* What a login rests on, for the history *)

\* An active account with this password: of any role at the store itself, of a
\* customer elsewhere.
Backed(rows, s, e, password) ==
    \E t \in Stores : /\ rows[t][e].password = password
                      /\ rows[t][e].status = "active"
                      /\ t = s \/ rows[t][e].role = "account_user"

\* Requests under way note it when an account comes to back them.
Noted(reqs, rows) ==
    [w \in Slots |->
        IF reqs[w].op = "login"
        THEN [reqs[w] EXCEPT !.backed =
                @ \/ Backed(rows, StoreOf(w), reqs[w].email, reqs[w].password)]
        ELSE reqs[w]]

-----------------------------------------------------------------------------
(* Registration and administration *)

\* RegistrationForm: one account per e-mail.
Register(s, e, password) ==
    /\ row[s][e] = NoRow
    /\ row' = [row EXCEPT ![s][e] = NewRow(password)]
    /\ req' = Noted(req, row')
    /\ UNCHANGED <<admitted, promoted, spoilt, logins, accountUpdates, crashes>>

\* update_scoped_user reads the row...
ReadAccount(w, e) ==
    /\ Available(w)
    /\ accountUpdates < MaxAccountUpdates
    /\ accountUpdates' = accountUpdates + 1
    /\ row[StoreOf(w)][e] # NoRow
    /\ req' = [req EXCEPT ![w] = [op |-> "update", email |-> e, copy |-> row[StoreOf(w)][e]]]
    /\ UNCHANGED <<row, admitted, promoted, spoilt, logins, crashes>>

\* ...and saves the whole of it with another role and status.
SaveAccount(w, role, status) ==
    LET s == StoreOf(w)
        e == req[w].email
    IN  /\ req[w].op = "update"
        /\ row' = [row EXCEPT ![s][e] = [req[w].copy EXCEPT !.role = role, !.status = status]]
        /\ req' = Noted([req EXCEPT ![w] = NoRequest], row')
        /\ promoted' = IF role = "account_user" THEN promoted ELSE promoted \cup {<<s, e>>}
        /\ spoilt' = IF req[w].copy.password = Blank THEN spoilt \cup {<<s, e>>} ELSE spoilt
        /\ UNCHANGED <<admitted, logins, accountUpdates, crashes>>

-----------------------------------------------------------------------------
(* Login *)

Login(w, e, password, from) ==
    [op |-> "login", email |-> e, password |-> password, from |-> from, at |-> "local",
     peer |-> 0, made |-> FALSE, copy |-> NoRow, role |-> "account_user",
     backed |-> Backed(row, StoreOf(w), e, password)]

StartLogin(w, e, password) ==
    /\ Available(w)
    /\ logins < MaxLogins
    /\ logins' = logins + 1
    /\ req' = [req EXCEPT ![w] = Login(w, e, password, Browser)]
    /\ UNCHANGED <<row, admitted, promoted, spoilt, accountUpdates, crashes>>

\* A request that ends leaves those it waited for with nobody to answer.
Dropped(reqs, w) ==
    [v \in Slots |-> IF IsLogin(v) /\ reqs[v].from = w THEN [reqs[v] EXCEPT !.from = Nobody]
                     ELSE reqs[v]]

\* With no peer left, the login has failed.
AsksNext(w) == req[w].peer < Len(Peers[StoreOf(w)])
Asking(r) == [r EXCEPT !.at = "call", !.peer = @ + 1]
Failing(r) == [r EXCEPT !.at = "failed"]
CreatingRow(r, role) == [r EXCEPT !.at = "create", !.role = role]

\* Mutant: the role is not looked at.
Validated_AnyRole(ok, role) == ok

\* PeerValidateView: customers only.
Validated(ok, role) == ok /\ role = "account_user"

\* What a peer's answer has a login do.
Told(w, r, found, role) ==
    IF found THEN CreatingRow(r, role) ELSE IF AsksNext(w) THEN Asking(r) ELSE Failing(r)

\* The end of authenticate, which found a user of this role or none: in the
\* browser a session begins; a peer that still waits goes on with the answer.
Ended(reqs, w, ok, role) ==
    [v \in Slots |->
        CASE v = w -> NoRequest
          [] v = reqs[w].from -> Told(v, reqs[v], Validated(ok, role), role)
          [] OTHER -> reqs[v]]

Admit(w, ok) ==
    admitted' = IF ok /\ req[w].from = Browser
                THEN admitted \cup {[store |-> StoreOf(w), email |-> req[w].email,
                                     backed |-> req[w].backed]}
                ELSE admitted

\* Mutant: the status of the account is not looked at.
Knows_Locked(r, password) == r.password = password

\* ModelBackend: the password, and an account that is active.
Knows(r, password) == r.password = password /\ r.status = "active"

\* ModelBackend, and what PeerStoreAuthBackend looks at before it asks.
Local(w) ==
    LET r == row[StoreOf(w)][req[w].email]
        known == Knows(r, req[w].password)
    IN  /\ IsLogin(w)
        /\ req[w].at = "local"
        /\ IF known \/ r.password \notin {"none", Unusable} \/ ~AsksNext(w)
           THEN req' = Ended(req, w, known, IF known THEN r.role ELSE "account_user") /\ Admit(w, known)
           ELSE req' = [req EXCEPT ![w] = Asking(@)] /\ UNCHANGED admitted
        /\ UNCHANGED <<row, promoted, spoilt, logins, accountUpdates, crashes>>

\* A worker of the peer takes the call.
Accept(v, w) ==
    /\ Available(v)
    /\ IsLogin(w) /\ req[w].at = "call"
    /\ StoreOf(v) = Peers[StoreOf(w)][req[w].peer]
    /\ req' = [req EXCEPT ![w].at = "wait", ![v] = Login(v, req[w].email, req[w].password, w)]
    /\ UNCHANGED <<row, admitted, promoted, spoilt, logins, accountUpdates, crashes>>

\* Mutant: the call has no timeout.
Timeout_Never(w) == FALSE /\ UNCHANGED accountVars

\* Five seconds without an answer: the next peer.
Timeout(w) ==
    /\ IsLogin(w)
    /\ req[w].at \in {"call", "wait"}
    /\ req' = IF AsksNext(w) THEN [Dropped(req, w) EXCEPT ![w] = Asking(@)]
              ELSE Ended(Dropped(req, w), w, FALSE, "account_user")
    /\ UNCHANGED <<row, admitted, promoted, spoilt, logins, accountUpdates, crashes>>

\* All peers rejected it.
Fail(w) ==
    /\ IsLogin(w)
    /\ req[w].at = "failed"
    /\ req' = Ended(req, w, FALSE, "account_user")
    /\ UNCHANGED <<row, admitted, promoted, spoilt, logins, accountUpdates, crashes>>

\* _provision_peer_user: get_or_create commits a row with a blank password...
CreateRow(w) ==
    LET s == StoreOf(w)
        e == req[w].email
        made == row[s][e] = NoRow
    IN  /\ IsLogin(w)
        /\ req[w].at = "create"
        /\ row' = IF made THEN [row EXCEPT ![s][e] = NewRow(Blank)] ELSE row
        /\ req' = [req EXCEPT ![w].at = "save", ![w].made = made, ![w].copy = row'[s][e]]
        /\ UNCHANGED <<admitted, promoted, spoilt, logins, accountUpdates, crashes>>

\* Mutant: the password of a new row stays as it is.
Provisioned_Blank(r) == [r.copy EXCEPT !.role = r.role, !.status = "active"]

Provisioned(r) ==
    [r.copy EXCEPT !.role = r.role, !.status = "active",
                   !.password = IF r.made THEN Unusable ELSE @]

\* ...and save writes the whole row, active and with the role the peer answered.
SaveProvisioned(w) ==
    LET s == StoreOf(w)
        e == req[w].email
    IN  /\ IsLogin(w)
        /\ req[w].at = "save"
        /\ row' = [row EXCEPT ![s][e] = Provisioned(req[w])]
        /\ req' = Noted(Ended(req, w, TRUE, req[w].role), row')
        /\ Admit(w, TRUE)
        /\ spoilt' = IF req[w].copy.password = Blank /\ ~req[w].made
                     THEN spoilt \cup {<<s, e>>} ELSE spoilt
        /\ UNCHANGED <<promoted, logins, accountUpdates, crashes>>

\* The process dies: a peer that waits for it sees the connection close.
Kill(w) ==
    /\ ~Available(w)
    /\ crashes < MaxCrashes
    /\ crashes' = crashes + 1
    /\ req' = IF IsLogin(w) THEN Ended(Dropped(req, w), w, FALSE, "account_user")
              ELSE [req EXCEPT ![w] = NoRequest]
    /\ spoilt' = IF IsLogin(w) /\ req[w].at = "save" /\ req[w].made
                 THEN spoilt \cup {<<StoreOf(w), req[w].email>>} ELSE spoilt
    /\ UNCHANGED <<row, admitted, promoted, logins, accountUpdates>>

-----------------------------------------------------------------------------
ServeLogin(w) == Local(w) \/ Timeout(w) \/ Fail(w) \/ CreateRow(w) \/ SaveProvisioned(w)

UpdateAccount(w) ==
    \/ \E e \in Emails : ReadAccount(w, e)
    \/ \E role \in AccountRoles, status \in {"active", "locked"} :
         SaveAccount(w, role, status)

AccountNext ==
    \/ \E s \in Stores, e \in Emails, p \in Passwords : Register(s, e, p)
    \/ \E w \in Slots, e \in Emails, p \in Passwords : StartLogin(w, e, p)
    \/ \E v, w \in Slots : Accept(v, w)
    \/ \E w \in Slots : ServeLogin(w) \/ UpdateAccount(w) \/ Kill(w)

AccountSpec == AccountInit /\ [][AccountNext]_accountVars

\* A worker goes on with the request it has, and its calls time out.
AccountFairSpec == AccountSpec /\ \A w \in Slots : WF_accountVars(ServeLogin(w))

-----------------------------------------------------------------------------
(* Properties *)

\* Who is signed in had an active account with this password while the login
\* ran, at the store or as a customer of another one: peers that ask in turn,
\* answers that come late, rows saved from stale copies, locks and roles of
\* either side notwithstanding.
LoginBacked == \A a \in admitted : a.backed

\* "Staff roles stay store-local": an account that came from a peer is a
\* customer's, unless an administrator of the store has made it another.
StaffStayLocal ==
    \A s \in Stores, e \in Emails :
        row[s][e].password \in {Blank, Unusable} /\ <<s, e>> \notin promoted
        => row[s][e].role = "account_user"

\* A half-made account, whose blank password keeps its owner out at the store
\* for good, is there only while the login that made it runs, unless that one
\* died, or an administrator or a second login of the customer that overlaps it
\* saved the copy it had read meanwhile.
HalfMadeInFlight ==
    \A s \in Stores, e \in Emails :
        row[s][e].password = Blank /\ <<s, e>> \notin spoilt
        => \E w \in Slots : /\ StoreOf(w) = s
                            /\ IsLogin(w) /\ req[w].at = "save"
                            /\ req[w].made /\ req[w].email = e

\* Every login ends, though the peers that do not know a password ask the one
\* that asks them, and every worker may be waiting for another.
LoginEnds == \A w \in Slots : IsLogin(w) ~> Available(w)
=============================================================================
