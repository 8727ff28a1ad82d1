---------------------------- MODULE Desk_Proofs -----------------------------
(***************************************************************************)
(* What holds of the desk of a chain for any number of stores, users, web *)
(* workers, alerts and faults: each team keeps someone to manage it,       *)
(* notifications keep what was written to them, and the support answers    *)
(* what it was asked, in one open conversation.  And what holds of the     *)
(* accounts at any number of stores that are each other's peers (Accounts, *)
(* a system of its own): who signs in has a right to, staff stays at its   *)
(* store, and no account is left half made by a login that lives.          *)
(***************************************************************************)
EXTENDS Desk, Accounts, FiniteSetTheorems, SequenceTheorems, TLAPS

-----------------------------------------------------------------------------
(* The team *)

Update == [at: {"unassign", "assign", "save"}, target: Users, store: Shops,
           role: {"account_user", "manager", "admin"}, active: BOOLEAN, prefers: Shops \cup {0}]

TeamType ==
    /\ staff \in [Users -> Account]
    /\ updating \in [Workers -> {NoUpdate} \cup Update]
    /\ crossed \in BOOLEAN

Busy(w) == updating[w].at # "idle"

Manages(u, s) == staff[u].active /\ ManagesStore(staff[u], s)

Changes(w, u) == Busy(w) /\ updating[w].target = u

\* Someone who manages the store is changed by no update that runs: the one who
\* asked for the last update of such an account, if there was one.
TeamInv ==
    /\ TeamType
    /\ ~crossed =>
         \A s \in Shops \ outside :
           \E u \in Users : Manages(u, s) /\ \A w \in Workers : ~Changes(w, u)

-----------------------------------------------------------------------------
LEMMA NoUpdateIsIdle ==
    /\ NoUpdate.at = "idle" /\ NoUpdate \notin Update
    /\ \A x \in {NoUpdate} \cup Update : x.at = "idle" <=> x = NoUpdate
BY DEF NoUpdate, Update

LEMMA TeamInit == Init => TeamInv
<1> SUFFICES ASSUME Init
             PROVE  TeamInv
  OBVIOUS
<1>1. TeamType
  BY DeskAssumption DEF Init, TeamType
<1>2. \A w \in Workers : ~Busy(w)
  BY DEF Init, Busy, NoUpdate
<1>3. ASSUME NEW s \in Shops
      PROVE  \E u \in Users : Manages(u, s)
  BY DeskAssumption DEF Init, Manages, ManagesStore
<1> QED
  BY <1>1, <1>2, <1>3 DEF TeamInv, Changes

LEMMA TeamStill == TeamInv /\ UNCHANGED <<staff, updating, crossed, outside>> => TeamInv'
BY DEF TeamInv, TeamType, Busy, Manages, Changes

\* An update ends, or is lost with its worker.
LEMMA TeamRests ==
    ASSUME TeamInv, NEW w \in Workers, UNCHANGED <<staff, crossed, outside>>,
           updating' = [updating EXCEPT ![w] = NoUpdate]
    PROVE  TeamInv'
<1>1. TeamType'
  BY DEF TeamInv, TeamType
<1>2. \A v \in Workers, u \in Users : Changes(v, u)' => Changes(v, u)
  BY NoUpdateIsIdle DEF TeamInv, TeamType, Busy, Changes
<1>3. \A u \in Users, s \in Shops : Manages(u, s)' <=> Manages(u, s)
  BY DEF Manages
<1> QED
  BY <1>1, <1>2, <1>3 DEF TeamInv

\* An update goes on, and writes its target alone.
LEMMA TeamWorks ==
    ASSUME TeamInv, NEW w \in Workers, Busy(w), UNCHANGED <<crossed, outside>>,
           NEW t \in Users, t = updating[w].target,
           NEW rec \in Account, staff' = [staff EXCEPT ![t] = rec],
           NEW x \in {NoUpdate} \cup Update, updating' = [updating EXCEPT ![w] = x],
           x # NoUpdate => x.target = t
    PROVE  TeamInv'
<1>1. TeamType'
  BY DEF TeamInv, TeamType
<1>2. \A v \in Workers, u \in Users : Changes(v, u)' => Changes(v, u)
  BY NoUpdateIsIdle DEF TeamInv, TeamType, Busy, Changes
<1>3. \A u \in Users, s \in Shops : u # t => (Manages(u, s)' <=> Manages(u, s))
  BY DEF Manages, TeamInv, TeamType
<1>4. Changes(w, t)
  BY DEF Changes
<1> QED
  BY <1>1, <1>2, <1>3, <1>4 DEF TeamInv

LEMMA TeamStarts ==
    ASSUME TeamInv, NEW w \in Workers, Free(w), NEW actor \in Users, NEW target \in Users,
           NEW st \in Shops, NEW role \in {"account_user", "manager", "admin"},
           NEW active \in BOOLEAN, StartUpdate(w, actor, target, st, role, active)
    PROVE  TeamInv'
<1> DEFINE x == [at |-> "unassign", target |-> target, store |-> st, role |-> role,
                 active |-> active, prefers |-> staff[target].prefers]
<1>1. /\ x \in Update /\ x.target = target
      /\ UNCHANGED staff
      /\ updating' = [updating EXCEPT ![w] = x]
      /\ staff[actor].active /\ actor # target
      /\ crossed' = (crossed \/ \E v \in Workers : updating[v] # NoUpdate /\ updating[v].target = actor)
      /\ outside' = outside \cup
           {s \in Shops : ManagesStore(staff[target], s) /\ ~ManagesStore(staff[actor], s)}
  BY DEF StartUpdate, MayUpdate, Update, TeamInv, TeamType, Account
<1> HIDE DEF x
<1>2. TeamType'
  BY <1>1 DEF TeamInv, TeamType
<1>3. \A v \in Workers, u \in Users : u # target => (Changes(v, u)' => Changes(v, u))
  BY <1>1, NoUpdateIsIdle DEF TeamInv, TeamType, Busy, Changes
<1>4. \A u \in Users, s \in Shops : Manages(u, s)' <=> Manages(u, s)
  BY <1>1 DEF Manages
<1>5. ASSUME ~crossed', NEW s \in Shops \ outside'
      PROVE  \E u \in Users : Manages(u, s) /\ u # target /\ \A v \in Workers : ~Changes(v, u)
  <2>1. PICK u \in Users : Manages(u, s) /\ \A v \in Workers : ~Changes(v, u)
    BY <1>1, <1>5 DEF TeamInv
  <2>2. CASE u = target
    <3>1. Manages(actor, s)
      BY <1>1, <1>5, <2>1, <2>2 DEF Manages
    <3>2. \A v \in Workers : ~Changes(v, actor)
      BY <1>1, <1>5, NoUpdateIsIdle DEF TeamInv, TeamType, Busy, Changes
    <3> QED
      BY <1>1, <3>1, <3>2
  <2> QED
    BY <2>1, <2>2
<1> QED
  BY <1>2, <1>3, <1>4, <1>5 DEF TeamInv

LEMMA TeamStep == TeamInv /\ [Next]_vars => TeamInv'
<1> SUFFICES ASSUME TeamInv, [Next]_vars
             PROVE  TeamInv'
  OBVIOUS
<1>1. CASE Delivery
  <2>1. UNCHANGED staff
    BY <1>1 DEF Delivery, Deliver, Fault, Mark, Alert, Queue, QueueFails, Take, SaveSent,
                DispatchFails, KillWorker, Click, SaveRead, ReadAll
  <2> QED
    BY <1>1, <2>1, TeamStill DEF Delivery
<1>2. ASSUME NEW w \in Workers, Begin(w)
      PROVE  TeamInv'
  <2>1. CASE UNCHANGED teamVars
    BY <2>1, TeamStill DEF teamVars
  <2>2. CASE \E actor, target \in Users, s \in Shops, role \in {"account_user", "manager", "admin"},
                active \in BOOLEAN : StartUpdate(w, actor, target, s, role, active)
    BY <1>2, <2>2, TeamStarts DEF Begin
  <2> QED
    BY <1>2, <2>1, <2>2 DEF Begin
<1>3. ASSUME NEW w \in Workers, Serve(w)
      PROVE  TeamInv'
  <2>1. CASE UNCHANGED teamVars
    BY <2>1, TeamStill DEF teamVars
  <2> DEFINE step == Unassign(w) \/ Assign(w) \/ SaveUser(w)
  <2>2. step => Busy(w) /\ updating[w] \in Update /\ UNCHANGED <<crossed, outside>>
    BY NoUpdateIsIdle DEF Unassign, Assign, SaveUser, Busy, TeamInv, TeamType
  <2>3. step => updating[w].target \in Users /\ staff[updating[w].target] \in Account
    BY <2>2 DEF Update, TeamInv, TeamType
  <2>4. PICK t, before : t = updating[w].target /\ before = staff[t]
    OBVIOUS
  <2>5. CASE Unassign(w)
    <3>1. PICK at \in {"assign", "save"} :
            updating' = [updating EXCEPT ![w] = [updating[w] EXCEPT !.at = at]]
      BY <2>5 DEF Unassign, TeamInv, TeamType
    <3>2. PICK scopes :
            /\ scopes \subseteq before.scopes
            /\ staff' = [staff EXCEPT ![t] = [before EXCEPT !.scopes = scopes]]
      <4>1. PICK gone : staff' = [staff EXCEPT ![t].scopes = @ \ gone]
        BY <2>4, <2>5 DEF Unassign
      <4>2. staff' = [staff EXCEPT ![t] = [before EXCEPT !.scopes = before.scopes \ gone]]
        BY <2>3, <2>4, <2>5, <4>1 DEF TeamInv, TeamType
      <4> QED
        BY <4>2
    <3>3. [before EXCEPT !.scopes = scopes] \in Account
      BY <2>3, <2>4, <2>5, <3>2 DEF Account
    <3>4. /\ [updating[w] EXCEPT !.at = at] \in Update
          /\ [updating[w] EXCEPT !.at = at].target = t
      BY <2>2, <2>4, <2>5, <3>1 DEF Update
    <3> QED
      BY <2>2, <2>3, <2>4, <2>5, <3>1, <3>2, <3>3, <3>4, TeamWorks
  <2>6. CASE Assign(w)
    <3>1. PICK scopes :
            /\ scopes \subseteq Shops \X Scopes
            /\ staff' = [staff EXCEPT ![t] = [before EXCEPT !.scopes = scopes]]
      <4> DEFINE pair == <<updating[w].store, ScopeOf(updating[w].role)>>
      <4>1. staff' = [staff EXCEPT ![t].scopes = @ \cup {pair}]
        BY <2>4, <2>6 DEF Assign
      <4>2. pair \in Shops \X Scopes
        BY <2>2, <2>6 DEF Update, ScopeOf, Scopes
      <4>3. before.scopes \subseteq Shops \X Scopes
        BY <2>3, <2>4, <2>6 DEF Account
      <4> HIDE DEF pair
      <4>4. staff' = [staff EXCEPT ![t] = [before EXCEPT !.scopes = before.scopes \cup {pair}]]
        BY <2>3, <2>4, <2>6, <4>1 DEF TeamInv, TeamType
      <4> QED
        BY <4>2, <4>3, <4>4
    <3>2. PICK p \in Shops \cup {0} :
            updating' = [updating EXCEPT ![w] = [updating[w] EXCEPT !.at = "save", !.prefers = p]]
      <4>1. PICK p \in Shops \cup {0} :
              p = IF updating[w].prefers = 0 THEN updating[w].store ELSE updating[w].prefers
        BY <2>2, <2>6 DEF Update
      <4> QED
        BY <2>6, <4>1 DEF Assign, TeamInv, TeamType
    <3>3. [before EXCEPT !.scopes = scopes] \in Account
      BY <2>3, <2>4, <2>6, <3>1 DEF Account
    <3>4. /\ [updating[w] EXCEPT !.at = "save", !.prefers = p] \in Update
          /\ [updating[w] EXCEPT !.at = "save", !.prefers = p].target = t
      BY <2>2, <2>4, <2>6 DEF Update
    <3> QED
      BY <2>2, <2>3, <2>4, <2>6, <3>1, <3>2, <3>3, <3>4, TeamWorks
  <2>7. CASE SaveUser(w)
    <3> DEFINE rec == [before EXCEPT !.role = updating[w].role, !.active = updating[w].active,
                                     !.prefers = updating[w].prefers]
    <3>1. staff' = [staff EXCEPT ![t] = rec]
      BY <2>3, <2>4, <2>7 DEF SaveUser, TeamInv, TeamType
    <3>2. rec \in Account
      BY <2>2, <2>3, <2>4, <2>7 DEF Account, Update, Roles
    <3>3. updating' = [updating EXCEPT ![w] = NoUpdate]
      BY <2>7 DEF SaveUser
    <3> HIDE DEF rec
    <3> QED
      BY <2>2, <2>3, <2>4, <2>7, <3>1, <3>2, <3>3, TeamWorks
  <2> QED
    BY <1>3, <2>1, <2>5, <2>6, <2>7 DEF Serve
<1>4. ASSUME NEW w \in Workers, Die(w)
      PROVE  TeamInv'
  BY <1>4, TeamRests DEF Die
<1>5. CASE UNCHANGED vars
  BY <1>5, TeamStill DEF vars, teamVars
<1> QED
  BY <1>1, <1>2, <1>3, <1>4, <1>5 DEF Next

\* A store keeps someone who may sign in and change its team, as long as accounts
\* that manage it are changed by their like alone, and no account acts while an
\* update of it runs (update_scoped_user: no one updates the own account).
THEOREM ManagerIsKept == Spec => []KeepsManager
<1>1. TeamInv => KeepsManager
  BY DEF TeamInv, KeepsManager, Manages
<1> QED
  BY <1>1, TeamInit, TeamStep, PTL DEF Spec

-----------------------------------------------------------------------------
(* Notifications *)

NoticeRow == [user: Users, alert: Nat, sent: BOOLEAN, read: BOOLEAN]

NoticeInv ==
    /\ alerts \in Nat
    /\ notice \in Seq(NoticeRow)

\* What one save of a row may do to the others, and to itself.
Kept ==
    \A n \in DOMAIN notice : /\ n \in DOMAIN notice'
                             /\ notice[n].read => notice'[n].read
                             /\ notice[n].sent => notice'[n].sent

\* An alert names everyone it is for, in some order.
LEMMA RecipientsAreUsers ==
    ASSUME NEW roles
    PROVE  Recipients(roles) \in Seq(Users)
<1> DEFINE S == {r[1] : r \in JoinRows(roles)}
<1>1. S \subseteq Users
  BY DEF JoinRows
<1>2. IsFiniteSet(S) /\ Cardinality(S) \in Nat
  BY <1>1, DeskAssumption, FS_Subset, FS_CardinalityType
<1>3. \E f \in [1 .. Cardinality(S) -> S] : IsInjective(f)
  BY <1>2, FS_CardinalityType DEF ExistsBijection, Bijection, Injection
<1>4. Recipients(roles) = SetToSeq(S)
  BY DEF Recipients
<1> HIDE DEF S
<1>5. SetToSeq(S) \in [1 .. Cardinality(S) -> S]
  BY <1>3 DEF SetToSeq
<1> QED
  BY <1>1, <1>2, <1>4, <1>5

LEMMA Overwritten ==
    ASSUME NoticeInv, NEW k, NEW rec, notice' = [notice EXCEPT ![k] = rec],
           k \in DOMAIN notice =>
             /\ rec \in NoticeRow
             /\ notice[k].read => rec.read
             /\ notice[k].sent => rec.sent
    PROVE  notice' \in Seq(NoticeRow) /\ Kept
<1>1. DOMAIN notice = 1 .. Len(notice) /\ \A n \in DOMAIN notice : notice[n] \in NoticeRow
  BY DEF NoticeInv
<1>2. /\ DOMAIN notice' = DOMAIN notice
      /\ \A n \in DOMAIN notice : notice'[n] = IF n = k THEN rec ELSE notice[n]
  OBVIOUS
<1>3. Kept
  BY <1>2 DEF Kept
<1>4. notice' \in [1 .. Len(notice) -> NoticeRow]
  BY <1>1, <1>2
<1> QED
  BY <1>3, <1>4 DEF NoticeInv

\* A task or a click saves the row it is about as it now is, with one mark more.
LEMMA Marked ==
    ASSUME NoticeInv, NEW k, NEW rec,
           \/ rec = [notice[k] EXCEPT !.sent = TRUE]
           \/ rec = [notice[k] EXCEPT !.read = TRUE],
           notice' = [notice EXCEPT ![k] = rec]
    PROVE  notice' \in Seq(NoticeRow) /\ Kept
<1>1. k \in DOMAIN notice => notice[k] \in NoticeRow
  BY DEF NoticeInv
<1>2. k \in DOMAIN notice => /\ rec \in NoticeRow
                             /\ notice[k].read => rec.read
                             /\ notice[k].sent => rec.sent
  BY <1>1 DEF NoticeRow
<1> QED
  BY <1>2, Overwritten

LEMMA NoticeStep ==
    ASSUME NoticeInv, [Next]_vars
    PROVE  NoticeInv' /\ Kept
<1>1. CASE UNCHANGED <<notice, alerts>>
  BY <1>1 DEF NoticeInv, Kept
<1>2. ASSUME NEW roles, Alert(roles)
      PROVE  NoticeInv' /\ Kept
  <2> DEFINE told == Recipients(roles)
             rows == [i \in DOMAIN told |->
                        [user |-> told[i], alert |-> alerts', sent |-> FALSE, read |-> FALSE]]
  <2>1. told \in Seq(Users)
    BY RecipientsAreUsers
  <2>2. alerts' \in Nat /\ notice' = notice \o rows
    BY <1>2 DEF Alert, NoticeInv
  <2>3. rows \in Seq(NoticeRow)
    <3>1. \A i \in DOMAIN told : told[i] \in Users
      BY <2>1
    <3>2. rows \in [1 .. Len(told) -> NoticeRow]
      BY <2>1, <2>2, <3>1 DEF NoticeRow
    <3> QED
      BY <2>1, <3>2
  <2> HIDE DEF rows, told
  <2>4. /\ notice' \in Seq(NoticeRow)
        /\ Len(notice') = Len(notice) + Len(rows)
        /\ \A n \in 1 .. Len(notice) : notice'[n] = notice[n]
    BY <2>2, <2>3, ConcatProperties DEF NoticeInv
  <2> QED
    BY <2>2, <2>3, <2>4 DEF NoticeInv, Kept
<1>3. ASSUME SaveSent \/ \E saved \in BOOLEAN : DispatchFails(saved)
      PROVE  NoticeInv' /\ Kept
  <2>1. UNCHANGED alerts
    BY <1>3 DEF SaveSent, DispatchFails
  <2>2. PICK k : \/ UNCHANGED notice
                 \/ notice' = [notice EXCEPT ![k] = [notice[k] EXCEPT !.sent = TRUE]]
    BY <1>3 DEF SaveSent, DispatchFails, Sent
  <2> QED
    BY <1>1, <2>1, <2>2, Marked DEF NoticeInv
<1>4. ASSUME NEW u \in Users, SaveRead(u)
      PROVE  NoticeInv' /\ Kept
  <2>1. UNCHANGED alerts
    BY <1>4 DEF SaveRead
  <2>2. PICK k : notice' = [notice EXCEPT ![k] = [notice[k] EXCEPT !.read = TRUE]]
    BY <1>4 DEF SaveRead, Read
  <2> QED
    BY <2>1, <2>2, Marked DEF NoticeInv
<1>5. ASSUME NEW u \in Users, ReadAll(u)
      PROVE  NoticeInv' /\ Kept
  <2>1. UNCHANGED alerts
    BY <1>5 DEF ReadAll
  <2>2. /\ DOMAIN notice' = DOMAIN notice
        /\ \A n \in DOMAIN notice : notice'[n] = IF notice[n].user = u
                                                 THEN [notice[n] EXCEPT !.read = TRUE]
                                                 ELSE notice[n]
        /\ notice' = [n \in DOMAIN notice |-> notice'[n]]
    BY <1>5 DEF ReadAll
  <2>3. \A n \in DOMAIN notice : notice[n] \in NoticeRow
    BY DEF NoticeInv
  <2>4. \A n \in DOMAIN notice : /\ notice'[n] \in NoticeRow
                                 /\ notice[n].read => notice'[n].read
                                 /\ notice[n].sent => notice'[n].sent
    BY <2>2, <2>3 DEF NoticeRow
  <2>5. notice' \in [1 .. Len(notice) -> NoticeRow]
    BY <2>2, <2>4 DEF NoticeInv
  <2> QED
    BY <2>1, <2>2, <2>4, <2>5 DEF NoticeInv, Kept
<1>6. CASE Delivery
  <2>1. \/ \E roles \in AlertRoles : Alert(roles)
        \/ SaveSent \/ \E saved \in BOOLEAN : DispatchFails(saved)
        \/ \E u \in Users : SaveRead(u) \/ ReadAll(u)
        \/ UNCHANGED <<notice, alerts>>
    BY <1>6 DEF Delivery, Deliver, Fault, Mark, Queue, QueueFails, Take, KillWorker, Click
  <2> QED
    BY <1>1, <1>2, <1>3, <1>4, <1>5, <2>1
<1>7. ASSUME NEW w \in Workers, Begin(w) \/ Serve(w) \/ Die(w)
      PROVE  UNCHANGED <<notice, alerts>>
  BY <1>7 DEF Begin, Serve, Die, deliveryVars
<1>8. CASE UNCHANGED vars
  BY <1>1, <1>8 DEF vars, deliveryVars
<1> QED
  BY <1>1, <1>6, <1>7, <1>8 DEF Next

\* What a user has read stays read and what was sent stays sent, though tasks
\* and clicks save rows they read before others saved theirs
\* (dispatch_notification_async and NotificationMarkReadView save one field).
THEOREM MarksStay == Spec => SentAndReadStay
<1>1. Init => NoticeInv
  BY DEF Init, NoticeInit, NoticeInv
<1>2. NoticeInv /\ [Next]_vars => NoticeInv'
  BY NoticeStep
<1>3. NoticeInv /\ [Next]_vars =>
        [\A n \in DOMAIN notice : /\ notice[n].read => notice'[n].read
                                  /\ notice[n].sent => notice'[n].sent]_notice
  BY NoticeStep DEF Kept
<1> QED
  BY <1>1, <1>2, <1>3, PTL DEF Spec, SentAndReadStay

-----------------------------------------------------------------------------
(* The support: what a request of it may be *)

Line == [role: {"user", "assistant", "system"}, q: Nat]
Convo == [open: BOOLEAN, linked: BOOLEAN, said: Seq(Line)]

Visiting == [op: {"visit"}, goal: {"home", "new"}, c: Nat,
             at: {"look", "again", "create", "recreate", "check", "greet"}]
Sending == [op: {"send"}, c: Nat, q: Nat \ {0}, row: Convo, attempts: Int,
            at: {"ask", "question", "answer", "save"}]
Escalating == [op: {"escalate"}, c: Nat]
Chat == {Idle} \cup Visiting \cup Sending \cup Escalating

\* The request is in conversation c.
In(x, c) == x.op \in {"send", "escalate"} /\ x.c = c

ChatType ==
    /\ convo \in Seq(Convo)
    /\ chat \in [Workers -> Chat]
    /\ asked \in Nat
    /\ \A w \in Workers : \A c : In(chat[w], c) => c \in DOMAIN convo

\* The request of w goes on as x, or ends.
Moves(w, x) == chat' = [chat EXCEPT ![w] = x]

LEMMA ChatFields ==
    ASSUME NEW x \in Chat
    PROVE  /\ x.op \in {"idle", "visit", "send", "escalate"}
           /\ x.op = "idle" => x = Idle
           /\ x.op = "visit" => x \in Visiting
           /\ x.op = "send" => x \in Sending
           /\ x.op = "escalate" => x \in Escalating
BY DEF Chat, Idle, Visiting, Sending, Escalating

LEMMA Moved ==
    ASSUME ChatType, NEW w \in Workers, NEW x, Moves(w, x)
    PROVE  chat'[w] = x /\ \A v \in Workers : v # w => chat'[v] = chat[v]
BY DEF ChatType, Moves

\* Nothing is said, opened or begun anew.
LEMMA TypeKept ==
    ASSUME ChatType, NEW w \in Workers, NEW x \in Chat, Moves(w, x),
           convo' \in Seq(Convo), DOMAIN convo \subseteq DOMAIN convo', asked' \in Nat,
           \A c : In(x, c) => c \in DOMAIN convo'
    PROVE  ChatType'
<1>1. chat' \in [Workers -> Chat]
  BY DEF ChatType, Moves
<1>2. ASSUME NEW v \in Workers, NEW c, In(chat'[v], c)
      PROVE  c \in DOMAIN convo'
  <2>1. CASE v = w
    BY <1>2, <2>1, Moved
  <2>2. CASE v # w
    <3>1. In(chat[v], c)
      BY <1>2, <2>2, Moved
    <3> QED
      BY <3>1 DEF ChatType
  <2> QED
    BY <2>1, <2>2
<1> QED
  BY <1>1, <1>2 DEF ChatType, In

-----------------------------------------------------------------------------
(* The steps of a request, by what becomes of it and of its conversation *)

Says(c, line) == convo' = [convo EXCEPT ![c].said = Append(@, line)]

\* Every conversation has said what it said, and none was opened.
Quietly ==
    /\ convo' \in Seq(Convo) /\ DOMAIN convo' = DOMAIN convo
    /\ \A c \in DOMAIN convo : convo'[c].said = convo[c].said /\ (convo'[c].open => convo[c].open)

LEMMA ConvoFields ==
    ASSUME ChatType, NEW c \in DOMAIN convo
    PROVE  convo[c] \in Convo /\ convo[c].open \in BOOLEAN /\ convo[c].said \in Seq(Line)
<1>1. convo[c] \in Convo
  BY DEF ChatType
<1> QED
  BY <1>1 DEF Convo

LEMMA ConvoSet ==
    ASSUME ChatType, NEW c, NEW rec, c \in DOMAIN convo => rec \in Convo,
           convo' = [convo EXCEPT ![c] = rec]
    PROVE  /\ convo' \in Seq(Convo) /\ DOMAIN convo' = DOMAIN convo
           /\ \A d \in DOMAIN convo : convo'[d] = IF d = c THEN rec ELSE convo[d]
<1>1. /\ DOMAIN convo = 1 .. Len(convo) /\ Len(convo) \in Nat
      /\ \A d \in DOMAIN convo : convo[d] \in Convo
  BY DEF ChatType
<1>2. convo' \in [1 .. Len(convo) -> Convo]
  BY <1>1
<1> QED
  BY <1>1, <1>2

LEMMA QuietSame == ASSUME ChatType, UNCHANGED convo PROVE Quietly
BY DEF ChatType, Quietly

LEMMA QuietFlags ==
    ASSUME ChatType, NEW c, NEW rec,
           \/ rec = [convo[c] EXCEPT !.open = FALSE]
           \/ \E linked \in BOOLEAN : rec = [convo[c] EXCEPT !.linked = linked],
           convo' = [convo EXCEPT ![c] = rec]
    PROVE  Quietly
<1>1. c \in DOMAIN convo => rec \in Convo /\ rec.said = convo[c].said /\ (rec.open => convo[c].open)
  <2> SUFFICES ASSUME c \in DOMAIN convo
               PROVE  rec \in Convo /\ rec.said = convo[c].said /\ (rec.open => convo[c].open)
    OBVIOUS
  <2>1. convo[c] \in Convo
    BY ConvoFields
  <2> QED
    BY <2>1 DEF Convo
<1> QED
  BY <1>1, ConvoSet DEF Quietly

\* A line is added.
Adds(c, line) ==
    /\ convo' \in Seq(Convo) /\ DOMAIN convo' = DOMAIN convo
    /\ \A d \in DOMAIN convo :
         /\ convo'[d].said = IF d = c THEN Append(convo[d].said, line) ELSE convo[d].said
         /\ convo'[d].open = convo[d].open

LEMMA SaysAdds ==
    ASSUME ChatType, NEW c, NEW line \in Line, Says(c, line)
    PROVE  Adds(c, line)
<1>1. PICK rec : rec = [convo[c] EXCEPT !.said = Append(convo[c].said, line)]
  OBVIOUS
<1>2. convo' = [convo EXCEPT ![c] = rec]
  BY <1>1 DEF Says
<1>3. c \in DOMAIN convo => /\ rec \in Convo /\ rec.open = convo[c].open
                            /\ rec.said = Append(convo[c].said, line)
  <2> SUFFICES ASSUME c \in DOMAIN convo
               PROVE  /\ rec \in Convo /\ rec.open = convo[c].open
                      /\ rec.said = Append(convo[c].said, line)
    OBVIOUS
  <2>1. convo[c] \in Convo /\ Append(convo[c].said, line) \in Seq(Line)
    BY ConvoFields
  <2> QED
    BY <1>1, <2>1 DEF Convo
<1> QED
  BY <1>2, <1>3, ConvoSet DEF Adds

-----------------------------------------------------------------------------
(* The support: the invariant *)

Visits(x) == x.op = "visit"
Creating(x) == x.op = "visit" /\ x.at \in {"create", "recreate"}
NoneOpen == \A c \in DOMAIN convo : ~convo[c].open

\* Visits that do not overlap are one at most, and one that is about to create a
\* conversation saw the last one closed.
OneInv ==
    0 \notin tangled =>
      /\ \A v, w \in Workers : Visits(chat[v]) /\ Visits(chat[w]) => v = w
      /\ \A c, d \in DOMAIN convo : convo[c].open /\ convo[d].open => c = d
      /\ \A w \in Workers : Creating(chat[w]) => NoneOpen

\* The question q is recorded and its answer is next.
Answering(x, c, q) == x.op = "send" /\ x.c = c /\ x.at = "answer" /\ x.q = q

Answered(said, i) == \E j \in DOMAIN said : Answers(said, i, j)

Followed(c) ==
    \A i \in DOMAIN convo[c].said : convo[c].said[i].role = "user" =>
      \/ Answered(convo[c].said, i)
      \/ /\ IsLast(convo[c].said, i)
         /\ \E w \in Workers : Answering(chat[w], c, convo[c].said[i].q)

Alone(c) == \A v, w \in Workers : In(chat[v], c) /\ In(chat[w], c) => v = w

AnswerInv == \A c \in DOMAIN convo \ tangled : Alone(c) /\ Followed(c)

ChatInv == ChatType /\ OneInv /\ AnswerInv

LEMMA OneKept ==
    ASSUME ChatInv, NEW w \in Workers, NEW x, Moves(w, x), tangled \subseteq tangled',
           DOMAIN convo' = DOMAIN convo, \A c \in DOMAIN convo : convo'[c].open => convo[c].open,
           Visits(x) => Visits(chat[w]),
           Creating(x) => Creating(chat[w]) \/ NoneOpen
    PROVE  OneInv'
<1>1. /\ \A v \in Workers : Visits(chat'[v]) => Visits(chat[v])
      /\ \A v \in Workers : Creating(chat'[v]) => Creating(chat[v]) \/ NoneOpen
  BY Moved DEF ChatInv
<1>2. NoneOpen => NoneOpen'
  BY DEF NoneOpen
<1> QED
  BY <1>1, <1>2 DEF ChatInv, OneInv, Visits, Creating

LEMMA AloneKept ==
    ASSUME ChatInv, NEW w \in Workers, NEW x, Moves(w, x), NEW c \in DOMAIN convo \ tangled,
           In(x, c) => In(chat[w], c)
    PROVE  Alone(c)'
<1>1. \A v \in Workers : In(chat'[v], c) => In(chat[v], c)
  BY Moved DEF ChatInv
<1> QED
  BY <1>1 DEF ChatInv, AnswerInv, Alone, In

\* Nothing is said, and the question that is being answered still is.
LEMMA FollowedKept ==
    ASSUME ChatInv, NEW w \in Workers, NEW x, Moves(w, x), NEW c \in DOMAIN convo \ tangled,
           convo'[c].said = convo[c].said,
           \A q : Answering(chat[w], c, q) => Answering(x, c, q)
    PROVE  Followed(c)'
<1>1. \A v \in Workers : \A q : Answering(chat[v], c, q) => Answering(chat'[v], c, q)
  BY Moved DEF ChatInv
<1>2. Followed(c)
  BY DEF ChatInv, AnswerInv
<1> QED
  BY <1>1, <1>2 DEF Followed, Answering

\* A request goes on or ends without a word.
LEMMA QuietStep ==
    ASSUME ChatInv, NEW w \in Workers, NEW x \in Chat, Moves(w, x), Quietly,
           UNCHANGED asked, tangled \subseteq tangled',
           Visits(x) => Visits(chat[w]),
           Creating(x) => Creating(chat[w]) \/ NoneOpen,
           \A c : In(x, c) => In(chat[w], c),
           \A c, q : Answering(chat[w], c, q) => Answering(x, c, q) \/ c \in tangled'
    PROVE  ChatInv'
<1>1. ChatType'
  BY TypeKept DEF ChatInv, ChatType, Quietly
<1>2. OneInv'
  BY OneKept DEF Quietly
<1>3. ASSUME NEW c \in (DOMAIN convo \ tangled)'
      PROVE  Alone(c)' /\ Followed(c)'
  <2>1. c \in DOMAIN convo \ tangled /\ convo'[c].said = convo[c].said
    BY DEF Quietly
  <2> QED
    BY <2>1, AloneKept, FollowedKept
<1> QED
  BY <1>1, <1>2, <1>3 DEF ChatInv, AnswerInv

\* A request in a conversation begins.
LEMMA EnterStep ==
    ASSUME ChatInv, NEW w \in Workers, NEW x \in Chat, Moves(w, x), Quietly, asked' \in Nat,
           Resting(w), NEW c \in DOMAIN convo, In(x, c), \A q : ~Answering(x, c, q),
           tangled' = IF Meets(w, c) THEN tangled \cup {c} ELSE tangled
    PROVE  ChatInv'
<1>1. ChatType'
  BY TypeKept DEF ChatInv, Quietly, In
<1>2. ~Visits(x) /\ ~Creating(x)
  BY DEF In, Visits, Creating
<1>3. OneInv'
  BY <1>2, OneKept DEF Quietly
<1>4. ASSUME NEW d \in (DOMAIN convo \ tangled)'
      PROVE  Alone(d)' /\ Followed(d)'
  <2>1. d \in DOMAIN convo \ tangled /\ convo'[d].said = convo[d].said
    BY DEF Quietly
  <2>2. \A q : ~Answering(chat[w], d, q)
    BY DEF Resting, Idle, Answering
  <2>3. Followed(d)'
    BY <2>1, <2>2, FollowedKept
  <2>4. CASE d # c
    <3>1. ~In(x, d)
      BY <2>4 DEF In
    <3> QED
      BY <2>1, <2>3, <3>1, AloneKept
  <2>5. CASE d = c
    <3>1. ~Meets(w, c)
      BY <2>5
    <3>2. \A v \in Workers : v # w => ~In(chat'[v], c)
      BY <3>1, Moved DEF ChatInv, Meets, In
    <3>3. Alone(c)'
      BY <3>2 DEF Alone, In
    <3> QED
      BY <2>3, <2>5, <3>3
  <2> QED
    BY <2>4, <2>5
<1> QED
  BY <1>1, <1>3, <1>4 DEF ChatInv, AnswerInv

-----------------------------------------------------------------------------
(* The support: what is said *)

LEMMA LineRest ==
    ASSUME ChatInv, NEW w \in Workers, NEW x \in Chat, Moves(w, x), UNCHANGED <<asked, tangled>>,
           NEW c, NEW line, Adds(c, line),
           ~Visits(x), \A d : In(x, d) => In(chat[w], d)
    PROVE  /\ ChatType' /\ OneInv'
           /\ \A d \in (DOMAIN convo \ tangled)' : Alone(d)'
<1>1. ChatType'
  BY TypeKept DEF ChatInv, ChatType, Adds
<1>2. OneInv'
  BY OneKept DEF Adds, Visits, Creating
<1> QED
  BY <1>1, <1>2, AloneKept DEF Adds

\* What one more line does to the lines before it.
LEMMA LineAfter ==
    ASSUME NEW said \in Seq(Line), NEW line \in Line
    PROVE  LET now == Append(said, line)
           IN  /\ DOMAIN now = DOMAIN said \cup {Len(said) + 1}
               /\ now[Len(said) + 1] = line
               /\ \A i \in DOMAIN said :
                    /\ now[i] = said[i]
                    /\ Answered(said, i) => Answered(now, i)
                    /\ IsLast(said, i) /\ line.q = 0 => IsLast(now, i)
                    /\ IsLast(said, i) /\ line = Message("assistant", said[i].q) => Answered(now, i)
               /\ IsLast(now, Len(said) + 1)
<1> DEFINE now == Append(said, line)
           last == Len(said) + 1
<1>1. /\ DOMAIN said = 1 .. Len(said) /\ Len(said) \in Nat /\ Len(now) = last
      /\ DOMAIN now = DOMAIN said \cup {last} /\ now[last] = line
      /\ \A i \in DOMAIN said : now[i] = said[i]
  OBVIOUS
<1> HIDE DEF now
<1>2. ASSUME NEW i \in DOMAIN said, Answered(said, i)
      PROVE  Answered(now, i)
  <2>1. PICK j \in DOMAIN said : Answers(said, i, j)
    BY <1>2 DEF Answered
  <2>2. Answers(now, i, j)
    BY <1>1, <2>1 DEF Answers
  <2> QED
    BY <1>1, <2>2 DEF Answered
<1>3. ASSUME NEW i \in DOMAIN said, IsLast(said, i), line.q = 0
      PROVE  IsLast(now, i)
  BY <1>1, <1>3 DEF IsLast
<1>4. ASSUME NEW i \in DOMAIN said, IsLast(said, i), line = Message("assistant", said[i].q)
      PROVE  Answered(now, i)
  <2>1. Answers(now, i, last)
    BY <1>1, <1>4 DEF Answers, IsLast
  <2> QED
    BY <1>1, <2>1 DEF Answered
<1>5. IsLast(now, last)
  BY <1>1 DEF IsLast
<1> QED
  BY <1>1, <1>2, <1>3, <1>4, <1>5 DEF now

\* A line about no question: a greeting, or the note of an escalation.
LEMMA NotedStep ==
    ASSUME ChatInv, NEW w \in Workers, Moves(w, Idle), UNCHANGED <<asked, tangled>>,
           NEW c, NEW line \in Line, Says(c, line), line.q = 0, line.role # "user",
           chat[w].op # "send"
    PROVE  ChatInv'
<1>1. Idle \in Chat /\ ~Visits(Idle) /\ \A d : ~In(Idle, d)
  BY DEF Chat, Idle, Visits, In
<1>2. Adds(c, line)
  BY SaysAdds DEF ChatInv
<1>3. ChatType' /\ OneInv' /\ \A d \in (DOMAIN convo \ tangled)' : Alone(d)'
  BY <1>1, <1>2, LineRest
<1>4. ASSUME NEW d \in (DOMAIN convo \ tangled)'
      PROVE  Followed(d)'
  <2>1. d \in DOMAIN convo \ tangled /\ convo[d].said \in Seq(Line) /\ Followed(d)
    BY <1>2, ConvoFields DEF Adds, ChatInv, AnswerInv
  <2>2. \A v \in Workers : \A q : Answering(chat[v], d, q) => Answering(chat'[v], d, q)
    BY Moved DEF ChatInv, Answering
  <2>3. CASE d # c
    <3>1. convo'[d].said = convo[d].said
      BY <1>2, <2>1, <2>3 DEF Adds
    <3> QED
      BY <2>1, <2>2, <3>1 DEF Followed
  <2>4. CASE d = c
    <3> DEFINE said == convo[d].said
    <3>1. convo'[d].said = Append(said, line)
      BY <1>2, <2>1, <2>4 DEF Adds
    <3>2. \A i \in DOMAIN said : said[i].role = "user" =>
            \/ Answered(said, i)
            \/ IsLast(said, i) /\ \E v \in Workers : Answering(chat'[v], d, said[i].q)
      BY <2>1, <2>2 DEF Followed
    <3> HIDE DEF said
    <3> QED
      BY <2>1, <3>1, <3>2, LineAfter DEF Followed, said
  <2> QED
    BY <2>3, <2>4
<1> QED
  BY <1>3, <1>4 DEF ChatInv, AnswerInv

\* The question is recorded: the ones before it have their answers.
LEMMA QuestionStep ==
    ASSUME ChatInv, NEW w \in Workers, RecordQuestion(w)
    PROVE  ChatInv'
<1>1. PICK x : x = [chat[w] EXCEPT !.at = "answer"]
  OBVIOUS
<1>2. PICK c, q : c = chat[w].c /\ q = chat[w].q
  OBVIOUS
<1>3. chat[w] \in Sending /\ chat[w].at = "question"
  BY ChatFields DEF RecordQuestion, ChatInv, ChatType
<1>4. /\ x \in Sending /\ ~Visits(x) /\ Answering(x, c, q)
      /\ \A d : In(x, d) => In(chat[w], d) /\ d = c
  BY <1>1, <1>2, <1>3 DEF Sending, Visits, Answering, In
<1>5. Moves(w, x) /\ UNCHANGED <<asked, tangled>>
  BY <1>1 DEF RecordQuestion, Goes, Moves
<1>6. PICK line : line = Message("user", q)
  OBVIOUS
<1>7. line \in Line /\ line.q = q /\ line.role = "user" /\ q # 0
  BY <1>2, <1>3, <1>6 DEF Line, Message, Sending
<1>8. Adds(c, line)
  <2>1. Says(c, line)
    BY <1>2, <1>6 DEF RecordQuestion, Say, Says
  <2> QED
    BY <1>7, <2>1, SaysAdds DEF ChatInv
<1>9. ChatType' /\ OneInv' /\ \A d \in (DOMAIN convo \ tangled)' : Alone(d)'
  <2>1. x \in Chat
    BY <1>4 DEF Chat
  <2> QED
    BY <1>4, <1>5, <1>8, <2>1, LineRest
<1>10. ASSUME NEW d \in (DOMAIN convo \ tangled)'
       PROVE  Followed(d)'
  <2>1. /\ d \in DOMAIN convo \ tangled /\ convo[d].said \in Seq(Line)
        /\ Followed(d) /\ Alone(d)
    BY <1>5, <1>8, ConvoFields DEF Adds, ChatInv, AnswerInv
  <2>2. /\ chat'[w] = x /\ \A v \in Workers : v # w => chat'[v] = chat[v]
    BY <1>5, Moved DEF ChatInv
  <2>3. \A r : ~Answering(chat[w], d, r)
    BY <1>3 DEF Answering
  <2>4. CASE d # c
    <3>1. convo'[d].said = convo[d].said
      BY <1>8, <2>1, <2>4 DEF Adds
    <3>2. \A v \in Workers : \A r : Answering(chat[v], d, r) => Answering(chat'[v], d, r)
      BY <2>2, <2>3
    <3> QED
      BY <2>1, <3>1, <3>2 DEF Followed
  <2>5. CASE d = c
    <3> DEFINE said == convo[d].said
    <3>1. convo'[d].said = Append(said, line)
      BY <1>8, <2>1, <2>5 DEF Adds
    <3>2. In(chat[w], d)
      BY <1>2, <1>3, <2>5 DEF In, Sending
    <3>3. \A v \in Workers : \A r : ~Answering(chat[v], d, r)
      BY <2>1, <2>3, <3>2 DEF Alone, In, Answering
    <3>4. \A i \in DOMAIN said : said[i].role = "user" => Answered(said, i)
      BY <2>1, <3>3 DEF Followed
    <3>5. Answering(chat'[w], d, line.q)
      BY <1>4, <1>7, <2>2, <2>5
    <3> HIDE DEF said
    <3> QED
      BY <1>7, <2>1, <3>1, <3>4, <3>5, LineAfter DEF Followed, said
  <2> QED
    BY <2>4, <2>5
<1> QED
  BY <1>9, <1>10 DEF ChatInv, AnswerInv

\* The answer is recorded: the question before it is its own.
LEMMA AnswerStep ==
    ASSUME ChatInv, NEW w \in Workers, RecordAnswer(w)
    PROVE  ChatInv'
<1>1. PICK x : x = [chat[w] EXCEPT !.at = "save"]
  OBVIOUS
<1>2. PICK c, q : c = chat[w].c /\ q = chat[w].q
  OBVIOUS
<1>3. chat[w] \in Sending /\ chat[w].at = "answer"
  BY ChatFields DEF RecordAnswer, ChatInv, ChatType
<1>4. /\ x \in Sending /\ ~Visits(x)
      /\ \A d : In(x, d) => In(chat[w], d) /\ d = c
  BY <1>1, <1>2, <1>3 DEF Sending, Visits, In
<1>5. Moves(w, x) /\ UNCHANGED <<asked, tangled>>
  BY <1>1 DEF RecordAnswer, Goes, Moves
<1>6. PICK line : line = Message("assistant", q)
  OBVIOUS
<1>7. line \in Line /\ line.role # "user"
  BY <1>2, <1>3, <1>6 DEF Line, Message, Sending
<1>8. Adds(c, line)
  <2>1. Says(c, line)
    BY <1>2, <1>6 DEF RecordAnswer, Replied, Say, Says
  <2> QED
    BY <1>7, <2>1, SaysAdds DEF ChatInv
<1>9. ChatType' /\ OneInv' /\ \A d \in (DOMAIN convo \ tangled)' : Alone(d)'
  <2>1. x \in Chat
    BY <1>4 DEF Chat
  <2> QED
    BY <1>4, <1>5, <1>8, <2>1, LineRest
<1>10. ASSUME NEW d \in (DOMAIN convo \ tangled)'
       PROVE  Followed(d)'
  <2>1. /\ d \in DOMAIN convo \ tangled /\ convo[d].said \in Seq(Line)
        /\ Followed(d) /\ Alone(d)
    BY <1>5, <1>8, ConvoFields DEF Adds, ChatInv, AnswerInv
  <2>2. /\ chat'[w] = x /\ \A v \in Workers : v # w => chat'[v] = chat[v]
    BY <1>5, Moved DEF ChatInv
  <2>3. CASE d # c
    <3>1. convo'[d].said = convo[d].said
      BY <1>8, <2>1, <2>3 DEF Adds
    <3>2. \A v \in Workers : \A r : Answering(chat[v], d, r) => Answering(chat'[v], d, r)
      BY <1>2, <2>2, <2>3 DEF Answering
    <3> QED
      BY <2>1, <3>1, <3>2 DEF Followed
  <2>4. CASE d = c
    <3> DEFINE said == convo[d].said
    <3>1. convo'[d].said = Append(said, line)
      BY <1>8, <2>1, <2>4 DEF Adds
    <3>2. In(chat[w], d)
      BY <1>2, <1>3, <2>4 DEF In, Sending
    <3>3. \A v \in Workers : \A r : Answering(chat[v], d, r) => r = q
      BY <1>2, <2>1, <3>2 DEF Alone, In, Answering
    <3>4. \A i \in DOMAIN said : said[i].role = "user" =>
            Answered(said, i) \/ (IsLast(said, i) /\ line = Message("assistant", said[i].q))
      BY <1>6, <2>1, <3>3 DEF Followed
    <3> HIDE DEF said
    <3> QED
      BY <1>7, <2>1, <3>1, <3>4, LineAfter DEF Followed, said
  <2> QED
    BY <2>3, <2>4
<1> QED
  BY <1>9, <1>10 DEF ChatInv, AnswerInv

-----------------------------------------------------------------------------
(* The support: every action *)

LEMMA IdleChat ==
    /\ Idle \in Chat /\ ~Visits(Idle) /\ ~Creating(Idle)
    /\ \A c : ~In(Idle, c)
    /\ \A c, q : ~Answering(Idle, c, q)
BY DEF Chat, Idle, Visits, Creating, In, Answering

LEMMA VisitingChat ==
    ASSUME NEW x \in Visiting
    PROVE  /\ x \in Chat /\ Visits(x)
           /\ \A c : ~In(x, c)
           /\ \A c, q : ~Answering(x, c, q)
           /\ x.at \notin {"create", "recreate"} => ~Creating(x)
BY DEF Chat, Visiting, Visits, In, Answering, Creating

LEMMA VisitStep == ASSUME ChatInv, NEW w \in Workers, NEW goal \in {"home", "new"}, Visit(w, goal) PROVE ChatInv'
<1>1. PICK x : x = [op |-> "visit", goal |-> goal, c |-> 0, at |-> "look"]
  OBVIOUS
<1>2. x \in Visiting /\ x \in Chat /\ Visits(x) /\ ~Creating(x) /\ \A c : ~In(x, c)
  BY <1>1, VisitingChat DEF Visiting
<1>3. Moves(w, x) /\ UNCHANGED <<convo, asked>>
  BY <1>1 DEF Visit, Moves
<1>4. /\ tangled' = IF \E v \in Workers : Visits(chat[v]) THEN tangled \cup {0} ELSE tangled
      /\ 0 \notin DOMAIN convo
  BY DEF Visit, Visits, ChatInv, ChatType
<1>5. ChatType'
  BY <1>2, <1>3, TypeKept DEF ChatInv, ChatType
<1>6. chat'[w] = x /\ \A v \in Workers : v # w => chat'[v] = chat[v]
  BY <1>3, Moved DEF ChatInv
<1>7. OneInv'
  BY <1>2, <1>3, <1>4, <1>6 DEF ChatInv, OneInv, NoneOpen, Creating, Visits
<1>8. ASSUME NEW c \in (DOMAIN convo \ tangled)'
      PROVE  Alone(c)' /\ Followed(c)'
  <2>1. c \in DOMAIN convo \ tangled /\ convo'[c].said = convo[c].said
    BY <1>3, <1>4
  <2>2. \A q : ~Answering(chat[w], c, q)
    BY DEF Visit, Resting, Idle, Answering
  <2> QED
    BY <1>2, <1>3, <2>1, <2>2, AloneKept, FollowedKept
<1> QED
  BY <1>5, <1>7, <1>8 DEF ChatInv, AnswerInv

\* The visit that found no conversation open makes the only one.
LEMMA CreateStep == ASSUME ChatInv, NEW w \in Workers, Create(w) PROVE ChatInv'
<1> DEFINE new == Len(convo) + 1
<1>1. chat[w] \in Visiting /\ chat[w].at \in {"create", "recreate"} /\ Creating(chat[w])
  BY ChatFields DEF Create, ChatInv, ChatType, Creating
<1>2. PICK x : x = [chat[w] EXCEPT !.c = new, !.at = IF chat[w].at = "create" THEN "check" ELSE "greet"]
  OBVIOUS
<1>3. new \in Nat
  BY DEF ChatInv, ChatType
<1>4. x \in Visiting /\ x \in Chat /\ Visits(x) /\ ~Creating(x) /\ \A c : ~In(x, c)
  <2>1. x \in Visiting /\ x.at \in {"check", "greet"}
    BY <1>1, <1>2, <1>3 DEF Visiting
  <2> QED
    BY <2>1, VisitingChat
<1>5. Moves(w, x) /\ UNCHANGED <<asked, tangled>>
  BY <1>2 DEF Create, Moves, ChatInv, ChatType
<1>6. /\ convo' \in Seq(Convo)
      /\ DOMAIN convo' = DOMAIN convo \cup {new} /\ new \notin DOMAIN convo
      /\ \A c \in DOMAIN convo : convo'[c] = convo[c]
      /\ convo'[new].said = <<>>
  <2>1. NewConvo \in Convo /\ NewConvo.said = <<>>
    BY DEF NewConvo, Convo
  <2> QED
    BY <2>1 DEF Create, ChatInv, ChatType
<1> HIDE DEF new
<1>7. ChatType'
  <2>1. asked' \in Nat /\ DOMAIN convo \subseteq DOMAIN convo'
    BY <1>5, <1>6 DEF ChatInv, ChatType
  <2> QED
    BY <1>4, <1>5, <1>6, <2>1, TypeKept DEF ChatInv
<1>8. chat'[w] = x /\ \A v \in Workers : v # w => chat'[v] = chat[v]
  BY <1>5, Moved DEF ChatInv
<1>9. OneInv'
  <2> SUFFICES ASSUME 0 \notin tangled
               PROVE  /\ \A v, z \in Workers : Visits(chat'[v]) /\ Visits(chat'[z]) => v = z
                      /\ \A c, d \in DOMAIN convo' : convo'[c].open /\ convo'[d].open => c = d
                      /\ \A v \in Workers : Creating(chat'[v]) => NoneOpen'
    BY <1>5 DEF OneInv
  <2>1. /\ \A v, z \in Workers : Visits(chat[v]) /\ Visits(chat[z]) => v = z
        /\ NoneOpen /\ Visits(chat[w])
    BY <1>1 DEF ChatInv, OneInv, Creating, Visits
  <2>2. \A v \in Workers : Visits(chat'[v]) => v = w
    BY <1>8, <2>1
  <2>3. \A c \in DOMAIN convo' : convo'[c].open => c = new
    BY <1>6, <2>1 DEF NoneOpen
  <2> QED
    BY <1>4, <1>8, <2>2, <2>3 DEF Creating, Visits
<1>10. ASSUME NEW c \in (DOMAIN convo \ tangled)'
       PROVE  Alone(c)' /\ Followed(c)'
  <2>1. CASE c \in DOMAIN convo
    <3>1. c \in DOMAIN convo \ tangled /\ convo'[c].said = convo[c].said
      BY <1>5, <1>6, <2>1
    <3>2. \A q : ~Answering(chat[w], c, q)
      BY <1>1 DEF Answering, Creating
    <3> QED
      BY <1>4, <1>5, <3>1, <3>2, AloneKept, FollowedKept
  <2>2. CASE c = new
    <3>1. \A v \in Workers : ~In(chat'[v], c)
      BY <1>4, <1>6, <1>8, <2>2 DEF ChatInv, ChatType
    <3>2. DOMAIN convo'[c].said = {}
      BY <1>6, <2>2
    <3> QED
      BY <3>1, <3>2 DEF Alone, Followed
  <2> QED
    BY <1>6, <2>1, <2>2
<1> QED
  BY <1>7, <1>9, <1>10 DEF ChatInv, AnswerInv

\* A visit looks, checks what it found, or closes it.
LEMMA LookStep ==
    ASSUME ChatInv, NEW w \in Workers, Look(w) \/ LookInVain(w) \/ Check(w)
    PROVE  ChatInv'
<1>1. chat[w] \in Visiting /\ Visits(chat[w]) /\ UNCHANGED <<asked, tangled>>
  BY ChatFields DEF Look, LookInVain, Check, ChatInv, ChatType, Visits
<1>2. Quietly
  <2>1. CASE UNCHANGED convo
    BY <2>1, QuietSame DEF ChatInv
  <2>2. CASE Check(w) /\ ~UNCHANGED convo
    <3>1. convo' = [convo EXCEPT ![chat[w].c] = [convo[chat[w].c] EXCEPT !.open = FALSE]]
      BY <2>2 DEF Check
    <3> QED
      BY <3>1, QuietFlags DEF ChatInv
  <2> QED
    BY <2>1, <2>2 DEF Look, LookInVain
<1>3. PICK x \in {Idle} \cup Visiting : Moves(w, x) /\ (Creating(x) => NoneOpen)
  <2>1. CASE Look(w)
    <3>1. PICK c \in DOMAIN convo : Found(w, c)
      BY <2>1 DEF Look
    <3>2. PICK at \in {"check", "greet"} : at = IF chat[w].at = "look" THEN "check" ELSE "greet"
      OBVIOUS
    <3> DEFINE x == [chat[w] EXCEPT !.c = c, !.at = at]
    <3>3. chat' = [chat EXCEPT ![w].c = c, ![w].at = at]
      BY <3>1, <3>2 DEF Found
    <3>4. Moves(w, x)
      BY <3>3 DEF Moves, ChatInv, ChatType
    <3>5. c \in Nat
      BY DEF ChatInv, ChatType
    <3>6. x \in Visiting /\ x.at \in {"check", "greet"}
      BY <1>1, <3>5 DEF Visiting
    <3> HIDE DEF x
    <3> QED
      BY <3>4, <3>6, VisitingChat
  <2>2. CASE LookInVain(w)
    <3> DEFINE x == [chat[w] EXCEPT !.at = IF chat[w].at = "look" THEN "create" ELSE "recreate"]
    <3>1. Moves(w, x) /\ NoneOpen
      BY <2>2 DEF LookInVain, Moves, NoneOpen
    <3>2. x \in Visiting
      BY <1>1 DEF Visiting
    <3> HIDE DEF x
    <3> QED
      BY <3>1, <3>2
  <2>3. CASE Check(w)
    <3>1. CASE End(w)
      BY <3>1, IdleChat DEF End, Moves
    <3>2. CASE \E at \in {"greet", "again"} : Goes(w, at)
      <4>1. PICK at \in {"greet", "again"} : Goes(w, at)
        BY <3>2
      <4> DEFINE x == [chat[w] EXCEPT !.at = at]
      <4>2. Moves(w, x)
        BY <4>1 DEF Goes, Moves
      <4>3. x \in Visiting /\ x.at \in {"greet", "again"}
        BY <1>1 DEF Visiting
      <4> HIDE DEF x
      <4> QED
        BY <4>2, <4>3, VisitingChat
    <3>3. CASE chat' = [chat EXCEPT ![w].goal = "new", ![w].at = "look"]
      <4> DEFINE x == [chat[w] EXCEPT !.goal = "new", !.at = "look"]
      <4>1. Moves(w, x)
        BY <3>3 DEF Moves, ChatInv, ChatType
      <4>2. x \in Visiting /\ x.at = "look"
        BY <1>1 DEF Visiting
      <4> HIDE DEF x
      <4> QED
        BY <4>1, <4>2, VisitingChat
    <3> QED
      BY <2>3, <3>1, <3>2, <3>3 DEF Check
  <2> QED
    BY <2>1, <2>2, <2>3
<1>4. x \in Chat /\ \A c : ~In(x, c)
  BY IdleChat, VisitingChat
<1>5. \A c, q : ~Answering(chat[w], c, q)
  BY <1>1, VisitingChat
<1> QED
  BY <1>1, <1>2, <1>3, <1>4, <1>5, QuietStep

\* A question goes on without a word: to the provider, or to its end.
LEMMA SendGoesOn ==
    ASSUME ChatInv, NEW w \in Workers,
           ProviderAnswers(w) \/ ProviderFails(w) \/ ProviderBreaks(w) \/ SaveIntent(w)
    PROVE  ChatInv'
<1>1. chat[w] \in Sending /\ chat[w].at # "answer" /\ UNCHANGED <<asked, tangled>>
  BY ChatFields DEF ProviderAnswers, ProviderFails, ProviderBreaks, SaveIntent, ChatInv, ChatType
<1>2. Quietly
  <2>1. CASE UNCHANGED convo
    BY <2>1, QuietSame DEF ChatInv
  <2>2. CASE SaveIntent(w)
    <3>1. PICK rec : /\ rec = [convo[chat[w].c] EXCEPT !.linked = chat[w].row.linked]
                     /\ convo' = [convo EXCEPT ![chat[w].c] = rec]
      BY <2>2 DEF SaveIntent, Saved
    <3>2. chat[w].row.linked \in BOOLEAN
      BY <1>1 DEF Sending, Convo
    <3> QED
      BY <3>1, <3>2, QuietFlags DEF ChatInv
  <2> QED
    BY <2>1, <2>2 DEF ProviderAnswers, ProviderFails, ProviderBreaks
<1>3. PICK x \in {Idle} \cup Sending : Moves(w, x) /\ \A c : In(x, c) => In(chat[w], c)
  <2>1. CASE ProviderBreaks(w) \/ SaveIntent(w)
    BY <2>1, IdleChat DEF ProviderBreaks, SaveIntent, End, Moves
  <2>2. CASE ProviderAnswers(w)
    <3> DEFINE x == [chat[w] EXCEPT !.at = "question"]
    <3>1. Moves(w, x)
      BY <2>2 DEF ProviderAnswers, Goes, Moves
    <3>2. x \in Sending /\ x.c = chat[w].c
      BY <1>1 DEF Sending
    <3>3. \A c : In(x, c) => In(chat[w], c)
      BY <1>1, <3>2 DEF Sending, In
    <3> HIDE DEF x
    <3> QED
      BY <3>1, <3>2, <3>3
  <2>3. CASE ProviderFails(w)
    <3>1. PICK left \in Int, at \in {"ask", "question"} :
            chat' = [chat EXCEPT ![w].attempts = left, ![w].at = at]
      <4>1. chat[w].attempts - 1 \in Int /\ chat[w].at = "ask"
        BY <1>1, <2>3 DEF ProviderFails, Sending
      <4>2. PICK left \in Int : left = chat[w].attempts - 1
        BY <4>1
      <4>3. PICK at \in {"ask", "question"} : at = IF chat[w].attempts = 1 THEN "question" ELSE chat[w].at
        BY <4>1
      <4>4. chat' = [chat EXCEPT ![w].attempts = left, ![w].at = at]
        BY <2>3, <4>2, <4>3 DEF ProviderFails
      <4> QED
        BY <4>4
    <3> DEFINE x == [chat[w] EXCEPT !.attempts = left, !.at = at]
    <3>2. Moves(w, x)
      BY <3>1 DEF Moves, ChatInv, ChatType
    <3>3. x \in Sending /\ x.c = chat[w].c
      BY <1>1 DEF Sending
    <3>4. \A c : In(x, c) => In(chat[w], c)
      BY <1>1, <3>3 DEF Sending, In
    <3> HIDE DEF x
    <3> QED
      BY <3>2, <3>3, <3>4
  <2> QED
    BY <2>1, <2>2, <2>3
<1>4. x \in Chat /\ ~Visits(x) /\ ~Creating(x)
  BY DEF Chat, Idle, Sending, Visits, Creating
<1>5. \A c, q : ~Answering(chat[w], c, q)
  BY <1>1 DEF Answering
<1> QED
  BY <1>1, <1>2, <1>3, <1>4, <1>5, QuietStep

LEMMA DropStep == ASSUME ChatInv, NEW w \in Workers, DropChat(w) PROVE ChatInv'
<1>1. Moves(w, Idle) /\ UNCHANGED <<convo, asked>>
  BY DEF DropChat, End, Moves
<1>2. Quietly
  BY <1>1, QuietSame DEF ChatInv
<1>3. /\ tangled \subseteq tangled'
      /\ \A c, q : Answering(chat[w], c, q) => c \in tangled'
  BY DEF DropChat, Answering
<1> QED
  BY <1>1, <1>2, <1>3, IdleChat, QuietStep

LEMMA SendStep ==
    ASSUME ChatInv, NEW w \in Workers, NEW c \in DOMAIN convo, NEW names \in BOOLEAN, NEW scoped \in BOOLEAN,
           Send(w, c, names, scoped)
    PROVE  ChatInv'
<1>1. Quietly /\ convo'[c] \in Convo
  <2>1. PICK rec : rec = [convo[c] EXCEPT !.linked = convo[c].linked \/ names]
    OBVIOUS
  <2>2. convo' = [convo EXCEPT ![c] = rec]
    BY <2>1 DEF Send
  <2>3. \E linked \in BOOLEAN : rec = [convo[c] EXCEPT !.linked = linked]
    BY <2>1
  <2>4. Quietly
    BY <2>2, <2>3, QuietFlags DEF ChatInv
  <2> QED
    BY <2>4 DEF Quietly
<1>2. PICK x : x = [op |-> "send", c |-> c, q |-> asked', row |-> convo'[c],
                    attempts |-> IF scoped THEN MaxAttempts ELSE 0,
                    at |-> IF scoped THEN "ask" ELSE "question"]
  OBVIOUS
<1>3. asked' \in Nat \ {0} /\ c \in Nat /\ MaxAttempts \in Int
  BY SupportAssumption DEF Send, ChatInv, ChatType
<1>4. x \in Sending /\ x.at # "answer" /\ x.c = c /\ x.op = "send"
  BY <1>1, <1>2, <1>3 DEF Sending
<1>5. x \in Chat /\ In(x, c) /\ \A q : ~Answering(x, c, q)
  BY <1>4 DEF Chat, In, Answering
<1>6. /\ Moves(w, x) /\ Resting(w)
      /\ tangled' = IF Meets(w, c) THEN tangled \cup {c} ELSE tangled
  BY <1>2 DEF Send, Moves
<1> QED
  BY <1>1, <1>3, <1>5, <1>6, EnterStep

LEMMA EscalateStep ==
    ASSUME ChatInv, NEW w \in Workers, NEW c \in DOMAIN convo, Escalate(w, c)
    PROVE  ChatInv'
<1>1. PICK x : x = [op |-> "escalate", c |-> c]
  OBVIOUS
<1>2. c \in Nat /\ asked' \in Nat
  BY DEF Escalate, ChatInv, ChatType
<1>3. x \in Chat /\ In(x, c) /\ \A q : ~Answering(x, c, q)
  BY <1>1, <1>2 DEF Chat, Escalating, In, Answering
<1>4. /\ Moves(w, x) /\ Resting(w) /\ UNCHANGED convo
      /\ tangled' = IF Meets(w, c) THEN tangled \cup {c} ELSE tangled
  BY <1>1 DEF Escalate, Moves
<1>5. Quietly
  BY <1>4, QuietSame DEF ChatInv
<1> QED
  BY <1>2, <1>3, <1>4, <1>5, EnterStep

LEMMA GreetStep == ASSUME ChatInv, NEW w \in Workers, Greet(w) \/ NoteEscalation(w) PROVE ChatInv'
<1>1. PICK role \in {"assistant", "system"} : convo' = Say(chat[w].c, role, 0)
  BY DEF Greet, NoteEscalation
<1>2. PICK line : line = Message(role, 0)
  OBVIOUS
<1>3. line \in Line /\ line.q = 0 /\ line.role # "user" /\ Says(chat[w].c, line)
  BY <1>1, <1>2 DEF Line, Message, Say, Says
<1>4. Moves(w, Idle) /\ UNCHANGED <<asked, tangled>> /\ chat[w].op # "send"
  BY DEF Greet, NoteEscalation, End, Moves
<1> QED
  BY <1>3, <1>4, NotedStep

LEMMA ChatInit == Init => ChatInv
<1> SUFFICES ASSUME Init PROVE ChatInv
  OBVIOUS
<1>1. convo = <<>> /\ tangled = {} /\ asked = 0 /\ \A w \in Workers : chat[w] = Idle
  BY DEF Init, SupportInit
<1>2. ChatType
  BY <1>1, IdleChat DEF Init, SupportInit, ChatType
<1> QED
  BY <1>1, <1>2, IdleChat DEF ChatInv, OneInv, AnswerInv

LEMMA ChatStep == ChatInv /\ [Next]_vars => ChatInv'
<1> SUFFICES ASSUME ChatInv, [Next]_vars
             PROVE  ChatInv'
  OBVIOUS
<1>1. CASE UNCHANGED supportVars
  <2>1. UNCHANGED <<convo, chat, asked, tangled>>
    BY <1>1 DEF supportVars
  <2>2. ChatType' /\ OneInv'
    BY <2>1 DEF ChatInv, ChatType, OneInv, NoneOpen
  <2>3. AnswerInv'
    BY <2>1 DEF ChatInv, AnswerInv, Alone, Followed
  <2> QED
    BY <2>2, <2>3 DEF ChatInv
<1>2. ASSUME NEW w \in Workers, Begin(w)
      PROVE  ChatInv'
  <2>1. CASE AskSupport(w)
    BY <2>1, VisitStep, SendStep, EscalateStep DEF AskSupport
  <2> QED
    BY <1>1, <1>2, <2>1 DEF Begin
<1>3. ASSUME NEW w \in Workers, Serve(w)
      PROVE  ChatInv'
  <2>1. CASE ServeSupport(w)
    BY <2>1, LookStep, CreateStep, GreetStep, SendGoesOn, QuestionStep, AnswerStep DEF ServeSupport
  <2> QED
    BY <1>1, <1>3, <2>1 DEF Serve
<1>4. ASSUME NEW w \in Workers, Die(w)
      PROVE  ChatInv'
  BY <1>1, <1>4, DropStep DEF Die
<1>5. CASE Delivery
  BY <1>1, <1>5 DEF Delivery
<1>6. CASE UNCHANGED vars
  BY <1>1, <1>6 DEF vars
<1> QED
  BY <1>2, <1>3, <1>4, <1>5, <1>6 DEF Next

\* As long as visits of the page do not overlap, the customer has one open
\* conversation at most; an answer that comes late, to a conversation closed in
\* another tab, does not open it again (get_or_create_active_conversation,
\* start_new_conversation and process_support_message).
THEOREM OneConversationAlways == Spec => []OneConversation
<1>1. ChatInv => OneConversation
  <2> SUFFICES ASSUME ChatInv, 0 \notin tangled
               PROVE  Cardinality({c \in DOMAIN convo : convo[c].open}) =< 1
    BY DEF OneConversation
  <2> DEFINE S == {c \in DOMAIN convo : convo[c].open}
  <2>1. \A c, d \in S : c = d
    BY DEF ChatInv, OneInv
  <2>2. CASE S = {}
    BY <2>2, FS_EmptySet
  <2>3. CASE S # {}
    <3>1. PICK c \in S : S = {c}
      BY <2>1, <2>3
    <3> HIDE DEF S
    <3>2. Cardinality(S) = 1
      BY <3>1, FS_Singleton
    <3> QED
      BY <3>2 DEF S
  <2> QED
    BY <2>2, <2>3
<1> QED
  BY <1>1, ChatInit, ChatStep, PTL DEF Spec

\* In a conversation that asks one thing at a time each question is followed by
\* its own answer, unless it is being answered: whatever the provider, other tabs
\* and other conversations do (process_support_message).
THEOREM AnswersFollowAlways == Spec => []AnswersFollow
<1>1. ChatInv => AnswersFollow
  <2> SUFFICES ASSUME ChatInv, NEW c \in DOMAIN convo \ tangled,
                      NEW i \in DOMAIN convo[c].said, convo[c].said[i].role = "user"
               PROVE  \/ \E j \in DOMAIN convo[c].said : Answers(convo[c].said, i, j)
                      \/ /\ IsLast(convo[c].said, i)
                         /\ \E w \in Workers : chat[w].op = "send" /\ chat[w].q = convo[c].said[i].q
    BY DEF AnswersFollow
  <2>1. Followed(c)
    BY DEF ChatInv, AnswerInv
  <2> QED
    BY <2>1 DEF Followed, Answered, Answering
<1> QED
  BY <1>1, ChatInit, ChatStep, PTL DEF Spec

-----------------------------------------------------------------------------
(* The accounts of the stores *)

Asks(reqs, v, c) == reqs[v].op = "login" /\ reqs[v].from = c
Waits(r) == r.op = "login" /\ r.at = "wait"

\* Who asks for someone does it for one who waits, alone, and for the same login.
Linked(reqs) ==
    \A v, c \in Slots : Asks(reqs, v, c) =>
        /\ Waits(reqs[c])
        /\ reqs[c].email = reqs[v].email /\ reqs[c].password = reqs[v].password
        /\ \A u \in Slots : Asks(reqs, u, c) => u = v

\* What backs a login has been noted.
Noticed(reqs, rows) ==
    \A v \in Slots :
        reqs[v].op = "login" /\ Backed(rows, StoreOf(v), reqs[v].email, reqs[v].password)
        => reqs[v].backed

\* A login is backed, and so are those that wait for it.
Covered(reqs, w) ==
    \E S \in SUBSET Slots :
        /\ w \in S
        /\ \A v \in S : /\ reqs[v].op = "login" /\ reqs[v].backed
                        /\ reqs[v].from \in Slots => reqs[v].from \in S

\* A login that a peer answered is of a customer, and backed.
Granted(reqs) ==
    \A w \in Slots : reqs[w].op = "login" /\ reqs[w].at \in {"create", "save"} =>
        reqs[w].role = "account_user" /\ Covered(reqs, w)

\* A login that saves holds a row.
Holds(reqs) ==
    \A w \in Slots : reqs[w].op = "login" /\ reqs[w].at = "save" => reqs[w].copy \in Row

Sound(reqs, rows) == Linked(reqs) /\ Noticed(reqs, rows) /\ Granted(reqs) /\ Holds(reqs)

LoginInv == PasswordsApart /\ AccountTypeOK /\ Sound(req, row)

-----------------------------------------------------------------------------
\* What a request is, by its kind.
LEMMA RequestKinds ==
    ASSUME NEW r \in Request
    PROVE  /\ r.op \in {"idle", "login", "update"}
           /\ r.op = "idle" => r = NoRequest
           /\ r.op = "login" => r \in LoginRequest
           /\ r.op = "update" => r \in UpdateRequest
<1>1. CASE r = NoRequest
  BY <1>1 DEF NoRequest
<1>2. CASE r # NoRequest
  BY <1>2 DEF Request, LoginRequest, UpdateRequest
<1> QED
  BY <1>1, <1>2

\* Who waits at a browser, or for nobody, is no worker.
LEMMA NotASlot == Browser \notin Slots /\ Nobody \notin Slots
BY DEF Browser, Nobody, Slots

\* A worker is one of a store.
LEMMA SlotOfStore == \A w \in Slots : StoreOf(w) \in Stores
BY DEF Slots, StoreOf

\* The login r at another step.
Same(r, q) ==
    /\ r.op = "login" /\ r.from = q.from /\ r.email = q.email
    /\ r.password = q.password /\ r.backed = q.backed

\* A login that asks the next peer, and one that a peer answered.
LEMMA StepOfLogin ==
    ASSUME NEW r \in Request, r.op = "login", NEW role \in AccountRoles
    PROVE  /\ Asking(r) \in Request /\ Asking(r).at = "call" /\ Same(Asking(r), r)
           /\ CreatingRow(r, role) \in Request /\ Same(CreatingRow(r, role), r)
           /\ CreatingRow(r, role).at = "create" /\ CreatingRow(r, role).role = role
           /\ Failing(r) \in Request /\ Same(Failing(r), r) /\ Failing(r).at = "failed"
<1>1. r \in LoginRequest
  BY RequestKinds
<1>2. Asking(r) = [r EXCEPT !.at = "call", !.peer = r.peer + 1]
  BY DEF Asking
<1>3. r.peer + 1 \in Nat
  BY <1>1 DEF LoginRequest
<1>4. Asking(r) \in LoginRequest /\ Asking(r).at = "call" /\ Same(Asking(r), r)
  BY <1>1, <1>2, <1>3 DEF LoginRequest, Same
<1>5. /\ CreatingRow(r, role) \in LoginRequest /\ Same(CreatingRow(r, role), r)
      /\ CreatingRow(r, role).at = "create" /\ CreatingRow(r, role).role = role
  BY <1>1 DEF LoginRequest, Same, CreatingRow
<1>6. Failing(r) \in LoginRequest /\ Same(Failing(r), r) /\ Failing(r).at = "failed"
  BY <1>1 DEF LoginRequest, Same, Failing
<1> QED
  BY <1>4, <1>5, <1>6 DEF Request

-----------------------------------------------------------------------------
(* The end of a login *)

\* A login that is told of an answer goes on as the same one.
LEMMA ToldIs ==
    ASSUME NEW c \in Slots, NEW r \in Request, r.op = "login", NEW found \in BOOLEAN,
           NEW role \in AccountRoles
    PROVE  /\ Told(c, r, found, role) \in Request
           /\ Same(Told(c, r, found, role), r)
           /\ \/ Told(c, r, found, role).at \in {"call", "failed"}
              \/ /\ found
                 /\ Told(c, r, found, role).at = "create"
                 /\ Told(c, r, found, role).role = role
<1>1. CASE found
  <2>1. PICK q : q = CreatingRow(r, role)
    OBVIOUS
  <2>2. q \in Request /\ Same(q, r) /\ q.at = "create" /\ q.role = role
    BY <2>1, StepOfLogin
  <2>3. Told(c, r, found, role) = q
    BY <1>1, <2>1 DEF Told
  <2> QED
    BY <1>1, <2>2, <2>3
<1>2. CASE ~found
  <2>1. Told(c, r, found, role) = Asking(r) \/ Told(c, r, found, role) = Failing(r)
    BY <1>2 DEF Told
  <2> QED
    BY <2>1, StepOfLogin
<1> QED
  BY <1>1, <1>2

\* The end of a login: whoever waits for it is told.
EndsTo(reqs, new, w, found, role) ==
    /\ new \in [Slots -> Request]
    /\ new[w] = NoRequest
    /\ \A v \in Slots \ {w} :
         \/ new[v] = reqs[v] /\ ~Asks(reqs, w, v)
         \/ Asks(reqs, w, v) /\ Waits(reqs[v]) /\ new[v] = Told(v, reqs[v], found, role)

\* Who is still there has the same login.
LEMMA EndsSame ==
    ASSUME NEW reqs \in [Slots -> Request], NEW new, NEW w \in Slots, NEW found \in BOOLEAN,
           NEW role \in AccountRoles, EndsTo(reqs, new, w, found, role), NEW v \in Slots,
           new[v].op = "login"
    PROVE  v # w /\ reqs[v].op = "login" /\ Same(new[v], reqs[v])
<1>1. v # w
  BY DEF EndsTo, NoRequest
<1>2. CASE new[v] = reqs[v]
  BY <1>1, <1>2 DEF Same
<1>3. CASE Waits(reqs[v]) /\ new[v] = Told(v, reqs[v], found, role)
  BY <1>1, <1>3, ToldIs DEF Waits
<1> QED
  BY <1>1, <1>2, <1>3 DEF EndsTo

\* What Ended does to each request.
LEMMA EndedIs ==
    ASSUME NEW reqs \in [Slots -> Request], Linked(reqs), NEW w \in Slots,
           reqs[w].op = "login",
           \A v \in Slots : ~Asks(reqs, v, w),
           NEW ok \in BOOLEAN, NEW role \in AccountRoles
    PROVE  /\ EndsTo(reqs, Ended(reqs, w, ok, role), w, Validated(ok, role), role)
           /\ Linked(Ended(reqs, w, ok, role))
<1> DEFINE found == Validated(ok, role)
           new == Ended(reqs, w, ok, role)
<1>1. found \in BOOLEAN
  BY DEF Validated
<1>2. new = [v \in Slots |-> CASE v = w -> NoRequest
                             [] v = reqs[w].from -> Told(v, reqs[v], found, role)
                             [] OTHER -> reqs[v]]
  BY DEF Ended
<1> HIDE DEF new, found
<1>3. new[w] = NoRequest
  <2>1. reqs[w].from # w
    BY DEF Asks
  <2> QED
    BY <1>2, <2>1
<1>4. ASSUME NEW v \in Slots \ {w}
      PROVE  /\ new[v] \in Request
             /\ \/ new[v] = reqs[v] /\ ~Asks(reqs, w, v)
                \/ Asks(reqs, w, v) /\ Waits(reqs[v]) /\ new[v] = Told(v, reqs[v], found, role)
  <2>1. CASE v = reqs[w].from
    <3>1. Asks(reqs, w, v) /\ Waits(reqs[v])
      BY <2>1 DEF Asks, Linked
    <3>2. new[v] = Told(v, reqs[v], found, role)
      BY <1>2, <2>1
    <3>3. Told(v, reqs[v], found, role) \in Request
      BY <1>1, <3>1, ToldIs DEF Waits
    <3> QED
      BY <3>1, <3>2, <3>3
  <2>2. CASE v # reqs[w].from
    BY <1>2, <2>2 DEF Asks
  <2> QED
    BY <2>1, <2>2
<1>5. new \in [Slots -> Request]
  <2>1. NoRequest \in Request
    BY DEF Request
  <2>2. \A v \in Slots : new[v] \in Request
    BY <1>3, <1>4, <2>1
  <2> QED
    BY <1>2, <2>2
<1>6. EndsTo(reqs, new, w, found, role)
  BY <1>3, <1>4, <1>5 DEF EndsTo
<1>7. ASSUME NEW v \in Slots, NEW c \in Slots, Asks(new, v, c)
      PROVE  /\ v # w /\ new[c] = reqs[c] /\ Asks(reqs, v, c)
             /\ new[v].email = reqs[v].email /\ new[v].password = reqs[v].password
  <2>1. v # w /\ Same(new[v], reqs[v]) /\ reqs[v].op = "login"
    BY <1>1, <1>6, <1>7, EndsSame DEF Asks
  <2>2. Asks(reqs, v, c)
    BY <1>7, <2>1 DEF Asks, Same
  <2>3. c # w /\ ~Asks(reqs, w, c)
    BY <2>1, <2>2 DEF Linked
  <2> QED
    BY <1>4, <2>1, <2>2, <2>3 DEF Same
<1>8. Linked(new)
  <2> SUFFICES ASSUME NEW v \in Slots, NEW c \in Slots, Asks(new, v, c)
               PROVE  /\ Waits(new[c])
                      /\ new[c].email = new[v].email /\ new[c].password = new[v].password
                      /\ \A u \in Slots : Asks(new, u, c) => u = v
    BY DEF Linked
  <2>1. /\ Waits(reqs[c]) /\ new[c] = reqs[c]
        /\ reqs[c].email = reqs[v].email /\ reqs[c].password = reqs[v].password
        /\ \A u \in Slots : Asks(reqs, u, c) => u = v
    BY <1>7 DEF Linked
  <2> QED
    BY <1>7, <2>1
<1> QED
  BY <1>6, <1>8 DEF new, found

-----------------------------------------------------------------------------
(* What a step may do to the logins *)

\* A login begins, or goes on as the same one; it comes to be answered if it is
\* backed, with all that wait for it.
Carries(reqs, new, rows) ==
    \A v \in Slots : new[v].op = "login" =>
        \/ /\ reqs[v].op # "login" /\ new[v].at = "local"
           /\ new[v].backed = Backed(rows, StoreOf(v), new[v].email, new[v].password)
        \/ /\ reqs[v].op = "login"
           /\ new[v].email = reqs[v].email /\ new[v].password = reqs[v].password
           /\ new[v].from \in {reqs[v].from, Nobody}
           /\ reqs[v].backed => new[v].backed
           /\ new[v].at \in {"create", "save"} =>
                new[v].role = "account_user" /\ Covered(reqs, v)
           /\ new[v].at = "save" => new[v].copy \in Row

\* Who is covered stays so while the requests carry on.
LEMMA CoveredKept ==
    ASSUME NEW reqs, NEW new, NEW rows, Linked(new), Carries(reqs, new, rows),
           NEW w \in Slots, new[w].op = "login", Covered(reqs, w)
    PROVE  Covered(new, w)
<1>1. PICK S \in SUBSET Slots :
        /\ w \in S
        /\ \A v \in S : /\ reqs[v].op = "login" /\ reqs[v].backed
                        /\ reqs[v].from \in Slots => reqs[v].from \in S
  BY DEF Covered
<1> DEFINE T == {v \in S : new[v].op = "login"}
<1>2. T \in SUBSET Slots /\ w \in T
  BY <1>1
<1>3. ASSUME NEW v \in T
      PROVE  /\ new[v].op = "login" /\ new[v].backed
             /\ new[v].from \in Slots => new[v].from \in T
  <2>1. reqs[v].op = "login" /\ reqs[v].backed /\ (reqs[v].from \in Slots => reqs[v].from \in S)
    BY <1>1
  <2>2. new[v].backed /\ new[v].from \in {reqs[v].from, Nobody}
    BY <2>1 DEF Carries
  <2>3. ASSUME new[v].from \in Slots
        PROVE  new[v].from \in T
    <3>1. new[v].from \in S
      BY <2>1, <2>2, <2>3, NotASlot
    <3>2. Asks(new, v, new[v].from)
      BY DEF Asks
    <3>3. Waits(new[new[v].from])
      BY <2>3, <3>2 DEF Linked
    <3> QED
      BY <3>1, <3>3 DEF Waits
  <2> QED
    BY <2>2, <2>3
<1> QED
  BY <1>2, <1>3 DEF Covered

\* Requests that carry on stay sound.
LEMMA CarriesSound ==
    ASSUME NEW reqs, NEW new, NEW rows, Sound(reqs, rows), Linked(new), Carries(reqs, new, rows)
    PROVE  Sound(new, rows)
<1>1. Noticed(new, rows)
  <2> SUFFICES ASSUME NEW v \in Slots, new[v].op = "login",
                      Backed(rows, StoreOf(v), new[v].email, new[v].password)
               PROVE  new[v].backed
    BY DEF Noticed
  <2>1. CASE reqs[v].op # "login"
    BY <2>1 DEF Carries
  <2>2. CASE reqs[v].op = "login"
    <3>1. /\ new[v].email = reqs[v].email /\ new[v].password = reqs[v].password
          /\ reqs[v].backed => new[v].backed
      BY <2>2 DEF Carries
    <3> QED
      BY <2>2, <3>1 DEF Sound, Noticed
  <2> QED
    BY <2>1, <2>2
<1>2. Granted(new)
  <2> SUFFICES ASSUME NEW w \in Slots, new[w].op = "login", new[w].at \in {"create", "save"}
               PROVE  new[w].role = "account_user" /\ Covered(new, w)
    BY DEF Granted
  <2>1. new[w].role = "account_user" /\ Covered(reqs, w)
    BY DEF Carries
  <2> QED
    BY <2>1, CoveredKept
<1>3. Holds(new)
  BY DEF Carries, Holds
<1> QED
  BY <1>1, <1>2, <1>3 DEF Sound

\* Where the store knows a customer, all who ask for that login are backed.
LEMMA KnownCovers ==
    ASSUME NEW reqs \in [Slots -> Request], NEW rows, Sound(reqs, rows),
           NEW w \in Slots, reqs[w].op = "login",
           NEW t \in Stores, rows[t][reqs[w].email].password = reqs[w].password,
           rows[t][reqs[w].email].status = "active", rows[t][reqs[w].email].role = "account_user"
    PROVE  Covered(reqs, w)
<1> DEFINE S == {v \in Slots : /\ reqs[v].op = "login"
                               /\ reqs[v].email = reqs[w].email /\ reqs[v].password = reqs[w].password}
<1>1. S \in SUBSET Slots /\ w \in S
  OBVIOUS
<1>2. ASSUME NEW v \in S
      PROVE  reqs[v].op = "login" /\ reqs[v].backed /\ (reqs[v].from \in Slots => reqs[v].from \in S)
  <2>1. Backed(rows, StoreOf(v), reqs[v].email, reqs[v].password)
    BY DEF Backed
  <2>2. reqs[v].backed
    BY <2>1 DEF Sound, Noticed
  <2>3. ASSUME reqs[v].from \in Slots
        PROVE  reqs[v].from \in S
    <3>1. Asks(reqs, v, reqs[v].from)
      BY DEF Asks
    <3>2. /\ Waits(reqs[reqs[v].from]) /\ reqs[reqs[v].from].email = reqs[v].email
          /\ reqs[reqs[v].from].password = reqs[v].password
      BY <2>3, <3>1 DEF Sound, Linked
    <3> QED
      BY <2>3, <3>2 DEF Waits
  <2> QED
    BY <2>2, <2>3
<1> QED
  BY <1>1, <1>2 DEF Covered

\* Who waits for a covered login is covered.
LEMMA CallerCovered ==
    ASSUME NEW reqs, NEW w \in Slots, Covered(reqs, w), NEW c \in Slots, Asks(reqs, w, c)
    PROVE  Covered(reqs, c)
BY DEF Covered, Asks

\* The end of a login keeps the others sound.
LEMMA EndSound ==
    ASSUME NEW reqs \in [Slots -> Request], NEW rows, Sound(reqs, rows),
           NEW w \in Slots, reqs[w].op = "login", \A v \in Slots : ~Asks(reqs, v, w),
           NEW ok \in BOOLEAN, NEW role \in AccountRoles,
           \A c \in Slots : Validated(ok, role) /\ Asks(reqs, w, c) => Covered(reqs, c)
    PROVE  /\ Sound(Ended(reqs, w, ok, role), rows)
           /\ EndsTo(reqs, Ended(reqs, w, ok, role), w, Validated(ok, role), role)
<1> DEFINE new == Ended(reqs, w, ok, role)
           found == Validated(ok, role)
<1>1. EndsTo(reqs, new, w, found, role) /\ Linked(new)
  BY EndedIs DEF Sound
<1>2. found \in BOOLEAN /\ (found => role = "account_user")
  BY DEF Validated
<1>3. \A c \in Slots : found /\ Asks(reqs, w, c) => Covered(reqs, c)
  OBVIOUS
<1> HIDE DEF new, found
<1>4. ASSUME NEW v \in Slots, new[v].op = "login"
      PROVE  /\ reqs[v].op = "login" /\ Same(new[v], reqs[v])
             /\ new[v].at \in {"create", "save"} =>
                  new[v].role = "account_user" /\ Covered(reqs, v)
             /\ new[v].at = "save" => new[v].copy \in Row
  <2>1. reqs[v].op = "login" /\ Same(new[v], reqs[v])
    BY <1>1, <1>2, <1>4, EndsSame
  <2>2. CASE new[v] = reqs[v]
    BY <2>1, <2>2 DEF Sound, Granted, Holds
  <2>3. CASE Asks(reqs, w, v) /\ new[v] = Told(v, reqs[v], found, role)
    <3>1. \/ new[v].at \in {"call", "failed"}
          \/ found /\ new[v].at = "create" /\ new[v].role = role
      BY <1>2, <2>1, <2>3, ToldIs
    <3> QED
      BY <1>2, <1>3, <2>1, <2>3, <3>1
  <2>4. v # w
    BY <1>1, <1>4 DEF EndsTo, NoRequest
  <2> QED
    BY <1>1, <2>2, <2>3, <2>4 DEF EndsTo
<1>5. Carries(reqs, new, rows)
  BY <1>4 DEF Carries, Same
<1>6. Sound(new, rows)
  BY <1>1, <1>5, CarriesSound
<1> QED
  BY <1>1, <1>6 DEF new, found
\* Noting what backs the logins keeps them sound, with the rows it looks at.
LEMMA NotedIs ==
    ASSUME NEW reqs \in [Slots -> Request], NEW rows
    PROVE  /\ Noted(reqs, rows) \in [Slots -> Request]
           /\ \A v \in Slots :
                /\ reqs[v].op # "login" => Noted(reqs, rows)[v] = reqs[v]
                /\ reqs[v].op = "login" =>
                     LET r == Noted(reqs, rows)[v]
                     IN  /\ r \in LoginRequest
                         /\ r.email = reqs[v].email /\ r.password = reqs[v].password
                         /\ r.from = reqs[v].from /\ r.at = reqs[v].at /\ r.role = reqs[v].role
                         /\ r.copy = reqs[v].copy /\ r.made = reqs[v].made
                         /\ r.backed <=> reqs[v].backed
                              \/ Backed(rows, StoreOf(v), reqs[v].email, reqs[v].password)
<1> DEFINE new == Noted(reqs, rows)
<1>1. ASSUME NEW v \in Slots, reqs[v].op # "login"
      PROVE  new[v] = reqs[v]
  BY <1>1 DEF Noted
<1>2. ASSUME NEW v \in Slots, reqs[v].op = "login"
      PROVE  /\ new[v] \in LoginRequest
             /\ new[v].email = reqs[v].email /\ new[v].password = reqs[v].password
             /\ new[v].from = reqs[v].from /\ new[v].at = reqs[v].at /\ new[v].role = reqs[v].role
             /\ new[v].copy = reqs[v].copy /\ new[v].made = reqs[v].made
             /\ new[v].backed <=> reqs[v].backed
                  \/ Backed(rows, StoreOf(v), reqs[v].email, reqs[v].password)
  <2> DEFINE b == Backed(rows, StoreOf(v), reqs[v].email, reqs[v].password)
  <2>1. reqs[v] \in LoginRequest
    BY <1>2, RequestKinds
  <2>2. new[v] = [reqs[v] EXCEPT !.backed = reqs[v].backed \/ b]
    BY <1>2 DEF Noted
  <2>3. (reqs[v].backed \/ b) \in BOOLEAN
    OBVIOUS
  <2> HIDE DEF b
  <2>4. \A x \in BOOLEAN :
          LET r == [reqs[v] EXCEPT !.backed = x]
          IN  /\ r \in LoginRequest
              /\ r.email = reqs[v].email /\ r.password = reqs[v].password
              /\ r.from = reqs[v].from /\ r.at = reqs[v].at /\ r.role = reqs[v].role
              /\ r.copy = reqs[v].copy /\ r.made = reqs[v].made
              /\ r.backed = x
    BY <2>1 DEF LoginRequest
  <2>5. new[v].backed = (reqs[v].backed \/ b)
    BY <2>2, <2>3, <2>4
  <2> QED
    BY <2>2, <2>3, <2>4, <2>5 DEF b
<1>3. \A v \in Slots : new[v] \in Request
  BY <1>1, <1>2 DEF Request
<1>4. new \in [Slots -> Request]
  BY <1>3 DEF Noted
<1> QED
  BY <1>1, <1>2, <1>4

\* Noting what backs a login after the rows have changed makes the requests sound again.
LEMMA NotedSound ==
    ASSUME NEW reqs \in [Slots -> Request], NEW rows, Linked(reqs), Granted(reqs), Holds(reqs)
    PROVE  Sound(Noted(reqs, rows), rows)
<1> DEFINE new == Noted(reqs, rows)
<1>1. \A v \in Slots : new[v].op = "login" <=> reqs[v].op = "login"
  BY NotedIs DEF LoginRequest
<1>2. \A v \in Slots : reqs[v].op = "login" =>
        /\ new[v].email = reqs[v].email /\ new[v].password = reqs[v].password
        /\ new[v].from = reqs[v].from /\ new[v].at = reqs[v].at /\ new[v].role = reqs[v].role
        /\ new[v].copy = reqs[v].copy
        /\ new[v].backed <=> reqs[v].backed
             \/ Backed(rows, StoreOf(v), reqs[v].email, reqs[v].password)
  BY NotedIs
<1> HIDE DEF new
<1>3. \A v, c \in Slots : Asks(new, v, c) <=> Asks(reqs, v, c)
  BY <1>1, <1>2 DEF Asks
<1>4. Linked(new)
  <2> SUFFICES ASSUME NEW v \in Slots, NEW c \in Slots, Asks(new, v, c)
               PROVE  /\ Waits(new[c])
                      /\ new[c].email = new[v].email /\ new[c].password = new[v].password
                      /\ \A u \in Slots : Asks(new, u, c) => u = v
    BY DEF Linked
  <2>1. /\ Waits(reqs[c])
        /\ reqs[c].email = reqs[v].email /\ reqs[c].password = reqs[v].password
        /\ \A u \in Slots : Asks(reqs, u, c) => u = v
    BY <1>3 DEF Linked
  <2>2. reqs[v].op = "login"
    BY <1>3 DEF Asks
  <2> QED
    BY <1>1, <1>2, <1>3, <2>1, <2>2 DEF Waits
<1>5. Noticed(new, rows)
  BY <1>1, <1>2 DEF Noticed
<1>6. Holds(new)
  BY <1>1, <1>2 DEF Holds
<1>7. Carries(reqs, new, rows)
  BY <1>1, <1>2 DEF Carries, Granted, Holds
<1>8. Granted(new)
  <2> SUFFICES ASSUME NEW w \in Slots, new[w].op = "login", new[w].at \in {"create", "save"}
               PROVE  new[w].role = "account_user" /\ Covered(new, w)
    BY DEF Granted
  <2>1. new[w].role = "account_user" /\ Covered(reqs, w)
    BY <1>1, <1>2 DEF Granted
  <2> QED
    BY <1>4, <1>7, <2>1, CoveredKept
<1> QED
  BY <1>4, <1>5, <1>6, <1>8 DEF Sound, new

\* What a request waited for goes on with nobody to answer.
LEMMA DroppedIs ==
    ASSUME LoginInv, NEW w \in Slots
    PROVE  /\ Dropped(req, w) \in [Slots -> Request]
           /\ Sound(Dropped(req, w), row)
           /\ \A v \in Slots : ~Asks(Dropped(req, w), v, w)
           /\ \A v \in Slots :
                /\ req[v].op # "login" => Dropped(req, w)[v] = req[v]
                /\ req[v].op = "login" =>
                     LET r == Dropped(req, w)[v]
                     IN  /\ r \in LoginRequest
                         /\ r.email = req[v].email /\ r.password = req[v].password
                         /\ r.from \in {req[v].from, Nobody} \ {w}
                         /\ r.at = req[v].at /\ r.role = req[v].role
                         /\ r.copy = req[v].copy /\ r.made = req[v].made /\ r.backed = req[v].backed
<1> DEFINE new == Dropped(req, w)
<1>1. req \in [Slots -> Request] /\ Sound(req, row)
  BY DEF LoginInv, AccountTypeOK
<1>2. ASSUME NEW v \in Slots, req[v].op # "login"
      PROVE  new[v] = req[v]
  BY <1>2 DEF Dropped, IsLogin
<1>3. ASSUME NEW v \in Slots, req[v].op = "login"
      PROVE  /\ new[v] \in LoginRequest
             /\ new[v].email = req[v].email /\ new[v].password = req[v].password
             /\ new[v].from \in {req[v].from, Nobody} \ {w}
             /\ new[v].at = req[v].at /\ new[v].role = req[v].role
             /\ new[v].copy = req[v].copy /\ new[v].made = req[v].made
             /\ new[v].backed = req[v].backed
  <2>1. req[v] \in LoginRequest
    BY <1>1, <1>3, RequestKinds
  <2>2. new[v] = IF req[v].from = w THEN [req[v] EXCEPT !.from = Nobody] ELSE req[v]
    BY <1>3 DEF Dropped, IsLogin
  <2>3. Nobody # w
    BY NotASlot
  <2> HIDE DEF new
  <2>4. CASE req[v].from = w
    <3>1. new[v] = [req[v] EXCEPT !.from = Nobody]
      BY <2>2, <2>4
    <3> QED
      BY <2>1, <2>3, <3>1 DEF LoginRequest
  <2>5. CASE req[v].from # w
    BY <2>1, <2>2, <2>5
  <2> QED
    BY <2>4, <2>5
<1>4. new \in [Slots -> Request]
  <2>1. \A v \in Slots : new[v] \in Request
    BY <1>1, <1>2, <1>3 DEF Request
  <2> QED
    BY <2>1 DEF Dropped
<1> HIDE DEF new
<1>5. \A v \in Slots : new[v].op = "login" <=> req[v].op = "login"
  BY <1>2, <1>3 DEF LoginRequest
<1>6. ASSUME NEW v \in Slots, NEW c \in Slots, Asks(new, v, c)
      PROVE  Asks(req, v, c) /\ c # w
  BY <1>3, <1>5, <1>6, NotASlot DEF Asks
<1>7. Linked(new)
  <2> SUFFICES ASSUME NEW v \in Slots, NEW c \in Slots, Asks(new, v, c)
               PROVE  /\ Waits(new[c])
                      /\ new[c].email = new[v].email /\ new[c].password = new[v].password
                      /\ \A u \in Slots : Asks(new, u, c) => u = v
    BY DEF Linked
  <2>1. /\ Waits(req[c])
        /\ req[c].email = req[v].email /\ req[c].password = req[v].password
        /\ \A u \in Slots : Asks(req, u, c) => u = v
    BY <1>1, <1>6 DEF Linked, Sound
  <2>2. req[v].op = "login"
    BY <1>6 DEF Asks
  <2> QED
    BY <1>3, <1>5, <1>6, <2>1, <2>2 DEF Waits
<1>8. Carries(req, new, row)
  BY <1>1, <1>3, <1>5 DEF Carries, Granted, Holds, Sound
<1>9. Sound(new, row)
  BY <1>1, <1>7, <1>8, CarriesSound
<1> QED
  BY <1>2, <1>3, <1>4, <1>6, <1>9 DEF new
\* A login that no one asks for goes on.
LEMMA MovesOn ==
    ASSUME NEW reqs \in [Slots -> Request], NEW rows, Sound(reqs, rows), NEW w \in Slots,
           reqs[w].op = "login", \A v \in Slots : ~Asks(reqs, v, w),
           NEW r \in Request, r.op = "login", r.from = reqs[w].from, r.email = reqs[w].email,
           r.password = reqs[w].password, reqs[w].backed => r.backed,
           r.at \in {"create", "save"} =>
             reqs[w].at \in {"create", "save"} /\ r.role = reqs[w].role,
           r.at = "save" => r.copy \in Row
    PROVE  /\ [reqs EXCEPT ![w] = r] \in [Slots -> Request]
           /\ Sound([reqs EXCEPT ![w] = r], rows)
<1> DEFINE new == [reqs EXCEPT ![w] = r]
<1>1. new \in [Slots -> Request] /\ new[w] = r /\ \A v \in Slots \ {w} : new[v] = reqs[v]
  OBVIOUS
<1> HIDE DEF new
<1>2. \A v, c \in Slots : Asks(new, v, c) <=> Asks(reqs, v, c)
  <2> SUFFICES ASSUME NEW v \in Slots, NEW c \in Slots
               PROVE  Asks(new, v, c) <=> Asks(reqs, v, c)
    OBVIOUS
  <2>1. CASE v = w
    BY <1>1, <2>1 DEF Asks
  <2>2. CASE v # w
    BY <1>1, <2>2 DEF Asks
  <2> QED
    BY <2>1, <2>2
<1>3. Linked(new)
  <2> SUFFICES ASSUME NEW v \in Slots, NEW c \in Slots, Asks(new, v, c)
               PROVE  /\ Waits(new[c])
                      /\ new[c].email = new[v].email /\ new[c].password = new[v].password
                      /\ \A u \in Slots : Asks(new, u, c) => u = v
    BY DEF Linked
  <2>1. /\ Waits(reqs[c])
        /\ reqs[c].email = reqs[v].email /\ reqs[c].password = reqs[v].password
        /\ \A u \in Slots : Asks(reqs, u, c) => u = v
    BY <1>2 DEF Linked, Sound
  <2>2. c # w
    BY <1>2
  <2>3. new[v].email = reqs[v].email /\ new[v].password = reqs[v].password
    BY <1>1
  <2> QED
    BY <1>1, <1>2, <2>1, <2>2, <2>3
<1>4. Carries(reqs, new, rows)
  <2> SUFFICES ASSUME NEW v \in Slots, new[v].op = "login"
               PROVE  /\ reqs[v].op = "login"
                      /\ new[v].email = reqs[v].email /\ new[v].password = reqs[v].password
                      /\ new[v].from \in {reqs[v].from, Nobody}
                      /\ reqs[v].backed => new[v].backed
                      /\ new[v].at \in {"create", "save"} =>
                           new[v].role = "account_user" /\ Covered(reqs, v)
                      /\ new[v].at = "save" => new[v].copy \in Row
    BY DEF Carries
  <2>1. CASE v = w
    BY <1>1, <2>1 DEF Sound, Granted
  <2>2. CASE v # w
    BY <1>1, <2>2 DEF Sound, Granted, Holds
  <2> QED
    BY <2>1, <2>2
<1>5. Sound(new, rows)
  BY <1>3, <1>4, CarriesSound
<1> QED
  BY <1>1, <1>5 DEF new

\* A worker that served no login begins one, something else, or nothing.
LEMMA Begins ==
    ASSUME NEW reqs \in [Slots -> Request], NEW rows, Sound(reqs, rows), NEW w \in Slots,
           reqs[w].op # "login", NEW r \in Request,
           r.op = "login" =>
             /\ r.at = "local"
             /\ r.backed = Backed(rows, StoreOf(w), r.email, r.password)
             /\ r.from \in Slots =>
                  /\ Waits(reqs[r.from])
                  /\ reqs[r.from].email = r.email /\ reqs[r.from].password = r.password
                  /\ \A v \in Slots : ~Asks(reqs, v, r.from)
    PROVE  /\ [reqs EXCEPT ![w] = r] \in [Slots -> Request]
           /\ Sound([reqs EXCEPT ![w] = r], rows)
<1> DEFINE new == [reqs EXCEPT ![w] = r]
<1>1. new \in [Slots -> Request] /\ new[w] = r /\ \A v \in Slots \ {w} : new[v] = reqs[v]
  OBVIOUS
<1> HIDE DEF new
<1>2. \A v, c \in Slots : v # w => (Asks(new, v, c) <=> Asks(reqs, v, c))
  BY <1>1 DEF Asks
<1>3. Linked(new)
  <2> SUFFICES ASSUME NEW v \in Slots, NEW c \in Slots, Asks(new, v, c)
               PROVE  /\ Waits(new[c])
                      /\ new[c].email = new[v].email /\ new[c].password = new[v].password
                      /\ \A u \in Slots : Asks(new, u, c) => u = v
    BY DEF Linked
  <2>1. CASE v = w
    <3>1. r.op = "login" /\ r.from = c
      BY <1>1, <2>1 DEF Asks
    <3>2. /\ Waits(reqs[c]) /\ reqs[c].email = r.email /\ reqs[c].password = r.password
          /\ \A u \in Slots : ~Asks(reqs, u, c)
      BY <3>1
    <3>3. c # w
      BY <3>2 DEF Waits
    <3> QED
      BY <1>1, <1>2, <2>1, <3>2, <3>3
  <2>2. CASE v # w
    <3>1. /\ Waits(reqs[c])
          /\ reqs[c].email = reqs[v].email /\ reqs[c].password = reqs[v].password
          /\ \A u \in Slots : Asks(reqs, u, c) => u = v
      BY <1>2, <2>2 DEF Linked, Sound
    <3>2. c # w
      BY <3>1 DEF Waits
    <3>3. Asks(reqs, v, c)
      BY <1>2, <2>2
    <3>4. ~Asks(new, w, c)
      BY <1>1, <3>3 DEF Asks
    <3> QED
      BY <1>1, <1>2, <2>2, <3>1, <3>2, <3>4
  <2> QED
    BY <2>1, <2>2
<1>4. Carries(reqs, new, rows)
  <2> SUFFICES ASSUME NEW v \in Slots, new[v].op = "login"
               PROVE  IF v = w
                      THEN /\ new[v].at = "local"
                           /\ new[v].backed = Backed(rows, StoreOf(v), new[v].email, new[v].password)
                      ELSE /\ new[v] = reqs[v]
                           /\ new[v].at \in {"create", "save"} =>
                                new[v].role = "account_user" /\ Covered(reqs, v)
                           /\ new[v].at = "save" => new[v].copy \in Row
    BY <1>1 DEF Carries
  <2>1. CASE v = w
    BY <1>1, <2>1
  <2>2. CASE v # w
    BY <1>1, <2>2 DEF Sound, Granted, Holds
  <2> QED
    BY <2>1, <2>2
<1>5. Sound(new, rows)
  BY <1>3, <1>4, CarriesSound
<1> QED
  BY <1>1, <1>5 DEF new

-----------------------------------------------------------------------------
(* Steps *)

\* One who does not wait has nobody that asks for him.
LEMMA NobodyAsks ==
    ASSUME LoginInv, NEW w \in Slots, ~Waits(req[w])
    PROVE  \A v \in Slots : ~Asks(req, v, w)
BY DEF LoginInv, Sound, Linked

\* What is known of a login that is served.
LEMMA LoginType ==
    ASSUME LoginInv, NEW w \in Slots, IsLogin(w)
    PROVE  /\ req \in [Slots -> Request] /\ Sound(req, row) /\ req[w] \in LoginRequest
           /\ req[w].op = "login"
           /\ StoreOf(w) \in Stores /\ req[w].email \in Emails
           /\ row[StoreOf(w)][req[w].email] \in Row \cup {NoRow}
<1>1. req \in [Slots -> Request] /\ req[w].op = "login" /\ Sound(req, row)
  BY DEF LoginInv, AccountTypeOK, IsLogin
<1>2. req[w] \in LoginRequest
  BY <1>1, RequestKinds
<1>3. StoreOf(w) \in Stores /\ req[w].email \in Emails
  BY <1>2, SlotOfStore DEF LoginRequest
<1> QED
  BY <1>1, <1>2, <1>3 DEF LoginInv, AccountTypeOK

\* A login as it begins.
LEMMA LoginIs ==
    ASSUME LoginInv, NEW w \in Slots, NEW e \in Emails, NEW password \in Passwords,
           NEW from \in {Browser, Nobody} \cup Slots
    PROVE  /\ Login(w, e, password, from) \in Request
           /\ Login(w, e, password, from).op = "login"
           /\ Login(w, e, password, from).at = "local"
           /\ Login(w, e, password, from).from = from
           /\ Login(w, e, password, from).email = e
           /\ Login(w, e, password, from).password = password
           /\ Login(w, e, password, from).backed = Backed(row, StoreOf(w), e, password)
<1> DEFINE b == Backed(row, StoreOf(w), e, password)
<1>1. b \in BOOLEAN
  BY DEF Backed
<1> HIDE DEF b
<1>2. Login(w, e, password, from)
        = [op |-> "login", email |-> e, password |-> password, from |-> from, at |-> "local",
           peer |-> 0, made |-> FALSE, copy |-> NoRow, role |-> "account_user", backed |-> b]
  BY DEF Login, b
<1>3. Login(w, e, password, from) \in LoginRequest
  BY <1>1, <1>2 DEF LoginRequest, AccountRoles
<1> QED
  BY <1>2, <1>3 DEF Request, b

\* A row that is saved.
LEMMA RowSaved ==
    ASSUME LoginInv, NEW s \in Stores, NEW e \in Emails, NEW r \in Row,
           row' = [row EXCEPT ![s][e] = r]
    PROVE  /\ row' \in [Stores -> [Emails -> Row \cup {NoRow}]]
           /\ row'[s][e] = r
           /\ \A t \in Stores, f \in Emails : t # s \/ f # e => row'[t][f] = row[t][f]
BY DEF LoginInv, AccountTypeOK

\* A row as it is created.
LEMMA NewRowIs ==
    ASSUME NEW password \in Passwords \cup {Blank}
    PROVE  /\ NewRow(password) \in Row
           /\ NewRow(password).password = password /\ NewRow(password).role = "account_user"
BY DEF NewRow, Row, AccountRoles

\* RegistrationForm.save.
LEMMA RegisterStep ==
    ASSUME LoginInv, NEW s \in Stores, NEW e \in Emails, NEW password \in Passwords,
           Register(s, e, password)
    PROVE  AccountTypeOK' /\ Sound(req', row')
<1>1. row' \in [Stores -> [Emails -> Row \cup {NoRow}]]
  BY NewRowIs, RowSaved DEF Register
<1>2. PICK rows : rows = row'
  OBVIOUS
<1>3. req \in [Slots -> Request] /\ Linked(req) /\ Granted(req) /\ Holds(req)
  BY DEF LoginInv, AccountTypeOK, Sound
<1>4. Noted(req, rows) \in [Slots -> Request] /\ Sound(Noted(req, rows), rows)
  BY <1>3, NotedIs, NotedSound
<1>5. req' = Noted(req, rows)
  BY <1>2 DEF Register
<1> QED
  BY <1>1, <1>2, <1>4, <1>5 DEF AccountTypeOK

\* update_scoped_user reads the row.
LEMMA StartUpdateStep ==
    ASSUME LoginInv, NEW w \in Slots, NEW e \in Emails, ReadAccount(w, e)
    PROVE  AccountTypeOK' /\ Sound(req', row')
<1> DEFINE r == [op |-> "update", email |-> e, copy |-> row[StoreOf(w)][e]]
<1>1. req \in [Slots -> Request] /\ Sound(req, row) /\ req[w].op # "login"
  BY DEF LoginInv, AccountTypeOK, ReadAccount, Available, NoRequest
<1>2. row[StoreOf(w)][e] \in Row
  <2>1. StoreOf(w) \in Stores
    BY SlotOfStore
  <2> QED
    BY <2>1 DEF LoginInv, AccountTypeOK, ReadAccount
<1>3. r \in Request /\ r.op # "login"
  BY <1>2 DEF Request, UpdateRequest
<1>4. req' = [req EXCEPT ![w] = r] /\ row' = row
  BY DEF ReadAccount
<1> HIDE DEF r
<1>5. [req EXCEPT ![w] = r] \in [Slots -> Request] /\ Sound([req EXCEPT ![w] = r], row)
  BY <1>1, <1>3, Begins
<1> QED
  BY <1>4, <1>5 DEF LoginInv, AccountTypeOK

\* A row with another role and status.
Updated(r, role, status) == [r EXCEPT !.role = role, !.status = status]

\* What update_scoped_user saves.
LEMMA UpdateIs ==
    ASSUME LoginInv, NEW w \in Slots, NEW role \in AccountRoles, NEW status \in {"active", "locked"},
           SaveAccount(w, role, status)
    PROVE  /\ StoreOf(w) \in Stores /\ req[w].email \in Emails /\ req[w].copy \in Row
           /\ Updated(req[w].copy, role, status) \in Row
           /\ Updated(req[w].copy, role, status).role = role
           /\ Updated(req[w].copy, role, status).password = req[w].copy.password
           /\ row' = [row EXCEPT ![StoreOf(w)][req[w].email] = Updated(req[w].copy, role, status)]
<1>1. req[w].op = "update" /\ req \in [Slots -> Request]
  BY DEF LoginInv, AccountTypeOK, SaveAccount
<1>2. req[w] \in UpdateRequest
  BY <1>1, RequestKinds
<1>3. StoreOf(w) \in Stores /\ req[w].email \in Emails /\ req[w].copy \in Row
  BY <1>2, SlotOfStore DEF UpdateRequest
<1>4. /\ Updated(req[w].copy, role, status) \in Row
      /\ Updated(req[w].copy, role, status).role = role
      /\ Updated(req[w].copy, role, status).password = req[w].copy.password
  BY <1>3 DEF Row, Updated
<1>5. row' = [row EXCEPT ![StoreOf(w)][req[w].email] = Updated(req[w].copy, role, status)]
  BY DEF SaveAccount, Updated
<1> QED
  BY <1>3, <1>4, <1>5

\* update_scoped_user saves it.
LEMMA SaveUpdateStep ==
    ASSUME LoginInv, NEW w \in Slots, NEW role \in AccountRoles, NEW status \in {"active", "locked"},
           SaveAccount(w, role, status)
    PROVE  AccountTypeOK' /\ Sound(req', row')
<1>1. row' \in [Stores -> [Emails -> Row \cup {NoRow}]]
  <2>1. PICK s, e, r : s = StoreOf(w) /\ e = req[w].email
                         /\ r = Updated(req[w].copy, role, status)
    OBVIOUS
  <2>2. s \in Stores /\ e \in Emails /\ r \in Row /\ row' = [row EXCEPT ![s][e] = r]
    BY <2>1, UpdateIs
  <2> QED
    BY <2>2, RowSaved
<1>2. PICK rows : rows = row'
  OBVIOUS
<1>3. req \in [Slots -> Request] /\ Sound(req, row) /\ req[w].op # "login"
  BY DEF LoginInv, AccountTypeOK, SaveAccount
<1>4. NoRequest \in Request /\ NoRequest.op # "login"
  BY DEF Request, NoRequest
<1>5. PICK reqs : reqs = [req EXCEPT ![w] = NoRequest]
  OBVIOUS
<1>6. reqs \in [Slots -> Request] /\ Sound(reqs, row)
  BY <1>3, <1>4, <1>5, Begins
<1>7. Noted(reqs, rows) \in [Slots -> Request] /\ Sound(Noted(reqs, rows), rows)
  BY <1>6, NotedIs, NotedSound DEF Sound
<1>8. req' = Noted(reqs, rows)
  BY <1>2, <1>5 DEF SaveAccount
<1> QED
  BY <1>1, <1>2, <1>7, <1>8 DEF AccountTypeOK

\* A login in the browser.
LEMMA StartLoginStep ==
    ASSUME LoginInv, NEW w \in Slots, NEW e \in Emails, NEW password \in Passwords,
           StartLogin(w, e, password)
    PROVE  AccountTypeOK' /\ Sound(req', row')
<1>1. req \in [Slots -> Request] /\ Sound(req, row) /\ req[w].op # "login"
  BY DEF LoginInv, AccountTypeOK, StartLogin, Available, NoRequest
<1>2. PICK r : r = Login(w, e, password, Browser)
  OBVIOUS
<1>3. /\ r \in Request /\ r.op = "login" /\ r.at = "local" /\ r.from \notin Slots
      /\ r.backed = Backed(row, StoreOf(w), r.email, r.password)
  BY <1>2, LoginIs, NotASlot
<1>4. [req EXCEPT ![w] = r] \in [Slots -> Request] /\ Sound([req EXCEPT ![w] = r], row)
  BY <1>1, <1>3, Begins
<1>5. req' = [req EXCEPT ![w] = r] /\ row' = row
  BY <1>2 DEF StartLogin
<1> QED
  BY <1>4, <1>5 DEF LoginInv, AccountTypeOK

\* PeerValidateView takes a call.
LEMMA AcceptStep ==
    ASSUME LoginInv, NEW v \in Slots, NEW w \in Slots, Accept(v, w)
    PROVE  AccountTypeOK' /\ Sound(req', row')
<1>1. /\ req \in [Slots -> Request] /\ Sound(req, row) /\ req[w] \in LoginRequest
      /\ req[w].op = "login" /\ req[w].at = "call" /\ req[v] = NoRequest /\ req[v].op # "login"
  BY LoginType DEF Accept, Available, NoRequest
<1>2. v # w
  BY <1>1
<1>3. \A u \in Slots : ~Asks(req, u, w)
  BY <1>1, NobodyAsks DEF Waits
<1>4. PICK r : r = [req[w] EXCEPT !.at = "wait"]
  OBVIOUS
<1>5. /\ r \in LoginRequest /\ r.op = "login" /\ r.at = "wait" /\ r.from = req[w].from
      /\ r.email = req[w].email /\ r.password = req[w].password /\ r.backed = req[w].backed
  BY <1>1, <1>4 DEF LoginRequest
<1>6. r \in Request
  BY <1>5 DEF Request
<1>7. PICK reqs : reqs = [req EXCEPT ![w] = r]
  OBVIOUS
<1>8. reqs \in [Slots -> Request] /\ Sound(reqs, row)
  BY <1>1, <1>3, <1>5, <1>6, <1>7, MovesOn
<1>9. reqs[w] = r /\ reqs[v] = NoRequest /\ \A u \in Slots \ {w} : reqs[u] = req[u]
  BY <1>1, <1>2, <1>7
<1>10. \A u \in Slots : ~Asks(reqs, u, w)
  <2>1. ~Asks(reqs, w, w)
    <3>1. ~Asks(req, w, w)
      BY <1>3
    <3> QED
      BY <1>1, <1>5, <1>9, <3>1 DEF Asks
  <2>2. \A u \in Slots \ {w} : ~Asks(reqs, u, w)
    BY <1>3, <1>9 DEF Asks
  <2> QED
    BY <2>1, <2>2
<1>11. PICK q : q = Login(v, req[w].email, req[w].password, w)
  OBVIOUS
<1>12. req[w].email \in Emails /\ req[w].password \in Passwords
  BY <1>1 DEF LoginRequest
<1>13. /\ q \in Request /\ q.op = "login" /\ q.at = "local" /\ q.from = w
       /\ q.email = r.email /\ q.password = r.password
       /\ q.backed = Backed(row, StoreOf(v), q.email, q.password)
  BY <1>5, <1>11, <1>12, LoginIs
<1>14. [reqs EXCEPT ![v] = q] \in [Slots -> Request] /\ Sound([reqs EXCEPT ![v] = q], row)
  <2>1. reqs[v].op # "login"
    BY <1>9 DEF NoRequest
  <2>2. Waits(reqs[w]) /\ reqs[w].email = q.email /\ reqs[w].password = q.password
    BY <1>5, <1>9, <1>13 DEF Waits
  <2> QED
    BY <1>8, <1>10, <1>13, <2>1, <2>2, Begins
<1>15. req' = [reqs EXCEPT ![v] = q] /\ row' = row
  BY <1>1, <1>4, <1>7, <1>11 DEF Accept
<1> QED
  BY <1>14, <1>15 DEF LoginInv, AccountTypeOK

\* A password of a customer is that of a row, not of none.
LEMMA PasswordIs ==
    ASSUME PasswordsApart, NEW password \in Passwords, NEW r \in Row \cup {NoRow},
           r.password = password
    PROVE  r \in Row /\ r.role \in AccountRoles
BY DEF PasswordsApart, NoRow, Row

\* What authenticate finds in the rows of the store.
LEMMA LocalIs ==
    ASSUME LoginInv, NEW w \in Slots, Local(w)
    PROVE  LET r == row[StoreOf(w)][req[w].email]
               known == Knows(r, req[w].password)
           IN  /\ known => r \in Row
               /\ \A c \in Slots : Validated(known, IF known THEN r.role ELSE "account_user")
                                   /\ Asks(req, w, c) => Covered(req, c)
               /\ known => req[w].backed
<1> DEFINE r == row[StoreOf(w)][req[w].email]
           known == Knows(r, req[w].password)
<1>1. /\ req \in [Slots -> Request] /\ Sound(req, row) /\ req[w] \in LoginRequest
      /\ req[w].op = "login" /\ StoreOf(w) \in Stores /\ r \in Row \cup {NoRow}
  BY LoginType DEF Local
<1>2. known => r.password = req[w].password /\ r.status = "active"
  BY DEF Knows
<1>3. known => r \in Row
  <2>1. req[w].password \in Passwords
    BY <1>1 DEF LoginRequest
  <2> QED
    BY <1>1, <1>2, <2>1, PasswordIs DEF LoginInv
<1>4. known => req[w].backed
  <2> SUFFICES ASSUME known
               PROVE  req[w].backed
    OBVIOUS
  <2>1. Backed(row, StoreOf(w), req[w].email, req[w].password)
    BY <1>1, <1>2 DEF Backed
  <2> QED
    BY <1>1, <2>1 DEF Sound, Noticed
<1>5. ASSUME NEW c \in Slots, Validated(known, IF known THEN r.role ELSE "account_user"),
             Asks(req, w, c)
      PROVE  Covered(req, c)
  <2>1. known /\ r.role = "account_user"
    BY <1>5 DEF Validated
  <2>2. Covered(req, w)
    BY <1>1, <1>2, <2>1, KnownCovers
  <2> QED
    BY <1>5, <2>2, CallerCovered
<1> QED
  BY <1>3, <1>4, <1>5

\* authenticate, before it asks a peer.
LEMMA LocalStep ==
    ASSUME LoginInv, NEW w \in Slots, Local(w)
    PROVE  AccountTypeOK' /\ Sound(req', row')
<1> DEFINE r == row[StoreOf(w)][req[w].email]
           known == Knows(r, req[w].password)
           role == IF known THEN r.role ELSE "account_user"
<1>1. /\ req \in [Slots -> Request] /\ Sound(req, row) /\ req[w] \in LoginRequest
      /\ req[w].op = "login" /\ req[w].at = "local"
  BY LoginType DEF Local
<1>2. \A u \in Slots : ~Asks(req, u, w)
  BY <1>1, NobodyAsks DEF Waits
<1>3. /\ known \in BOOLEAN /\ role \in AccountRoles
      /\ \A c \in Slots : Validated(known, role) /\ Asks(req, w, c) => Covered(req, c)
  <2>1. known => r \in Row
    BY LocalIs
  <2>2. role \in AccountRoles
    BY <2>1 DEF Row, AccountRoles
  <2>3. known \in BOOLEAN
    BY DEF Knows
  <2> QED
    BY <2>2, <2>3, LocalIs
<1>4. \/ req' = Ended(req, w, known, role)
      \/ req' = [req EXCEPT ![w] = Asking(req[w])]
  BY DEF Local
<1>5. row' = row
  BY DEF Local
<1> HIDE DEF known, role
<1>6. /\ Ended(req, w, known, role) \in [Slots -> Request]
      /\ Sound(Ended(req, w, known, role), row)
  BY <1>1, <1>2, <1>3, EndSound DEF EndsTo
<1>7. /\ [req EXCEPT ![w] = Asking(req[w])] \in [Slots -> Request]
      /\ Sound([req EXCEPT ![w] = Asking(req[w])], row)
  <2>1. /\ Asking(req[w]) \in Request /\ Asking(req[w]).at = "call"
        /\ Same(Asking(req[w]), req[w])
    BY <1>1, StepOfLogin DEF AccountRoles
  <2> QED
    BY <1>1, <1>2, <2>1, MovesOn DEF Same
<1> QED
  BY <1>4, <1>5, <1>6, <1>7 DEF LoginInv, AccountTypeOK

\* A login that fails, in time or with its process.
LEMMA FailIs ==
    ASSUME LoginInv, NEW w \in Slots, IsLogin(w)
    PROVE  /\ Ended(Dropped(req, w), w, FALSE, "account_user") \in [Slots -> Request]
           /\ Sound(Ended(Dropped(req, w), w, FALSE, "account_user"), row)
           /\ EndsTo(Dropped(req, w), Ended(Dropped(req, w), w, FALSE, "account_user"), w,
                     FALSE, "account_user")
<1>1. PICK reqs : reqs = Dropped(req, w)
  OBVIOUS
<1>2. reqs \in [Slots -> Request] /\ Sound(reqs, row) /\ reqs[w].op = "login"
      /\ \A v \in Slots : ~Asks(reqs, v, w)
  <2>1. req[w].op = "login"
    BY DEF IsLogin
  <2> QED
    BY <1>1, <2>1, DroppedIs DEF LoginRequest
<1>3. ~Validated(FALSE, "account_user") /\ "account_user" \in AccountRoles
  BY DEF Validated, AccountRoles
<1>4. Validated(FALSE, "account_user") = FALSE
  BY DEF Validated
<1>5. /\ Sound(Ended(reqs, w, FALSE, "account_user"), row)
      /\ EndsTo(reqs, Ended(reqs, w, FALSE, "account_user"), w, FALSE, "account_user")
  BY <1>2, <1>3, <1>4, EndSound
<1> QED
  BY <1>1, <1>5 DEF EndsTo

\* A call that is not answered in time.
LEMMA TimeoutStep ==
    ASSUME LoginInv, NEW w \in Slots, Timeout(w)
    PROVE  AccountTypeOK' /\ Sound(req', row')
<1>1. IsLogin(w) /\ req[w].op = "login" /\ row' = row
  BY DEF Timeout, IsLogin
<1>2. CASE req' = Ended(Dropped(req, w), w, FALSE, "account_user")
  BY <1>1, <1>2, FailIs DEF LoginInv, AccountTypeOK
<1>3. CASE req' = [Dropped(req, w) EXCEPT ![w] = Asking(@)]
  <2>1. PICK reqs : reqs = Dropped(req, w)
    OBVIOUS
  <2>2. reqs \in [Slots -> Request] /\ Sound(reqs, row) /\ reqs[w].op = "login"
        /\ \A v \in Slots : ~Asks(reqs, v, w)
    BY <1>1, <2>1, DroppedIs DEF LoginRequest
  <2>3. /\ Asking(reqs[w]) \in Request /\ Asking(reqs[w]).at = "call"
        /\ Same(Asking(reqs[w]), reqs[w])
    BY <2>2, StepOfLogin DEF AccountRoles
  <2>4. /\ [reqs EXCEPT ![w] = Asking(reqs[w])] \in [Slots -> Request]
        /\ Sound([reqs EXCEPT ![w] = Asking(reqs[w])], row)
    BY <2>2, <2>3, MovesOn DEF Same
  <2>5. req' = [reqs EXCEPT ![w] = Asking(reqs[w])]
    BY <1>3, <2>1
  <2> QED
    BY <1>1, <2>4, <2>5 DEF LoginInv, AccountTypeOK
<1> QED
  BY <1>2, <1>3 DEF Timeout

\* A login that all peers rejected.
LEMMA FailStep ==
    ASSUME LoginInv, NEW w \in Slots, Fail(w)
    PROVE  AccountTypeOK' /\ Sound(req', row')
<1>1. /\ req \in [Slots -> Request] /\ Sound(req, row)
      /\ req[w].op = "login" /\ req[w].at = "failed"
  BY LoginType DEF Fail
<1>2. \A u \in Slots : ~Asks(req, u, w)
  BY <1>1, NobodyAsks DEF Waits
<1>3. "account_user" \in AccountRoles
  BY DEF AccountRoles
<1>4. \A c \in Slots : Asks(req, w, c) => ~Validated(FALSE, "account_user")
  BY DEF Validated
<1>5. /\ Ended(req, w, FALSE, "account_user") \in [Slots -> Request]
      /\ Sound(Ended(req, w, FALSE, "account_user"), row)
  BY <1>1, <1>2, <1>3, <1>4, EndSound DEF EndsTo
<1> QED
  BY <1>5 DEF Fail, LoginInv, AccountTypeOK

\* A worker that dies.
LEMMA DieStep ==
    ASSUME LoginInv, NEW w \in Slots, Kill(w)
    PROVE  AccountTypeOK' /\ Sound(req', row')
<1>1. row' = row /\ req \in [Slots -> Request] /\ Sound(req, row)
  BY DEF Kill, LoginInv, AccountTypeOK
<1>2. CASE IsLogin(w)
  <2>1. req' = Ended(Dropped(req, w), w, FALSE, "account_user")
    BY <1>2 DEF Kill
  <2> QED
    BY <1>1, <1>2, <2>1, FailIs DEF LoginInv, AccountTypeOK
<1>3. CASE ~IsLogin(w)
  <2>1. req' = [req EXCEPT ![w] = NoRequest] /\ req[w].op # "login"
    BY <1>3 DEF Kill, IsLogin
  <2>2. NoRequest \in Request /\ NoRequest.op # "login"
    BY DEF Request, NoRequest
  <2>3. [req EXCEPT ![w] = NoRequest] \in [Slots -> Request] /\ Sound([req EXCEPT ![w] = NoRequest], row)
    BY <1>1, <2>1, <2>2, Begins
  <2> QED
    BY <1>1, <2>1, <2>3 DEF LoginInv, AccountTypeOK
<1> QED
  BY <1>2, <1>3

\* The row a login comes by is new, or the one that is there.
LEMMA CreateIs ==
    ASSUME LoginInv, NEW w \in Slots, CreateRow(w)
    PROVE  LET s == StoreOf(w)
               e == req[w].email
           IN  /\ s \in Stores /\ e \in Emails
               /\ row' \in [Stores -> [Emails -> Row \cup {NoRow}]]
               /\ row'[s][e] \in Row
               /\ \A t \in Stores, f \in Emails :
                    \/ row'[t][f] = row[t][f]
                    \/ /\ t = s /\ f = e /\ row[t][f] = NoRow
                       /\ row'[t][f].password = Blank /\ row'[t][f].role = "account_user"
<1> DEFINE s == StoreOf(w)
           e == req[w].email
<1>1. /\ s \in Stores /\ e \in Emails /\ row[s][e] \in Row \cup {NoRow}
      /\ row \in [Stores -> [Emails -> Row \cup {NoRow}]]
  BY LoginType DEF CreateRow, LoginInv, AccountTypeOK
<1>2. CASE row[s][e] = NoRow
  <2>1. row' = [row EXCEPT ![s][e] = NewRow(Blank)]
    BY <1>2 DEF CreateRow
  <2>2. /\ NewRow(Blank) \in Row /\ NewRow(Blank).password = Blank
        /\ NewRow(Blank).role = "account_user"
    BY NewRowIs
  <2> HIDE DEF s, e
  <2>3. PICK r : r = NewRow(Blank)
    OBVIOUS
  <2>4. /\ row' \in [Stores -> [Emails -> Row \cup {NoRow}]]
        /\ row'[s][e] = r
        /\ \A t \in Stores, f \in Emails : t # s \/ f # e => row'[t][f] = row[t][f]
    BY <1>1, <2>1, <2>2, <2>3, RowSaved
  <2> QED
    BY <1>1, <1>2, <2>2, <2>3, <2>4 DEF s, e
<1>3. CASE row[s][e] # NoRow
  <2>1. row' = row
    BY <1>3 DEF CreateRow
  <2> QED
    BY <1>1, <1>3, <2>1
<1> QED
  BY <1>2, <1>3

\* _provision_peer_user gets or creates the row.
LEMMA RowMadeStep ==
    ASSUME LoginInv, NEW w \in Slots, CreateRow(w)
    PROVE  AccountTypeOK' /\ Sound(req', row')
<1>1. /\ req \in [Slots -> Request] /\ Sound(req, row) /\ req[w] \in LoginRequest
      /\ req[w].op = "login" /\ req[w].at = "create"
  BY LoginType DEF CreateRow
<1>2. \A u \in Slots : ~Asks(req, u, w)
  BY <1>1, NobodyAsks DEF Waits
<1>3. PICK made, copy : /\ made = (row[StoreOf(w)][req[w].email] = NoRow)
                        /\ copy = row'[StoreOf(w)][req[w].email]
  OBVIOUS
<1>4. made \in BOOLEAN /\ copy \in Row
  BY <1>3, CreateIs
<1>5. PICK r : r = [req[w] EXCEPT !.at = "save", !.made = made, !.copy = copy]
  OBVIOUS
<1>6. /\ r \in LoginRequest /\ r.op = "login" /\ r.at = "save" /\ r.from = req[w].from
      /\ r.email = req[w].email /\ r.password = req[w].password /\ r.backed = req[w].backed
      /\ r.role = req[w].role /\ r.copy \in Row
  BY <1>1, <1>4, <1>5 DEF LoginRequest
<1>7. r \in Request
  BY <1>6 DEF Request
<1>8. PICK new : new = [req EXCEPT ![w] = r]
  OBVIOUS
<1>9. new \in [Slots -> Request] /\ Sound(new, row)
  BY <1>1, <1>2, <1>6, <1>7, <1>8, MovesOn
<1>10. req' = new
  <2>1. req' = [req EXCEPT ![w].at = "save",
                           ![w].made = (row[StoreOf(w)][req[w].email] = NoRow),
                           ![w].copy = row'[StoreOf(w)][req[w].email]]
    BY DEF CreateRow
  <2>2. req' = [req EXCEPT ![w].at = "save", ![w].made = made, ![w].copy = copy]
    BY <1>3, <2>1, Zenon
  <2> QED
    BY <1>5, <1>8, <2>2
<1>11. Noticed(new, row')
  <2> SUFFICES ASSUME NEW v \in Slots, new[v].op = "login",
                      NEW t \in Stores, row'[t][new[v].email].password = new[v].password,
                      row'[t][new[v].email].status = "active",
                      t = StoreOf(v) \/ row'[t][new[v].email].role = "account_user"
               PROVE  new[v].backed
    BY DEF Noticed, Backed
  <2>1. new[v].email \in Emails /\ new[v].password \in Passwords
    <3>1. new[v] \in LoginRequest
      BY <1>9, RequestKinds
    <3> QED
      BY <3>1 DEF LoginRequest
  <2>2. new[v].password # Blank
    BY <2>1 DEF LoginInv, PasswordsApart
  <2>3. row'[t][new[v].email] = row[t][new[v].email]
    BY <2>1, <2>2, CreateIs
  <2>4. Backed(row, StoreOf(v), new[v].email, new[v].password)
    BY <2>3 DEF Backed
  <2> QED
    BY <1>9, <2>4 DEF Sound, Noticed
<1>12. row' \in [Stores -> [Emails -> Row \cup {NoRow}]]
  BY CreateIs
<1> QED
  BY <1>9, <1>10, <1>11, <1>12 DEF Sound, AccountTypeOK

\* What _provision_peer_user saves.
LEMMA ProvisionedIs ==
    ASSUME LoginInv, NEW w \in Slots, SaveProvisioned(w)
    PROVE  /\ req \in [Slots -> Request] /\ Sound(req, row)
           /\ req[w].op = "login" /\ req[w].at = "save"
           /\ req[w].role = "account_user" /\ Covered(req, w) /\ req[w].copy \in Row
           /\ StoreOf(w) \in Stores /\ req[w].email \in Emails
           /\ Provisioned(req[w]) \in Row
           /\ Provisioned(req[w]).role = "account_user"
           /\ \/ Provisioned(req[w]).password = Unusable
              \/ ~req[w].made /\ Provisioned(req[w]).password = req[w].copy.password
<1>1. /\ req \in [Slots -> Request] /\ Sound(req, row) /\ req[w] \in LoginRequest
      /\ req[w].op = "login" /\ req[w].at = "save"
      /\ StoreOf(w) \in Stores /\ req[w].email \in Emails
  BY LoginType DEF SaveProvisioned
<1>2. req[w].role = "account_user" /\ Covered(req, w) /\ req[w].copy \in Row
  BY <1>1 DEF Sound, Granted, Holds
<1>3. PICK password : password = IF req[w].made THEN Unusable ELSE req[w].copy.password
  OBVIOUS
<1>4. Provisioned(req[w]) = [req[w].copy EXCEPT !.role = "account_user", !.status = "active",
                                                !.password = password]
  BY <1>2, <1>3 DEF Provisioned
<1>5. password \in Passwords \cup {Blank, Unusable}
  BY <1>2, <1>3 DEF Row
<1>6. /\ Provisioned(req[w]) \in Row /\ Provisioned(req[w]).role = "account_user"
      /\ Provisioned(req[w]).password = password
  BY <1>2, <1>4, <1>5 DEF Row, AccountRoles
<1> QED
  BY <1>1, <1>2, <1>3, <1>6

\* _provision_peer_user saves it.
LEMMA SaveProvisionedStep ==
    ASSUME LoginInv, NEW w \in Slots, SaveProvisioned(w)
    PROVE  AccountTypeOK' /\ Sound(req', row')
<1>1. /\ req \in [Slots -> Request] /\ Sound(req, row)
      /\ req[w].op = "login" /\ req[w].at = "save"
      /\ req[w].role = "account_user" /\ Covered(req, w)
  BY ProvisionedIs
<1>2. \A u \in Slots : ~Asks(req, u, w)
  BY <1>1, NobodyAsks DEF Waits
<1>3. row' \in [Stores -> [Emails -> Row \cup {NoRow}]]
  <2>1. PICK s, e, r : s = StoreOf(w) /\ e = req[w].email /\ r = Provisioned(req[w])
    OBVIOUS
  <2>2. row' = [row EXCEPT ![s][e] = r]
    BY <2>1 DEF SaveProvisioned
  <2>3. s \in Stores /\ e \in Emails /\ r \in Row
    BY <2>1, ProvisionedIs
  <2> QED
    BY <2>2, <2>3, RowSaved
<1>4. PICK rows : rows = row'
  OBVIOUS
<1>5. \A c \in Slots : Validated(TRUE, "account_user") /\ Asks(req, w, c) => Covered(req, c)
  BY <1>1, CallerCovered
<1>6. PICK reqs : reqs = Ended(req, w, TRUE, "account_user")
  OBVIOUS
<1>7. reqs \in [Slots -> Request] /\ Sound(reqs, row)
  <2>1. "account_user" \in AccountRoles
    BY DEF AccountRoles
  <2> QED
    BY <1>1, <1>2, <1>5, <1>6, <2>1, EndSound DEF EndsTo
<1>8. Noted(reqs, rows) \in [Slots -> Request] /\ Sound(Noted(reqs, rows), rows)
  BY <1>7, NotedIs, NotedSound DEF Sound
<1>9. req' = Noted(reqs, rows)
  BY <1>1, <1>4, <1>6 DEF SaveProvisioned
<1> QED
  BY <1>3, <1>4, <1>8, <1>9 DEF AccountTypeOK

\* The invariant of the logins.
LEMMA LoginInit == ASSUME PasswordsApart PROVE AccountInit => LoginInv
<1> SUFFICES ASSUME AccountInit
             PROVE  LoginInv
  OBVIOUS
<1>1. \A w \in Slots : req[w] = NoRequest /\ req[w].op # "login"
  BY DEF AccountInit, NoRequest
<1>2. AccountTypeOK
  BY DEF AccountInit, AccountTypeOK, Request
<1>3. Sound(req, row)
  BY <1>1 DEF Sound, Linked, Noticed, Granted, Holds, Asks
<1> QED
  BY <1>2, <1>3 DEF LoginInv

LEMMA LoginStep == LoginInv /\ [AccountNext]_accountVars => LoginInv'
<1> SUFFICES ASSUME LoginInv, [AccountNext]_accountVars
             PROVE  LoginInv'
  OBVIOUS
<1>1. AccountTypeOK' /\ Sound(req', row')
  <2>1. ASSUME NEW s \in Stores, NEW e \in Emails, NEW p \in Passwords, Register(s, e, p)
        PROVE  AccountTypeOK' /\ Sound(req', row')
    BY <2>1, RegisterStep
  <2>2. ASSUME NEW w \in Slots, NEW e \in Emails, NEW p \in Passwords, StartLogin(w, e, p)
        PROVE  AccountTypeOK' /\ Sound(req', row')
    BY <2>2, StartLoginStep
  <2>3. ASSUME NEW v \in Slots, NEW w \in Slots, Accept(v, w)
        PROVE  AccountTypeOK' /\ Sound(req', row')
    BY <2>3, AcceptStep
  <2>4. ASSUME NEW w \in Slots, ServeLogin(w)
        PROVE  AccountTypeOK' /\ Sound(req', row')
    BY <2>4, LocalStep, TimeoutStep, FailStep, RowMadeStep, SaveProvisionedStep DEF ServeLogin
  <2>5. ASSUME NEW w \in Slots, UpdateAccount(w)
        PROVE  AccountTypeOK' /\ Sound(req', row')
    BY <2>5, StartUpdateStep, SaveUpdateStep DEF UpdateAccount
  <2>6. ASSUME NEW w \in Slots, Kill(w)
        PROVE  AccountTypeOK' /\ Sound(req', row')
    BY <2>6, DieStep
  <2>7. CASE UNCHANGED accountVars
    BY <2>7 DEF accountVars, LoginInv, AccountTypeOK
  <2> QED
    BY <2>1, <2>2, <2>3, <2>4, <2>5, <2>6, <2>7 DEF AccountNext
<1> QED
  BY <1>1 DEF LoginInv, PasswordsApart

\* No login is admitted that was not backed while it ran (ModelBackend,
\* PeerStoreAuthBackend and the answers of PeerValidateView), by induction on
\* what is known of those that peers ask for.
LEMMA AdmittedStep == LoginInv /\ LoginBacked /\ [AccountNext]_accountVars => LoginBacked'
<1> SUFFICES ASSUME LoginInv, LoginBacked, [AccountNext]_accountVars
             PROVE  LoginBacked'
  OBVIOUS
<1>1. ASSUME NEW w \in Slots, NEW ok, Admit(w, ok), ok => req[w].backed
      PROVE  LoginBacked'
  BY <1>1 DEF Admit, LoginBacked
<1>2. ASSUME NEW w \in Slots, Local(w)
      PROVE  LoginBacked'
  <2>1. CASE UNCHANGED admitted
    BY <2>1 DEF LoginBacked
  <2>2. CASE Admit(w, Knows(row[StoreOf(w)][req[w].email], req[w].password))
    BY <1>1, <1>2, <2>2, LocalIs
  <2> QED
    BY <1>2, <2>1, <2>2 DEF Local
<1>3. ASSUME NEW w \in Slots, SaveProvisioned(w)
      PROVE  LoginBacked'
  <2>1. req[w].backed
    BY <1>3, ProvisionedIs DEF Covered
  <2> QED
    BY <1>1, <1>3, <2>1 DEF SaveProvisioned
<1>4. CASE UNCHANGED admitted
  BY <1>4 DEF LoginBacked
<1> QED
  BY <1>2, <1>3, <1>4 DEF AccountNext, accountVars, Register, StartLogin, Accept, ServeLogin,
                         Timeout, Fail, CreateRow, UpdateAccount, ReadAccount, SaveAccount, Kill

\* Whoever signs in had an active account with that password while the login
\* ran, at the store or as a customer of another (PeerStoreAuthBackend,
\* PeerValidateView).
THEOREM LoginBackedAlways == AccountSpec => []LoginBacked
<1>0. AccountInit => LoginInv
  BY LoginInit, PasswordAssumption
<1>1. AccountInit => LoginBacked
  BY DEF AccountInit, LoginBacked
<1> QED
  BY <1>1, <1>0, LoginStep, AdmittedStep, PTL DEF AccountSpec

\* Rows and requests stay of their types through every handler of a login, an
\* update or a registration.
THEOREM AccountsTypeCorrect == AccountSpec => []AccountTypeOK
<1>0. AccountInit => LoginInv
  BY LoginInit, PasswordAssumption
<1>1. LoginInv => AccountTypeOK
  BY DEF LoginInv
<1> QED
  BY <1>1, <1>0, LoginStep, PTL DEF AccountSpec

-----------------------------------------------------------------------------
(* The rows that come from peers *)

\* What a step may make of a row.
LEMMA RowChanges ==
    ASSUME LoginInv, [AccountNext]_accountVars, NEW s \in Stores, NEW e \in Emails
    PROVE  /\ promoted \subseteq promoted' /\ spoilt \subseteq spoilt'
           /\ \/ row'[s][e] = row[s][e]
              \/ row'[s][e].password \in Passwords
              \/ \E w \in Slots, role \in AccountRoles, status \in {"active", "locked"} :
                   /\ SaveAccount(w, role, status)
                   /\ s = StoreOf(w) /\ e = req[w].email
                   /\ row'[s][e] = Updated(req[w].copy, role, status)
              \/ \E w \in Slots :
                   /\ CreateRow(w) /\ s = StoreOf(w) /\ e = req[w].email /\ row[s][e] = NoRow
                   /\ row'[s][e].role = "account_user"
              \/ \E w \in Slots :
                   /\ SaveProvisioned(w) /\ s = StoreOf(w) /\ e = req[w].email
                   /\ row'[s][e] = Provisioned(req[w])
<1>1. ASSUME NEW t \in Stores, NEW f \in Emails, NEW p \in Passwords, Register(t, f, p)
      PROVE  /\ promoted \subseteq promoted' /\ spoilt \subseteq spoilt'
             /\ row'[s][e] = row[s][e] \/ row'[s][e].password \in Passwords
  <2>1. NewRow(p) \in Row /\ NewRow(p).password = p
    BY NewRowIs
  <2>2. PICK r : r = NewRow(p)
    OBVIOUS
  <2>3. row' = [row EXCEPT ![t][f] = r]
    BY <1>1, <2>2 DEF Register
  <2>4. r \in Row /\ r.password \in Passwords
    BY <2>1, <2>2
  <2>5. /\ row'[t][f] = r
        /\ \A u \in Stores, g \in Emails : u # t \/ g # f => row'[u][g] = row[u][g]
    BY <2>3, <2>4, RowSaved
  <2> QED
    BY <1>1, <2>4, <2>5 DEF Register
<1>2. ASSUME NEW w \in Slots, NEW role \in AccountRoles, NEW status \in {"active", "locked"},
             SaveAccount(w, role, status)
      PROVE  /\ promoted \subseteq promoted' /\ spoilt \subseteq spoilt'
             /\ \/ row'[s][e] = row[s][e]
                \/ /\ s = StoreOf(w) /\ e = req[w].email
                   /\ row'[s][e] = Updated(req[w].copy, role, status)
  <2>1. PICK t, f, r : t = StoreOf(w) /\ f = req[w].email
                         /\ r = Updated(req[w].copy, role, status)
    OBVIOUS
  <2>2. t \in Stores /\ f \in Emails /\ r \in Row
    BY <1>2, <2>1, UpdateIs
  <2>3. row' = [row EXCEPT ![t][f] = r]
    BY <1>2, <2>1, UpdateIs
  <2>4. /\ row'[t][f] = r
        /\ \A u \in Stores, g \in Emails : u # t \/ g # f => row'[u][g] = row[u][g]
    BY <2>2, <2>3, RowSaved
  <2>5. promoted \subseteq promoted' /\ spoilt \subseteq spoilt'
    BY <1>2 DEF SaveAccount
  <2> QED
    BY <2>1, <2>4, <2>5
<1>3. ASSUME NEW w \in Slots, CreateRow(w)
      PROVE  /\ promoted \subseteq promoted' /\ spoilt \subseteq spoilt'
             /\ \/ row'[s][e] = row[s][e]
                \/ /\ s = StoreOf(w) /\ e = req[w].email /\ row[s][e] = NoRow
                   /\ row'[s][e].role = "account_user"
  <2>1. promoted \subseteq promoted' /\ spoilt \subseteq spoilt'
    BY <1>3 DEF CreateRow
  <2> QED
    BY <1>3, <2>1, CreateIs
<1>4. ASSUME NEW w \in Slots, SaveProvisioned(w)
      PROVE  /\ promoted \subseteq promoted' /\ spoilt \subseteq spoilt'
             /\ \/ row'[s][e] = row[s][e]
                \/ /\ s = StoreOf(w) /\ e = req[w].email
                   /\ row'[s][e] = Provisioned(req[w])
  <2>1. PICK t, f, r : t = StoreOf(w) /\ f = req[w].email /\ r = Provisioned(req[w])
    OBVIOUS
  <2>2. t \in Stores /\ f \in Emails /\ r \in Row
    BY <1>4, <2>1, ProvisionedIs
  <2>3. row' = [row EXCEPT ![t][f] = r]
    BY <1>4, <2>1 DEF SaveProvisioned
  <2>4. /\ row'[t][f] = r
        /\ \A u \in Stores, g \in Emails : u # t \/ g # f => row'[u][g] = row[u][g]
    BY <2>2, <2>3, RowSaved
  <2>5. promoted \subseteq promoted' /\ spoilt \subseteq spoilt'
    BY <1>4 DEF SaveProvisioned
  <2> QED
    BY <2>1, <2>4, <2>5
<1>5. CASE UNCHANGED <<row, promoted>> /\ spoilt \subseteq spoilt'
  BY <1>5
<1>6. ASSUME NEW w \in Slots, Kill(w)
      PROVE  UNCHANGED <<row, promoted>> /\ spoilt \subseteq spoilt'
  BY <1>6 DEF Kill
<1> QED
  BY <1>1, <1>2, <1>3, <1>4, <1>5, <1>6 DEF AccountNext, accountVars, StartLogin, Accept, ServeLogin, Local,
                                          Timeout, Fail,
                                          UpdateAccount, ReadAccount

\* "Staff roles stay store-local": the row _provision_peer_user makes is a
\* customer's until an administrator of the store changes it.
THEOREM StaffStayLocalAlways == AccountSpec => []StaffStayLocal
<1>0. AccountInit => LoginInv
  BY LoginInit, PasswordAssumption
<1>1. AccountInit => StaffStayLocal
  BY DEF AccountInit, StaffStayLocal, NoRow, Blank, Unusable
<1>2. LoginInv /\ StaffStayLocal /\ [AccountNext]_accountVars => StaffStayLocal'
  <2> SUFFICES ASSUME LoginInv, StaffStayLocal, [AccountNext]_accountVars,
                      NEW s \in Stores, NEW e \in Emails,
                      row'[s][e].password \in {Blank, Unusable}, <<s, e>> \notin promoted'
               PROVE  row'[s][e].role = "account_user"
    BY DEF StaffStayLocal
  <2>1. <<s, e>> \notin promoted
    BY RowChanges
  <2>2. CASE row'[s][e] = row[s][e]
    BY <2>1, <2>2 DEF StaffStayLocal
  <2>3. row'[s][e].password \notin Passwords
    BY DEF LoginInv, PasswordsApart
  <2>4. ASSUME NEW w \in Slots, NEW role \in AccountRoles, NEW status \in {"active", "locked"},
               SaveAccount(w, role, status), s = StoreOf(w), e = req[w].email,
               row'[s][e] = Updated(req[w].copy, role, status)
        PROVE  row'[s][e].role = "account_user"
    <3>1. row'[s][e].role = role
      BY <2>4, UpdateIs
    <3>2. role = "account_user"
      BY <2>4 DEF SaveAccount
    <3> QED
      BY <3>1, <3>2
  <2>5. ASSUME NEW w \in Slots, SaveProvisioned(w), row'[s][e] = Provisioned(req[w])
        PROVE  row'[s][e].role = "account_user"
    BY <2>5, ProvisionedIs
  <2> QED
    BY <2>2, <2>3, <2>4, <2>5, RowChanges
<1> QED
  BY <1>1, <1>2, <1>0, LoginStep, PTL DEF AccountSpec

-----------------------------------------------------------------------------
(* Half-made accounts *)

\* The login that made the row of e at s, and has not saved it.
Maker(reqs, s, e, m) ==
    /\ StoreOf(m) = s
    /\ reqs[m].op = "login" /\ reqs[m].at = "save" /\ reqs[m].made /\ reqs[m].email = e

\* It does not end with another's login.
LEMMA MakerOutlives ==
    ASSUME NEW reqs \in [Slots -> Request], Linked(reqs), NEW w \in Slots,
           reqs[w].op = "login",
           \A v \in Slots : ~Asks(reqs, v, w), NEW ok \in BOOLEAN, NEW role \in AccountRoles,
           NEW m \in Slots \ {w}, reqs[m].op = "login", reqs[m].at = "save"
    PROVE  /\ Ended(reqs, w, ok, role) \in [Slots -> Request]
           /\ Ended(reqs, w, ok, role)[m] = reqs[m]
<1>1. EndsTo(reqs, Ended(reqs, w, ok, role), w, Validated(ok, role), role)
  BY EndedIs
<1>2. ~Waits(reqs[m])
  BY DEF Waits
<1> QED
  BY <1>1, <1>2 DEF EndsTo

\* Nor when another fails.
LEMMA MakerAfterFail ==
    ASSUME LoginInv, NEW w \in Slots, IsLogin(w), NEW s, NEW e,
           NEW m \in Slots \ {w}, Maker(req, s, e, m)
    PROVE  Maker(Ended(Dropped(req, w), w, FALSE, "account_user"), s, e, m)
<1>1. PICK reqs : reqs = Dropped(req, w)
  OBVIOUS
<1>2. /\ reqs \in [Slots -> Request] /\ Linked(reqs) /\ reqs[w].op = "login"
      /\ \A v \in Slots : ~Asks(reqs, v, w)
  <2>1. req[w].op = "login"
    BY DEF IsLogin
  <2> QED
    BY <1>1, <2>1, DroppedIs DEF LoginRequest, Sound
<1>3. Maker(reqs, s, e, m)
  BY <1>1, DroppedIs DEF Maker, LoginRequest
<1>4. "account_user" \in AccountRoles
  BY DEF AccountRoles
<1>5. \A ok \in BOOLEAN : Ended(reqs, w, ok, "account_user")[m] = reqs[m]
  BY <1>2, <1>3, <1>4, MakerOutlives DEF Maker
<1> QED
  BY <1>1, <1>3, <1>5 DEF Maker

\* Nor when what backs a login is noted.
LEMMA MakerNoted ==
    ASSUME NEW reqs \in [Slots -> Request], NEW rows, NEW s, NEW e, NEW m \in Slots,
           Maker(reqs, s, e, m)
    PROVE  Maker(Noted(reqs, rows), s, e, m)
BY NotedIs DEF Maker, LoginRequest

\* The maker stays until it saves; if it dies, the row is spoilt.
LEMMA MakerStays ==
    ASSUME LoginInv, [AccountNext]_accountVars, NEW s \in Stores, NEW e \in Emails, NEW m \in Slots,
           Maker(req, s, e, m)
    PROVE  Maker(req', s, e, m) \/ SaveProvisioned(m) \/ <<s, e>> \in spoilt'
<1>1. /\ req \in [Slots -> Request] /\ Linked(req)
      /\ req[m].op = "login" /\ req[m].at = "save" /\ ~Waits(req[m])
  BY DEF LoginInv, AccountTypeOK, Sound, Maker, Waits
<1>2. PICK rows : rows = row'
  OBVIOUS
<1>3. ASSUME NEW w \in Slots, NEW r, w # m, req' = [req EXCEPT ![w] = r]
      PROVE  Maker(req', s, e, m)
  BY <1>1, <1>3 DEF Maker
<1>4. ASSUME NEW t \in Stores, NEW f \in Emails, NEW p \in Passwords, Register(t, f, p)
      PROVE  Maker(req', s, e, m)
  <2>1. req' = Noted(req, rows)
    BY <1>2, <1>4 DEF Register
  <2> QED
    BY <1>1, <2>1, MakerNoted
<1>5. ASSUME NEW w \in Slots, NEW f \in Emails, NEW p \in Passwords, StartLogin(w, f, p)
      PROVE  Maker(req', s, e, m)
  <2>1. w # m
    BY <1>1, <1>5 DEF StartLogin, Available, NoRequest
  <2> QED
    BY <1>3, <1>5, <2>1 DEF StartLogin
<1>6. ASSUME NEW v \in Slots, NEW w \in Slots, Accept(v, w)
      PROVE  Maker(req', s, e, m)
  <2>1. v # m /\ w # m
    BY <1>1, <1>6 DEF Accept, Available, NoRequest
  <2>2. req'[m] = req[m]
    BY <1>1, <1>6, <2>1 DEF Accept
  <2> QED
    BY <2>2 DEF Maker
<1>7. ASSUME NEW w \in Slots, Local(w)
      PROVE  Maker(req', s, e, m)
  <2>1. /\ w # m /\ req[w].op = "login" /\ req[w] \in LoginRequest
        /\ \A v \in Slots : ~Asks(req, v, w)
    <3>1. w # m /\ req[w].op = "login" /\ ~Waits(req[w])
      BY <1>1, <1>7 DEF Local, Waits, IsLogin
    <3>2. \A v \in Slots : ~Asks(req, v, w)
      BY <1>1, <3>1, NobodyAsks DEF LoginInv
    <3> QED
      BY <1>1, <3>1, <3>2, LoginType DEF IsLogin
  <2>2. PICK r : r = row[StoreOf(w)][req[w].email]
    OBVIOUS
  <2>3. PICK known, role : known = Knows(r, req[w].password)
                           /\ role = (IF known THEN r.role ELSE "account_user")
    OBVIOUS
  <2>4. known \in BOOLEAN /\ role \in AccountRoles
    <3>1. known => r \in Row
      BY <1>7, <2>2, <2>3, LocalIs
    <3>2. known \in BOOLEAN
      BY <2>3 DEF Knows
    <3> QED
      BY <2>3, <3>1, <3>2 DEF Row, AccountRoles
  <2>5. req' = Ended(req, w, known, role) \/ req' = [req EXCEPT ![w] = Asking(req[w])]
    BY <1>7, <2>2, <2>3 DEF Local
  <2>6. CASE req' = Ended(req, w, known, role)
    <3>1. Ended(req, w, known, role)[m] = req[m]
      BY <1>1, <2>1, <2>4, MakerOutlives
    <3> QED
      BY <2>6, <3>1 DEF Maker
  <2> QED
    BY <1>3, <2>1, <2>5, <2>6
<1>8. ASSUME NEW w \in Slots, Timeout(w)
      PROVE  Maker(req', s, e, m)
  <2>1. w # m /\ IsLogin(w)
    BY <1>1, <1>8 DEF Timeout
  <2>2. CASE req' = Ended(Dropped(req, w), w, FALSE, "account_user")
    BY <2>1, <2>2, MakerAfterFail
  <2>3. CASE req' = [Dropped(req, w) EXCEPT ![w] = Asking(@)]
    <3>1. Dropped(req, w) \in [Slots -> Request] /\ Maker(Dropped(req, w), s, e, m)
      BY <1>1, DroppedIs DEF Maker, LoginRequest
    <3>2. req'[m] = Dropped(req, w)[m]
      BY <2>1, <2>3, <3>1
    <3> QED
      BY <3>1, <3>2 DEF Maker
  <2> QED
    BY <1>8, <2>2, <2>3 DEF Timeout
<1>15. ASSUME NEW w \in Slots, Fail(w)
       PROVE  Maker(req', s, e, m)
  <2>1. /\ w # m /\ req[w].op = "login"
        /\ \A v \in Slots : ~Asks(req, v, w)
    <3>1. w # m /\ req[w].op = "login" /\ ~Waits(req[w])
      BY <1>1, <1>15 DEF Fail, Waits, IsLogin
    <3> QED
      BY <1>1, <3>1, NobodyAsks
  <2>2. "account_user" \in AccountRoles
    BY DEF AccountRoles
  <2>3. \A ok \in BOOLEAN : Ended(req, w, ok, "account_user")[m] = req[m]
    BY <1>1, <2>1, <2>2, MakerOutlives
  <2> QED
    BY <1>15, <2>3 DEF Fail, Maker
<1>9. ASSUME NEW w \in Slots, CreateRow(w)
      PROVE  Maker(req', s, e, m)
  <2>1. w # m
    BY <1>1, <1>9 DEF CreateRow
  <2>2. req'[m] = req[m]
    BY <1>1, <1>9, <2>1 DEF CreateRow
  <2> QED
    BY <2>2 DEF Maker
<1>10. ASSUME NEW w \in Slots, SaveProvisioned(w), w # m
       PROVE  Maker(req', s, e, m)
  <2>1. /\ req[w].op = "login" /\ req[w].role = "account_user"
        /\ \A v \in Slots : ~Asks(req, v, w)
    <3>1. req[w].op = "login" /\ req[w].role = "account_user" /\ ~Waits(req[w])
      BY <1>10, ProvisionedIs DEF Waits
    <3> QED
      BY <1>1, <3>1, NobodyAsks DEF LoginInv
  <2>2. "account_user" \in AccountRoles
    BY DEF AccountRoles
  <2>3. PICK reqs : reqs = Ended(req, w, TRUE, "account_user")
    OBVIOUS
  <2>4. reqs \in [Slots -> Request] /\ reqs[m] = req[m]
    <3>1. \A ok \in BOOLEAN : /\ Ended(req, w, ok, "account_user") \in [Slots -> Request]
                             /\ Ended(req, w, ok, "account_user")[m] = req[m]
      BY <1>1, <1>10, <2>1, <2>2, MakerOutlives
    <3> QED
      BY <2>3, <3>1
  <2>5. Maker(reqs, s, e, m)
    BY <2>4 DEF Maker
  <2>6. req' = Noted(reqs, rows)
    BY <1>2, <1>10, <2>1, <2>3 DEF SaveProvisioned
  <2> QED
    BY <2>4, <2>5, <2>6, MakerNoted
<1>11. ASSUME NEW w \in Slots, NEW f \in Emails, ReadAccount(w, f)
       PROVE  Maker(req', s, e, m)
  <2>1. w # m
    BY <1>1, <1>11 DEF ReadAccount, Available, NoRequest
  <2> QED
    BY <1>3, <1>11, <2>1 DEF ReadAccount
<1>12. ASSUME NEW w \in Slots, NEW role \in AccountRoles, NEW status \in {"active", "locked"},
              SaveAccount(w, role, status)
       PROVE  Maker(req', s, e, m)
  <2>1. PICK reqs : reqs = [req EXCEPT ![w] = NoRequest]
    OBVIOUS
  <2>2. w # m
    BY <1>1, <1>12 DEF SaveAccount
  <2>3. reqs \in [Slots -> Request] /\ reqs[m] = req[m]
    BY <1>1, <2>1, <2>2 DEF Request
  <2>4. Maker(reqs, s, e, m)
    BY <2>3 DEF Maker
  <2>5. req' = Noted(reqs, rows)
    BY <1>2, <1>12, <2>1 DEF SaveAccount
  <2> QED
    BY <2>3, <2>4, <2>5, MakerNoted
<1>13. ASSUME NEW w \in Slots, Kill(w)
       PROVE  Maker(req', s, e, m) \/ <<s, e>> \in spoilt'
  <2>1. CASE w = m
    BY <1>1, <1>13, <2>1 DEF Kill, Maker, IsLogin
  <2>2. CASE w # m /\ IsLogin(w)
    BY <1>13, <2>2, MakerAfterFail DEF Kill
  <2>3. CASE w # m /\ ~IsLogin(w)
    BY <1>3, <1>13, <2>3 DEF Kill
  <2> QED
    BY <2>1, <2>2, <2>3
<1>14. CASE UNCHANGED accountVars
  BY <1>14 DEF accountVars, Maker
<1> QED
  BY <1>4, <1>5, <1>6, <1>7, <1>8, <1>9, <1>10, <1>11, <1>12, <1>13, <1>14, <1>15
  DEF AccountNext, ServeLogin, UpdateAccount

\* A half-made account is there only while the login that made it runs, unless
\* that one died or a stale copy was saved (_provision_peer_user).
THEOREM HalfMadeIsMade == AccountSpec => []HalfMadeInFlight
<1>0. AccountInit => LoginInv
  BY LoginInit, PasswordAssumption
<1>1. AccountInit => HalfMadeInFlight
  BY DEF AccountInit, HalfMadeInFlight, NoRow, Blank
<1>2. LoginInv /\ HalfMadeInFlight /\ [AccountNext]_accountVars => HalfMadeInFlight'
  <2> SUFFICES ASSUME LoginInv, HalfMadeInFlight, [AccountNext]_accountVars,
                      NEW s \in Stores, NEW e \in Emails,
                      row'[s][e].password = Blank, <<s, e>> \notin spoilt'
               PROVE  \E w \in Slots : Maker(req', s, e, w)
    BY DEF HalfMadeInFlight, Maker, IsLogin
  <2>1. <<s, e>> \notin spoilt
    BY RowChanges
  <2>2. Blank \notin Passwords /\ Blank # Unusable
    BY DEF LoginInv, PasswordsApart, Blank, Unusable
  <2>3. CASE row'[s][e] = row[s][e]
    <3>1. PICK m \in Slots : Maker(req, s, e, m)
      BY <2>1, <2>3 DEF HalfMadeInFlight, Maker, IsLogin
    <3>2. CASE SaveProvisioned(m)
      <4>1. req[m].made /\ Provisioned(req[m]).password = Unusable
        BY <3>1, <3>2, ProvisionedIs DEF Maker
      <4>2. PICK r : r = Provisioned(req[m])
        OBVIOUS
      <4>3. r \in Row /\ row' = [row EXCEPT ![s][e] = r]
        BY <3>1, <3>2, <4>2, ProvisionedIs DEF SaveProvisioned, Maker
      <4>4. row'[s][e] = r
        BY <4>3, RowSaved
      <4> QED
        BY <2>2, <4>1, <4>2, <4>4
    <3> QED
      BY <3>1, <3>2, MakerStays
  <2>4. ASSUME NEW w \in Slots, NEW role \in AccountRoles, NEW status \in {"active", "locked"},
               SaveAccount(w, role, status), s = StoreOf(w), e = req[w].email,
               row'[s][e] = Updated(req[w].copy, role, status)
        PROVE  FALSE
    <3>1. req[w].copy.password = Blank
      BY <2>4, UpdateIs
    <3> QED
      BY <2>4, <3>1 DEF SaveAccount
  <2>5. ASSUME NEW w \in Slots, CreateRow(w), s = StoreOf(w), e = req[w].email, row[s][e] = NoRow
        PROVE  Maker(req', s, e, w)
    <3>1. req \in [Slots -> Request] /\ req[w].op = "login"
      BY <2>5 DEF LoginInv, AccountTypeOK, CreateRow, IsLogin
    <3>2. req[w] \in LoginRequest
      BY <3>1, RequestKinds
    <3>3. PICK c : req' = [req EXCEPT ![w] = [req[w] EXCEPT !.at = "save", !.made = TRUE, !.copy = c]]
      <4>1. PICK c : c = row'[s][e]
        OBVIOUS
      <4> QED
        BY <2>5, <3>1, <4>1 DEF CreateRow
    <3>4. req'[w] = [req[w] EXCEPT !.at = "save", !.made = TRUE, !.copy = c]
      BY <3>1, <3>3
    <3> QED
      BY <2>5, <3>2, <3>4 DEF Maker, LoginRequest
  <2>6. ASSUME NEW w \in Slots, SaveProvisioned(w), s = StoreOf(w), e = req[w].email,
               row'[s][e] = Provisioned(req[w])
        PROVE  FALSE
    <3>1. ~req[w].made /\ req[w].copy.password = Blank
      BY <2>2, <2>6, ProvisionedIs
    <3> QED
      BY <2>6, <3>1 DEF SaveProvisioned
  <2> QED
    BY <2>2, <2>3, <2>4, <2>5, <2>6, RowChanges
<1> QED
  BY <1>1, <1>2, <1>0, LoginStep, PTL DEF AccountSpec

=============================================================================
