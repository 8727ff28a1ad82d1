# A verification of CodePop's server

CodePop (`src/server/`) is a Django application for a chain of drink stores.
Customers build drinks, order and pay; stores prepare the orders and hand them
over in lockers; hubs and other stores supply them; repairers keep their
machines running; each store runs its own node that synchronizes with the others.
This directory holds TLA+ models of the parts of it in which something can go wrong
between two steps, TLC configurations that check them on small instances, and
proofs, checked by TLAPS, that many of their properties hold of every instance.

Contents: [Inventory](#inventory) ·
[Modules and the code](#modules-and-the-code) ·
[Runs](#runs) · [Bounds](#bounds) · [Fairness](#fairness) · [Proofs](#proofs) ·
[Where code and documents disagree](#where-code-and-documents-disagree) ·
[What else the models show](#what-else-the-models-show) ·
[Not modelled](#not-modelled) · [Plan](#plan)

`LLD` below is `Docs/CodePop_Low_Level_Design_Rewritten.md` and `REQ` is
`Docs/RequirementsDoc_Rewritten.md`; the other paths are relative to
`src/server/apps/` unless they begin with `Docs/`.

## Inventory

How the parts fit together: a browser's session holds the cart and the codes of a
guest's orders; a web request or a webhook calls a service; the service changes
rows in one transaction and, in the same transaction, appends an event to the outbox
(`sync/services.py: create_outbox_event`).  Celery workers read the outbox, bring the
projection of every receiver up to date, alert the store's team, and push the event to
the peers, whose ingest view appends it to *their* outbox.  Orders take units from
the store's inventory when they are queued, and a locker when they are ready.
Stores ask one another for the passwords they do not know.

| Component | State | Operations | Hard behaviour | What makes it correct |
|---|---|---|---|---|
| Orders (`orders/services.py`, `orders/views.py`) | `Order.status`, `queued_at`, pickup locker and combo | create, transition along `ALLOWED_ORDER_TRANSITIONS`, cancel, mark ready / picked up | views load a row outside the transaction and `save()` all of it; transitions have side effects on stock, lockers and the outbox | statuses move along the table; an accepted order was paid; units leave the shelf once per accepted order; waiting orders have lockers of their own |
| Cart and checkout (`orders/cart.py`, `views.py`, `selectors.py`) | session: cart, authorized codes | add, change, switch store, check out, come back, look up | the session is loaded at the start and saved whole at the end of a request; a refused payment keeps the cart | a cart has one store; a guest sees the orders placed; nothing is sold twice |
| Pickup times, prices, catalog (`pickup.py`, `validate_pricing`, `catalog.py`) | – | functions of their arguments | boundary values, rounding | tax is to the nearest cent; an accepted time is one the kitchen can meet |
| Assistant and personalization (`assistant.py`, `personalization.py`) | the draft in the session, favourites | fill, prompt, recommend, save and reuse a favourite | read a profile that is being rewritten row by row | suggestions keep to the diet and the dislikes |
| Payments (`payments/`) | `PaymentTransaction`, `RevenueLedgerEntry`, `PaymentWebhookEvent`; at Stripe: sessions, intents, charges | begin, complete (mock), create intent, success page, cancel page, five webhooks, refund | redirect and webhook race; webhooks are late or repeated; Stripe cannot be rolled back | one sale, one refund, money at Stripe and in the ledger agree, no captured order is left behind |
| Sync outbox (`sync/services.py`, `sync/tasks.py`) | `SyncOutboxEvent`, `SyncProjectionState` | emit, process a batch, apply to each receiver, retry failed | several workers with no lock, killed at a time limit; events applied again; `EVENT_STAGE_ORDER` | receivers only move forward, users are told once, nothing is left behind |
| Sync peers (`sync/services.py`, `sync/views.py`) | `SyncPeerDelivery`; ingested events | push, ingest, retry deliveries | calls lost, answered too late, repeated; tasks lost | an event is ingested once; a delivered one was ingested; nodes converge |
| Inventory and supply (`inventory/services.py`, `supply_hubs/`) | balances, `RestockAlert`, `SupplyTransfer`, `SupplierReplenishment` | transfer lifecycle, supplier receipt and cancellation, manual correction, alerts, take / return of order units | some rows are locked and some are not; a transfer moves units between rows in six requests | units are neither made nor lost; reserved units are promised to someone; one open alert per shortage; a transfer is received once |
| Maintenance (`maintenance/`) | machines, status events, escalations, repair assignments | report status, escalate, assign, claim, progress | events out of date order, two reports at once, claims that race | a machine that calls for service has one open visit; nothing stands past its policy |
| Imports (`imports/`) | `ImportJob` | submit, run, fail, notify | worker killed in a job; task lost | a job ends, and its status says what was done |
| Notifications (`notifications/`) | inbox rows | alert a store's roles, dispatch, retry, read | rows created in the outbox's transaction, tasks queued after it; the task and the click save the same row | everyone concerned is told; what is sent or read stays so |
| Support (`support/`) | conversations, messages, escalations | visit, start anew, ask, escalate | the AI provider is slow, fails or breaks, and the question is recorded only after it; visits look and create without a lock | each question is followed by its answer; one conversation is open |
| Users (`users/`) | accounts, scopes, preference rows | register, log in through peers, provision, update a team, save a taste profile | peers ask each other while they hold a worker; updates and profiles are saved in several commits | a login rests on an active account; staff roles stay local; a store keeps someone to manage it; a profile is whole |
| Stores, analytics dashboards | read-only data | read | none | – |

The hazards this code has, each at its line and with the properties that cover
it, are the `hazards` of `PROJECT.json`.

## Modules and the code

| Module | Stands for | Checked by |
|---|---|---|
| `Lifecycles` | the three status tables and `EVENT_STAGE_ORDER` | used by others |
| `OrderPayment` | orders, payments, Stripe, stock of one SKU, the event rows of orders | `MCOrderPayment`, `OrderPayment_Proofs` |
| `OrderContract` | what an order's handlers promise | refined by `OrderPayment` |
| `Storefront` | session, cart, checkout, codes, lockers | `MCStorefront`, `Storefront_Proofs` |
| `Pricing` | totals, tax, pickup slots | `Storefront_Proofs` |
| `Catalog`, `Taste` | the menu; what is suggested to a profile | through `Builder`, `Storefront_Proofs` |
| `Builder` | taste profile, builder, menu assistant, favourites | `MCBuilder`, `Storefront_Proofs` |
| `SyncOutbox` | the outbox of one node, step by step | `MCSyncOutbox`, `SyncOutbox_Proofs` |
| `ReplicaContract` | what synchronization promises a receiver | refined by `SyncOutbox` and by `PeerSync` |
| `PeerSync` | several nodes that push to one another | `MCPeerSync`, `PeerSync_Proofs` |
| `StoreInventory` | balances, transfers, supplier orders, corrections, alerts | `MCStoreInventory`, `StoreInventory_Proofs` |
| `FleetMaintenance` | machines, repair visits, escalations, import jobs | `MCFleetMaintenance`, `FleetMaintenance_Proofs` |
| `Accounts` | accounts of several stores, login through peers | `MCAccounts`, `Desk_Proofs` |
| `Support`, `Notices` | one customer's support desk; a team's notifications | through `Desk` |
| `Desk` | both of them, with updates of the team, on the same web workers | `MCDesk`, `Desk_Proofs` |
| `Sums` | no code: lemmas on least numbers and sums over finite sets | itself; used by the proofs of `OrderPayment`, `StoreInventory`, `FleetMaintenance` |

The names of operators are those of the idea; `PROJECT.json` maps each to its
source lines.  Definitions named `Definition_WhatGoesWrong` are slips a programmer
could make in the code behind `Definition`; nothing uses them, but with one in
place of its definition the property it is meant for must fail.

Several modules have *history* variables (`raced`, `unpaid`, `shared`, `overtaken`,
`disturbed`, `crowded`, `stale`, `crossed`, `outside`, `overlapped`, `escaped`,
`tangled`, `torn`, `spoilt`, `lost`, `promoted`).  They record that requests overlapped
at a place where the code has no lock, that one died, or that a check the code does not
make was missed; no guard reads them, only properties do.  So one run has every
interleaving, the properties and theorems need no assumption on the number of workers,
and each says how far it reaches.

### OrderPayment

* `orders[o]`, `payments[o]`, `ledger[o]` are the database rows, `stock` the
  on-hand units of the one item, `outbox[o]` the last event written for the order,
  `seen` the `PaymentWebhookEvent` rows, `charge[o]` and `webhooks` what Stripe
  holds and has announced, `req[r]` the request a web worker serves and
  the rows it has read.
* A view is two steps.  `Load...` reads the rows and makes the view's checks;
  the commit (`BeginHosted`, `CommitFinalize`, `CommitFail`, `CommitRefund`,
  `CommitTransition`, ...) is the service, one transaction that works from the rows
  read before it.  The first write of each transaction locks a row that competing
  transactions write too (`update_or_create` of the payment, `save()` of the order),
  so transactions take turns and each is one atomic step.  What no lock helps is the
  row in memory: `save()` writes all of it, however stale, and so does the model
  (`Transition(row, s)`, with `row` from the request).
* `StripeWebhookView` is two steps as well: the dedupe row is committed first
  (`seen`), then the handler loads its rows (`Webhooks`, `Handled`); its service is
  the same commit as that of the page.
* Stripe is the environment: `Pay`, `Decline`, `ExpireSession`, `DashboardRefund`.
  A refund at Stripe happens in the middle of a transaction (`StripeRefunds`) and
  stays if the transaction is rolled back (`RefundRaises`).
* `LoadSuccessPage` is the return from Stripe's page, for which the code asks Stripe
  whether the session is paid.  `LoadConfirm` and `CommitConfirm` are the confirmation of
  an intent by the card form's page, for which it does not; `unpaid` records the
  orders this queues with no money at Stripe.
* `raced` records the orders a request saved from a row that another had changed since.
* `flow` is the configuration of the gateway (mock, hosted page, card form); it is
  chosen in `Init` and never changes.
* `Abandon` is a request that dies: its transaction is rolled back.

Abstractions: one SKU, so a recipe is a number (`Need`); the item's
`reserved_quantity` is 0 (orders never reserve); prices are `Pricing`'s, codes and
lockers `Storefront`'s; the intent and session ids of a payment
are the Booleans the code tests.

### Storefront

* `session[b]` is the stored session of a guest's browser: the cart, and the codes
  that `authorize_guest_order_access` has added.  `req[r]` holds the copy a request
  works on.  `Open` loads it, `Save` writes it whole; a request that changes nothing
  (`Leave`) and one that dies (`Die`) do not save.
* The cart's operations are `Refilled` (`add_cart_item`), `SetQuantity` (with
  `remove_cart_item`, which forgets the store with the last item) and
  `SwitchStore`.  `Place` is `CheckoutView.post` up to `create_order`, whose rows
  commit; `StartPayment` and `PaymentRefused` are the two ends of the view, which
  saves the session in either.  `PaidByWebhook` and `ComeBack` are the two ways a
  payment is confirmed; how it proceeds at Stripe is `OrderPayment`'s.
* `LookUp` is the guest's form: a combo finds an order only if it is of one order.
* `assign_pickup_locker` is `ReadReady` (what it reads) and `SaveReady` (the row it
  saves at the end of the transaction), so two orders may be made ready at once.

Abstractions: guests only, as customers with an account see orders by row; what is
in a drink is left out; the branch of checkout for an item of another store than the
cart's is a guard of `Place`, which `OneStore` shows to be always true.

### Pricing, Catalog and Taste

Functions of their arguments.  `Pricing` is `validate_pricing` in cents and
`pickup.py` in minutes.  `Catalog` is the menu of `catalog.py`: options with the tags,
prices and quantities that something looks at, the menu items, and what a built drink
costs and takes from the store.  `Taste` is `personalization.py` and the suggestions
of `assistant.py`: `FillSoda`, `FillSyrups`, `FillAddIns` and `FillIceCream` are the
sets of what `recommend_builder_configuration` may choose for each part of a selection,
`Filled` the selection it answers, `Best` the recommendations, `Matches` the menu items
beside an answer.  How often an option was ordered is
abstracted to whether it was, and the order of options that rank alike is any: where the
code sorts, the operator has every outcome of a tie.

### Builder

* `prefs` is the `TastePreference` rows, `bold` the user's own column.
  `save_preference_profile` has no transaction: `StartSave` deletes the rows,
  `CreateRow` creates one, `EndSave` saves the user.  Two saves may overlap, and a row
  that is there already ends the later one; `DieSaving` ends it anywhere.
* `page` is what the customer sees, `draft` the menu assistant's answer in the session,
  `favorites` the `FavoriteDrink` rows by name.  A selection goes from page to page
  in an address that leaves out what is empty (`Reopened`).
* `ordered` is what was in the drinks of recent orders, which a taste counts in as it
  does the favourites (`TasteOf`).
* The AI provider answers anything the code lets through: any recipe of the shop's
  options, any subset of the menu beside it, or nothing, when the code falls back.

### SyncOutbox

* `source[k]` is the status of the entity's own row, `outbox` the event
  rows of all entities in `created_at` order, `projection[k][t]` the row of the
  `t`-th receiver, `worker[w]` the local variables of
  `process_pending_outbox_events` and `process_outbox_event` in one process.
* `Emit` writes an event as any service does, on any move of the entity's
  lifecycle; the entity's row is locked, so it is one step.
* A worker runs outside any transaction: `Fetch` reads the batch, `Begin` marks
  an event `processing`, `Read` and `Write` are the two halves of
  `_apply_event_to_projection` at one receiver, `Finish` notifies and saves
  `dispatched`, `NotifyRaises` is the exception on the way.  Between any two, others
  act, or the worker is killed (`Crash`, `CELERY_TASK_TIME_LIMIT`).  There
  may be several workers: Celery's prefork pool has no concurrency limit in
  `docker-compose.multi.yml`, and with eager tasks every web worker is one.
* The early return for an event already `DISPATCHED` tests the status in memory,
  which is `pending` since the query; it is never taken, and the model has none.
* `overtaken` records the entities of which a worker saved a row over one that was not
  the row it had read, `shared` the events two workers were at work on at a time.
* `RetryFailed` is the beat job and the button.

Conflicts of scope or ownership depend on the data of one event alone and are left
out, with the conflict log nothing reads.

### PeerSync

* Per node: `rows` (its own and ingested events, with their deliveries),
  `projection`, `tasks` (queued push tasks).  On the wire: `requests`, `answers`;
  `waiting` is the pushes that block on an answer.
* `Process` is the whole processing of one event (SyncOutbox takes it apart),
  `ProcessFails` its end with the event `failed`: it regresses the receiver in
  `EVENT_STAGE_ORDER`, or is projected and a notification raises; `RetryEvent` is the beat
  job over those.  `ProcessDies` is any prefix of it.  `Push` sends, `Accept` and
  `TimeOut` are its two ends, `PusherDies` neither.  `Ingest` is the view: dedupe by
  `(origin, remote id)`, store, process, and 200 whatever the projection said.
  `RetryDelivery` is the beat job over `FAILED` deliveries.
* A timed-out request stays on the wire: it may still be ingested, before or after
  its retry.

### StoreInventory

* `balance[l]` is the row of the one item at a location, `transfer[t]`, `supply[p]`
  the two kinds of request, `alerts[l]` the number of open `RestockAlert` rows (no
  constraint makes it one), `req[r]` the requests in progress; `sold` and
  `corrected` account for the units that leave and come by hand.
* Handlers that lock every row they use are one step (`ReserveTransfer`,
  `ShipTransfer`, `Sell`, ...).  Those that save a row they did not lock are two:
  `ReceiveRead`/`ReceiveSave` (the transfer is locked, the destination's balance is
  not), `AddRead`/`AddSave`, `LoadAdjust`/`AdjustSave` and then
  `AdjustEvaluate`/`AdjustAlert`, the two halves of `update_or_create`.
* `stale` notes that a request saved a balance, or settled a supplier order, that had
  changed since it was read; `crossed` that a store's alerts were evaluated while a
  correction was evaluating them.  Where two alerts are open an evaluation raises
  (`Raises`): a service that evaluates inside its transaction is rolled back (`RollBack`),
  a correction keeps its balance.  Until then units are conserved and alerts single,
  however the requests overlap otherwise.

Abstractions: one item; which source serves a transfer, and whether its scope
allows it, are given by constants; pack sizes are not rounded; `quantity_received`
is what was approved.

### FleetMaintenance

* `machine[m]` is the status, its date and the next service date of a row, `visits`
  the `RepairAssignment` rows in the order of their creation, `job[j]` the `ImportJob`
  rows with their task, `req[r]` what a web or Celery worker is at, `today` the date,
  `hired` the repair staff with an account.
* The services nest (an escalation appends a report, which ensures a visit, which
  picks an assignee), so they are operators on a pair of a machine's row and the
  visits, named for the idea: `Reported` is `append_machine_status_event`, `Ensured`
  is `ensure_repair_assignment`, `Assigned` with `Assignees` is
  `create_repair_assignment` with `select_repair_assignee`, and `ServiceWindow`,
  `WarningEscalation`, `ErrorEscalation` are the three evaluations.  A tie between
  assignees is a choice.
* The views load a row and then call a service that saves it whole: `LoadVisit` and
  `CommitVisit`.  A claim is `LoadClaim`, `ClaimFind`, `ClaimCreate`, since
  nothing locks what `get_active_repair_assignment` looked at.  `LoadChecks` and
  `CheckNext` are `run_maintenance_policy_checks`, which evaluates the rows it read
  at its start, a machine at a time.
* What a file leads to is `AfterParse`: it parses, it is `Invalid` (a `CSVImportError`,
  which ends the job as failed) or `Broken` (the reader's own error, which nothing catches).
  `Raise` is what no handler ends: that error, or a machine that another import created
  since this one looked for it.  `escaped` records the jobs.
* An import is `Queue`, `BeginImport`, `Apply` (every row of the file, one
  transaction, `FileApplied`), `Finalize`, `Tell`.  `Apply` saves the machine before
  it looks for visits, and updates or creates one: a request that completes the visit
  meanwhile comes after it as a whole, or the database ends one of the two, which is a
  `Crash`.
* `overlapped` records whether one piece of work began while another was going on.

Abstractions: priority scores, dates of visits and notes; the events, which are
those of `SyncOutbox`; a policy, which is four constants.

### Accounts

* `row[s][e]` is the `User` row of an e-mail at a store; `req[w]` the login or update
  a web worker of a store serves.
* A login is `Local` (`ModelBackend`, then what `PeerStoreAuthBackend` looks at
  before it asks), then for one peer after the other a call: `Accept` is a free worker
  of the peer, which authenticates as if the customer were there, peers included;
  `Timeout` is the five seconds.  `Ended` gives the answer to whoever waits, a browser or
  another store's worker, which then goes on by itself: it creates the row, asks its next
  peer, or has none left and fails (`Fail`), late enough for others to have come in
  between.  `CreateRow` and `SaveProvisioned` are the two commits of
  `_provision_peer_user`; between them the row has a blank password.
* `update_scoped_user` is `ReadAccount` and `SaveAccount`, which saves the row it read.
* `admitted` remembers of every login whether, at some time while it ran, an active
  account backed it; `spoilt` the half-made accounts whose login died or which another
  request saved from its copy.

Abstractions: a password is a value; registrations take one commit; sessions end
never; administrators know any account of their store.

### Support, Notices and Desk

* `Support` is one customer's desk.  A visit (`SupportHomeView`, `SupportStartView`)
  is `Look` or `LookInVain` and `Create`, `Check`, `Greet`, commits of their own.  A
  question is `Send`; then the provider `ProviderAnswers`, `ProviderFails` (tried
  again up to `MaxAttempts`, then the house's own words) or `ProviderBreaks` (an error
  nothing catches: the question is gone); then `RecordQuestion`, `RecordAnswer`,
  `SaveIntent`.  What the words are is left out.
* `Notices` is `notify_store_roles`: `Recipients` are the users of the join, each once;
  the rows come with the event's transaction (`Alert`), the tasks after it
  (`Queue`, or `QueueFails`).  A task is `Take` and
  `SaveSent`, or `DispatchFails`, before or after the row was saved, and its
  retries; a click is `Click` and `SaveRead`, and `ReadAll` marks them all.
  `KillWorker` takes the task of the worker with it, since Celery acknowledges a task
  when it begins it.
* `Desk` composes them with `update_scoped_user` on the roles and scopes of the teams
  of several stores, in its three commits.  `MayUpdate` is what the service checks: the
  actor manages the first of the stores it is assigned to.  `RoleRequiredMixin` asks for
  the role of an administrator after the view's `post` has run, and nobody asks which store
  the target belongs to; `outside` records the stores one of whose managers was changed by
  someone who does not manage the store, `crossed` that somebody acted while being changed.
  Web workers serve the customer and the managers, so a
  worker that waits for the AI provider serves nobody else; who is alerted depends on
  what the team is at that moment.

## Runs

Every property of a passing run fails in that run if some plausible slip is made
in the code it is about; `PROJECT.json` names the slip.

| Run | Instance | What it shows |
|---|---|---|
| `orders_serial` | 2 orders, last unit, 1 request, 3 flows, 1 death | one request at a time, whatever webhooks come in whatever order: `StockMatchesOrders`, `ImplementsContract` (every commit is a step of `OrderContract`), and the liveness `CapturedIsSettled` (a captured charge moves its order on unless stock ran out or a request died) |
| `orders_overlap` | 1 order, 2 requests, hosted and card form, 1 death | what survives stale rows: `AcceptedWasPaid` (but for the money of an order the card form's page confirmed), `RefundedReturnsFunds`, `RefundBookedOnce`; and `OutboxAnnouncesRow` of orders no stale row was saved on |
| `pending_cancel` | 1 order, 1 request, card form | violation, see below |
| `double_deduction` | 1 order, 2 requests, hosted | violation, see below |
| `storefront` | 1 guest, 2 requests, 2 stores, 2 orders, 2 lockers, 1 combo, 3 flows | `OneStore` however the tabs overlap; `OwnOrderVisible` and `SoldOnce` until they do; `LockerExclusive` until two orders are made ready at once |
| `builder` | 2 workers saving 2 profiles, 2 menu items, 1 favourite, 1 order, 1 tick | `ProfileWhole`, and when the profile is whole, `FillKeepsDiet` and `AvoidedComesLast` |
| `outbox` | 1 repair visit, 3 events, 2 workers, 2 receivers, 1 kill or raise | `DispatchedIsProjected`, `ToldOnce`, refinement of `ReplicaContract`, however the two workers overlap, and the liveness `OrderedIsDispatched` |
| `peers` | 2 stores, 2 entities, 2+1 events, the second a regression, 1 timeout, 1 kill | `DeliveredWasIngested`, `QuietIsConverged`, refinement of `ReplicaContract`, and the liveness `UncrashedConverges` |
| `stock` | 3 locations, 2 transfers from one source, 1 supplier order, 1 correction, 1 sale, 2 requests | `StockConserved`, `ReservedIsPromised` until a stale row is saved; `OneOpenAlert` until evaluations cross; `ReceivedOnce` always |
| `fleet` | 1 machine, 1 repairer, 2 imports, 2 workers for requests and tasks, 2 requests, 2 days, 1 kill | `FaultIsCrewed` of every step but the save of a stale visit; `OneOpenVisit`, `CheckedIsCurrent` when they take turns; `JobTruthful`, and the liveness `JobEnds` |
| `accounts` | 2 stores that ask each other, 2 workers and 1, 3 logins, 2 updates, 1 kill | `LoginBacked`, `StaffStayLocal`, `HalfMadeInFlight`, and the liveness `LoginEnds` although the stores' workers may all wait for one another |
| `desk` | 2 web workers, a Celery worker, the administrator of a store, the manager of another, a customer, 3 pieces of work, 2 faults | `AnswersFollow`, `OneConversation`, `KeepsManager`, `SentAndReadStay`, and the liveness `NoticeIsSent` |

Some invariants are in no run because TLAPS proves them for every instance: the
`TypeOK` of `OrderPayment`, `SyncOutbox`, `Storefront`, `StoreInventory`,
`FleetMaintenance`, `AccountTypeOK` of `Accounts`, `OverlapInv`, `RowsInv` and
`NoHalfwayOrder` of `OrderPayment`, `StrandedByCrash` of `SyncOutbox`.

## Bounds

* Orders, requests: a race is between two requests of one order (`orders_overlap`)
  or between two orders for one unit (`orders_serial`); the first needs no second
  order, since orders share nothing but stock.  The overlap run has stock to spare,
  the serial run has one unit for two.
* One crash per run: no handler's recovery depends on an earlier crash.  The proofs
  are for any number.
* Storefront: two tabs are two requests of one browser; two drinks make a cart that
  may be emptied and refilled for the other store; two orders are the fewest that
  share a drink, a combo (there is one, so every two collide) or a locker; two lockers
  are given both by the first-free rule, and both can be in use.
* Builder: one profile that is free of dairy, and one without sugar that likes an ice
  cream and lists it among the dislikes too, so that all three kinds of rows occur, the
  form has something to clean and both rules of ice cream are met; a menu item with ice
  cream and citrus and one with a pairing.  Two saves are one that is overlapped and one
  that repairs it.
* Outbox: three events reach past `Limit = 2`, so batches are cut and an event may
  be overtaken while it waits; two receivers tell a partly applied event from a
  complete one; two workers take the same event from two batches, or one each of one
  entity.  The visit's note makes its acknowledgement a regression.  The one fault is a kill
  or a notification that raises.
* Peers: two events of one entity are the fewest that can be reordered, and the second
  regresses whoever has the first, so that it is accepted only where it comes first; one
  of the other entity makes both nodes senders.  One timeout makes one delivery fail, be
  retried, and its first request arrive late.
* Inventory: both transfers ask for 2 of a source's 3 units, so that one must be
  refused or cut; the threshold lies between the levels corrections and sales reach.
* Maintenance: two imports are a report and its correction, or a file that fails or
  breaks; they meet two requests, on two workers that each may serve both; two
  days reach the last day of a warning, of an error and of a service interval with
  the day after it.  Reports, and days on which a service is due, bound the visits.
* Accounts: two workers are the fewest with which a store can ask and be asked; the other
  store has one, and all three may be waiting.  Two logins race for one row, the third
  comes after or from the other side; two updates hold a copy each, or one comes after
  the other.
* Desk: `MaxWork` bounds what is begun in all, so that any three of questions,
  visits, updates, clicks and alerts meet; two faults are an error and the kill after
  it; one retry is the last one and the one before.
* `CHECK_DEADLOCK FALSE` but in `storefront` and `builder`: with a bounded number of
  orders, events, reports, logins and corrections the system may come to rest.

Every bound is a constant named in its module, and appears in guards only.

## Fairness

* `OrderPayment.Fairness`: weak fairness of each request's commit (a worker that
  has read goes on, or dies by `Abandon`), and strong fairness, per order, of the
  receipt of a capture: Stripe redelivers a webhook until it is answered, and
  a worker is free again and again but not continuously.
* `SyncOutbox.FairSpec`: weak fairness of each worker (the beat job calls
  `process_pending_outbox_events` repeatedly and a started batch goes on) and of the
  retry job.
* `PeerSync.FairSpec`: weak fairness of processing (an event comes to be projected or
  to fail, and a failed one is retried), pushing, the retry jobs, ingest,
  and of a waiting push coming to an end.  A push may always time out while the
  bound lasts; there is no fairness on timing out while an answer is still possible.
* `FleetMaintenance.Fairness`: weak fairness of the work a worker has begun, and
  strong fairness of each task being taken: Celery's workers return to the queue.
* `Accounts.AccountFairSpec`: weak fairness of each worker going on with its request.
  That a peer takes a call is not assumed; that the call times out is, by the five seconds
  of its `urlopen`.
* `Desk.FairSpec`: weak fairness of the delivery of notifications: the process queues
  what it committed, the broker hands out tasks, the Celery worker goes on.
* No fairness is assumed of crashes, customers, the calendar, Stripe's other
  announcements, the AI provider or services that emit events.

## Proofs

The proof modules hold for every value of the constants that satisfies the modules'
`ASSUME`s: any number of orders, requests, workers, receivers, nodes, stores, users,
files, crashes.  No theorem of the orders, the outbox, the peers, the fleet or the desk
assumes how many workers there are.  The assumptions beyond ranges are these: `Desk` has
finitely many users and every store at first an active manager or administrator; the rows
of `StoreInventory` are finitely many, and its `Nobody` is not a request; the `"none"` of
`Storefront` is not a store; the files of `FleetMaintenance` are sequences of parsed rows,
and its `Invalid` and `Broken` are none of them; a password of `Accounts` is none of the
marks for a blank, an unusable or a missing one.

**OrderPayment**, money.  `TypeCorrect` is proved first.  The money properties are not
inductive: each commit saves a row that was read earlier, so one must know what a *stale*
row says.  `OverlapInv` states it: `RowHolds` holds of an order's row and of every row a
request holds.  It survives because all it asks of the ledger, the payment and Stripe only
grows (a sale stays, `captured` stays, a charge never leaves `captured`/`refunded`, an
order does not leave `unpaid`), which are the lemmas each action's proof cites.
`BeginOnce` says that the request that created an order is the only one to begin its
payment, and `StripeInv` that Stripe announces only captures it made and that a booked
refund was made.  `OverlapCorrect` proves `OverlapInv`, one step per action; from it
follow `AcceptedWasPaidAlways`, `RefundedReturnsFundsAlways`, `RefundBookedOnceAlways` and
`NoHalfwayOrderAlways`.

**OrderPayment**, orders, events and stock.  With any number of requests a commit
may save a stale row, and then the row, its events and the stock may disagree: run
`double_deduction` shows it.  What is proved is that nothing else does it, and that the
harm stays with the order.  `RowsInv` speaks of the orders not in `raced`: how far an order
is agrees with what Stripe holds and what was recorded (`StageInv`), a request found its
order in a status its operation starts from (`FoundInv`), a session announced expired is
(`ExpiryInv`), and the last event announces the row (`OutboxAnnouncesRow`).  A commit whose
row is stale puts its order into `raced` (`Noted`), so for the others the row in hand is
the row stored.  With it each of the two dozen actions is one of ten *outcomes* for one
order (`Outcome`: it is placed, accepted, refunded, overtaken, ...), each of which says
what becomes of status, ledger, events and stock.  The three results are then short, with
one case per outcome: `OutboxAnnouncesRowAlways`; `OrdersImplementContract`, the refinement
of `OrderContract`, where an order that was overtaken may be in any status and moves its
own units at most; and `StockMatchesOrdersAlways`, where an acceptance adds one order to
the sum and a refund takes one away, as long as no order was overtaken.

**SyncOutbox.**  `OutboxTypeCorrect`, and:

* `StrandedByCrashAlways`, any number of workers: there is a set of at most `crashes`
  events outside which every `processing` event is held by a worker (`FewStranded`).
  A kill adds the event its worker held; no other step adds any, since a worker
  lets go of an event only with its status saved.
* `ProjectionInv` records the progress of each worker: of an entity that is not
  `overtaken`, the receivers it has visited have the event or a newer one, and the event
  supersedes the row it read.  Projections of such an entity move forward only
  (`NeverBack`), so what other workers do to them takes nothing from this.  It gives
  `DispatchedIsProjectedAlways` and, with `HasNewest` (so that the newest version, a
  `CHOOSE`, is one), `ImplementsReplicaAlways`: `Emit` is `Publish`, a `Write` that changes
  a version is `Advance`, or `Lose` where it takes back what another worker has made of
  the row since, and everything else is a stutter.
* `ToldOnceAlways`: nothing in a row says that its users were told, and a kill after the
  notification, or the stale batch of another worker, has the event processed again.  What
  saves it is that by then it has reached every receiver (`ToldInv`) and is ignored at
  each of them, so that nothing is `applied`.  This needs that what a receiver shows is an
  event of the outbox and that no two of an entity have one version (`PublishedInv`);
  excepted are events two workers were at work on at a time (`shared`), which may be told
  twice, and those of entities that were overtaken.

**PeerSync.**

* `DeliveredIsIngested`.  A delivery is marked when an answer arrives, so
  `SyncInv` speaks of the answers too: whoever is named in one has the event (`Has`).
  That the projection is at least as new needs three more parts: rows of an event say the
  same everywhere (`Copied`), what a node dispatched it shows (`Shown`, kept because
  a projection only advances), and the versions of an entity have a maximum
  (`HasMax`).  Rows are never removed and never change what they say of their event
  (`Grows`), which carries `Has` through lost, late and repeated calls and kills.
* `PeersImplementReplica`: no projection is ahead of the owner's newest event
  (`Behind`), so every step that changes one is an `Advance`.
* `QuietMeansConverged`: while no process was killed, each event a node dispatched has a
  delivery for every peer, and one that is pending is in a task or in a call (`NoneLost`).
  So if nothing is left to do each is delivered, and by `SyncInv` shown.

**Storefront and Pricing.**  `Sound` is the type invariant with two facts about numbering
and about the order a worker holds; `CartsOfOneStore` needs the type alone.
`OrdersVisible` and `DrinksSoldOnce` rest on `Coherent`: of a browser that is not
`disturbed`, one request is under way at most, it works on what is stored, and what
is sold or may yet be (`Live`) is neither in the cart nor in another such order, except
for the order being paid (`Kept`); drinks are numbered as they are made (`Minted`).
`LockersExclusive` rests on `Roomy`: a store that is not `crowded` makes one order
ready at a time, in a locker none of its ready orders has.
`TaxIsNearestCent`, `TotalGrows`, `AsapIsSoon`, `AcceptedIsOffered`,
`SlotsExpire` are arithmetic over every amount and minute.  No run reaches `Pricing`:
these theorems are what is known of it.

**Builder, Taste and Catalog.**  `Storefront_Proofs` extends `Builder` next to
`Storefront`, whose names it does not share.

* `ProfileWholeAlways`, from `ProfileInv`: until saves overlap or die, one worker at most
  saves the profile, and the rows there are with those it has yet to create are the rows
  of its form.  So the last save leaves exactly those, and the form has
  taken from the dislikes what is liked.
* `FillKeepsDietAlways` adds `PageInv`, that a page of the builder has a whole selection.
  Each part of a fill is taken from groups of options; every group passed the check of
  the diet but the menu item's own, and what is capped was there before.  The first form of
  this property held ice cream to every diet: the proof failed at `FillIceCream`,
  and TLC found the fill once the run had a profile without sugar.
* `AvoidedComesLastAlways` compares the two scores: with nothing liked in a drink its
  points are 1, less 5 for each ingredient avoided, and no drink that has none of these
  is below 1.

**StoreInventory.**

* `TypeCorrect` says that no level is ever negative, from the
  guards and the locks.  `ReceivedOnceAlways` follows with the fact that a transfer being
  received stays `delivered`, since its row is locked.  `OneOpenAlertAlways` needs
  `AlertInv`: at a store not `crossed`, a correction is about to open an alert only where
  none is open, and is the only one about to.
* `StockConservedAlways` and `ReservedIsPromisedAlways` are proved together (`Accounted`),
  for any number of places, transfers and supplier orders, until a stale row is saved.
  Each action changes a summand or two, at one place or one transfer; that
  the sums change by the same is `SumChange` of `Sums`.

**FleetMaintenance.**

* `JobsTruthful`.  `JobInv` says that a job is with one worker
  from the time its task is taken, and that its row tells how far that worker has come
  (`InHand`, `Booked`); web requests and crashes leave it alone.
* The services nest as in the code, so their lemmas do: each of `Reported`, `Ensured` and
  the three evaluations adds one visit at most, where there was no open one, and saves no
  row that calls for a visit without there being one or no one to send (`Careful`).  A
  file is any number of reports; that its transaction does the same is `FileAppliedIs`.
* `TurnsCorrect` proves `TurnInv`, what requests hold while they take turns: a visit
  is saved over the row it was loaded from (`Fresh`), a claim that found no open visit is
  still right (`Found`), the machines a check has passed are current (`Checking`).
  `OneOpenVisitAlways` and `CheckedIsCurrentAlways` follow.  `FaultIsCrewedAlways`
  has any number of workers overlap.  A step takes the visit away from a machine that calls
  for one only by saving a visit; where that was saved over the row it was loaded from, an
  open visit stays open, or is completed and the machine put back in service with it.  The
  save over any other row is excepted by the property itself.

**Desk.**

* `ManagerIsKept`: `TeamInv` says that each store not in `outside` has a manager or
  administrator whom no update in progress is about: whoever asked for the last update of
  one who manages the store manages it too, may not be its target and, while not `crossed`,
  is not the target of another.
* `MarksStay`: each save of a notification
  changes one column of the row as it is now, and tasks and clicks name rows there are.
* `OneConversationAlways` and `AnswersFollowAlways`, from `ChatInv`: a visit that is about
  to create a conversation found none open, and no late answer opens one again; in a
  conversation not `tangled` one worker is at work at most, and a question without its
  answer is the last entry and in that worker's hands.

**Accounts.**  `Desk_Proofs` extends `Accounts` next to `Desk`, whose names it does not
share; what is proved of it does not mention the desk.  `AccountTypeOK` names what the
requests may be. `LoginInv` adds four parts:

* `Linked`: who asks for a worker does so for one that waits, alone, and with its e-mail
  and password.  So the answer that ends a login belongs to those that wait for it,
  late calls and dropped ones notwithstanding.
* `Noticed`: what backs a login has been noted.
* `Granted`: a login that a peer said yes to is of a customer, and is `Covered`: some set
  of logins holds it and all it works for, and all of them were backed.  `Covered` is a
  set and not a path along the callers, because nothing here forbids a ring of peers,
  and the prover has no induction along a chain.
* `Holds`: a login about to save holds a whole row.

A login that ends has one other wait no longer at most, the one that asked for it
(`EndsTo`); every other goes on as the same login (`Carries`).  `LoginBackedAlways`
follows.  For `StaffStayLocalAlways` and `HalfMadeIsMade`, `RowChanges` lists the four ways
a row may change, and `MakerStays` says that the login that made a half-made row is there
until its own save or death.

**Sums.**  `SumFunctionOnSet` of the community modules folds over a set whose next element
is a `CHOOSE`.  That its value does not depend on the choice is proved here, from
which `SumAdd`, `SumWithout` and `SumChange` follow.  The induction
theorems of the library take an operator as a parameter, which the provers cannot
instantiate; these proofs, and that of `FileAppliedIs`, argue by a least counterexample
instead (`LeastNat`, `SmallestSet`, from the well-foundedness of `<`).

Only model-checked:

* all liveness (`CapturedIsSettled`, `OrderedIsDispatched`, `UncrashedConverges`,
  `JobEnds`, `LoginEnds`, `NoticeIsSent`): the prover does no `ENABLED`, so what follows
  from fairness is out of its reach.

## Where code and documents disagree

Two runs end in a counterexample to something the repository says.

* `pending_cancel`.  `get_refund_eligibility` (`orders/services.py:313`) offers a
  refund before preparation begins, and `record_refund` calls Stripe; but
  `payment_pending` has no transition to `refund_pending`, so the transaction is
  rolled back.  The money is back, the order still awaits its payment, and the
  capture's webhook will queue it.
* `double_deduction`.  Redirect and webhook each load the order at `payment_pending`;
  the payment's lock makes them take turns, but both save the row they have and both
  take its units.  LLD 821: "inventory reserved/deducted at `queued`".

Read off the code and the models, without a run of their own:

* `EVENT_STAGE_ORDER` calls it a regression when a blocked repair is resumed, or a
  note is added late; the event is rejected now and at every retry.  REQ 527 promises
  eventual consistency of maintenance data.
* A delivery is created `pending`, and only `failed` ones are retried: a push task that
  is lost takes the delivery with it.  REQ 527.
* LLD 1648 has the system escalate a warning past its window, but nothing schedules or
  calls `run_maintenance_policy_checks`, so a warning stands until the next report.
* `Docs/User_Manual.md:260` says of a favourite put into the cart "same customization
  applied".  One saved in the builder loses the price of its extras
  (`orders/views.py:1392` looks for it where only the assistant's favourites keep it), and
  one of the assistant takes nothing from the store, as it has no inventory
  requirements (`Builder!FavoriteLine`).
* `users/tests.py:86` has the recommendations honour a dietary preference; the score
  does not look at it, and the test passes by the likes and dislikes it sets with it.
* LLD 1311 has inventory deducted "when the store commits a paid order"; the page of the
  card form has `finalize_stripe_payment_intent` commit one without a question to Stripe
  (`payments/services.py:386`), so an order whose card was declined is queued, takes its
  units and is prepared.  `finalize_stripe_checkout`, above it, does ask.
* `update_scoped_user` refuses with "This user is not in your management area."
  (`users/services.py:171`), but checks only that the actor manages a store of its own; the
  manager of one store may demote or lock the last administrator of another, or of its own.
  The mixin that asks for the administrator's role does so when the `post` is done.
* `imports/services.py:339` ends a job as failed on a `CSVImportError` alone; an error of
  the CSV reader, or of the database when two imports create one machine, leaves it
  `processing`, and its uploader is not told.
* `orders/assistant.py:120` tells the customer that "creamy dairy add-ins stay out of AI
  suggestions": so they do in a fill (`FillKeepsDietAlways`), but not in the fallback
  recipe of the menu assistant, which ignores the diet.

## What else the models show

Behaviours that the properties step around, each by the history variable that
names it:

* Orders (`raced`, `unpaid`): an order that was queued unpaid is announced failed when its
  session expires, and goes on all the same; a success that arrives after a refund
  overwrites the payment's `refunded`; a webhook whose handler dies after the dedupe row
  was committed is answered 200 and ignored when Stripe repeats it; the webhook of a
  refund asks for a second refund, which only Stripe's refusal stops.
* Storefront (`disturbed`, `crowded`): of two requests of one browser the later saves the
  session it loaded, so an item may come back, an order just placed may be lost from
  sight, and drinks ordered once more; two orders made ready at once get the
  same locker, as do orders of a store whose lockers are all in use, which stay so until
  someone fetches them.  Combos are drawn without a look at those in use; a guest whose
  combo is another's as well finds neither.
* Pickup: a form that was shown before the turn of five minutes and sent after it has
  its slots refused (`SlotsExpire`); seconds are cut off, so that a slot may leave
  less than the buffer by almost a minute.
* Builder (`torn`): a fill that reads while a profile is saved may see a part of it,
  and a save that dies leaves one.  A selection whose last syrup, add-in or scoop was
  taken away has the menu item's own again after the store is switched.  What goes with
  a soda is suggested whether disliked or not.  Of the diets only `dairy-free` keeps an
  ice cream out of a fill (`personalization.py:254`), though none is without sugar;
  and when no soda or syrup suits the diet, the menu item's own is filled in.
* Sync (`overtaken`, `shared`): two workers may take a receiver back (LLD 2006) or tell
  users twice of an event both are at work on; an event whose worker was killed stays
  `processing` (LLD 1839).
* Inventory (`stale`, `crossed`): a correction on a stale balance loses units a transfer
  reserved (LLD 1465); one supplier order can be received twice by overlapping requests,
  or canceled after its receipt; two open alerts make every later evaluation raise.
* Maintenance: without a `MaintenancePolicy` the service window is as long as the interval
  (`maintenance/services.py:95`), so a machine is due again the day it was serviced.  A
  repair completed while an import reports a new fault overwrites the report. A visit
  saved from a stale row is open again after its completion, a check or a report finds it
  open, and another stale save ends it: the fault is left without a visit, which is what
  `FaultIsCrewed` excepts.  A visit of a repairer whose account is closed still counts as
  open.
* Accounts (`spoilt`): a process that dies between the two commits of provisioning
  leaves a row with a blank password, which counts as usable: its owner cannot sign in at
  that store again, since the peers are no longer asked.  Peers that ask one another hold
  their workers until the calls time out.
* Desk (`crossed`, `outside`, `tangled`, `lost`): two who manage a store and demote each
  other at once can leave none, and so can the manager of another store; two visits at
  once may open two conversations; questions that overlap in one conversation interleave;
  a question is lost with its worker or with an error of the connection nobody catches;
  "mark all read" marks notifications that were never on the page; tasks are lost if the
  process dies after its commit, the broker is down, or the Celery worker is killed.

## Not modelled

* Permissions beyond the guards the models have (any eligible caller acts), text,
  presentation, seeding, migrations and the retired front end.
* Store ranking and the analytics dashboards, which read data and change none that others
  depend on.
* What the words of prompts and answers are, and the parsing of what an AI provider says.
* The rows of a supply usage import (its job is `FleetMaintenance`'s); schedules of
  supply; pack sizes; the choice of a transfer's source.
* Conflicts of scope and ownership in synchronization; alerts to a region; devices, which
  only the audit log counts.
* Global administrators, who may change any team from outside it, and customers' accounts
  in `Storefront`.
* Two items at once: orders lock the balances of their items in the order of their
  recipes, and two that share two items in opposite order may deadlock in the database.

## Plan

Done: the modules of the table above, their runs, and the proofs.

Left, in the order of what it would add:

1. `StoreInventory` with two items: the order in which balances are locked, pack
   rounding, and the choice of a transfer's source as a function of the balances.
2. The rows of a supply usage import, with the drafts of supplier orders it makes.
3. The composition of `SyncOutbox` with `PeerSync`: `Process` of the latter refined by
   the steps of the former, and with it scope and ownership.
