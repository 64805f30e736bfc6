# TOUB_POS: specifications and proofs

TOUB_POS is a point of sale for a canteen with several stalls: cashiers place
and settle orders on stall devices, paid orders reach the kitchen as Telegram
messages with a *Done* button, managers administer stalls, staff and prices.
The program is an Express backend over MySQL (`src/backend/src`) with a React
frontend (`src/frontend/src`). What is hard in it is not any single handler but
what happens between two of them: server processes that share an outbox,
requests that are repeated, state that is read before an `await` and used after
it, external calls whose answer is lost, and answers that arrive in an order
nobody asked for.

This directory holds TLA+ models of those parts, the TLC configurations that
check them on small instances, and theorems checked by TLAPS.

```
tlc -config kitchen_one_order.cfg MCKitchenDispatch.tla
tlapm KitchenDispatchProofs.tla
```

## 1. Inventory of the system

| Component | State | Operations | Interacts with | What is hard | Correct when |
|---|---|---|---|---|---|
| Kitchen dispatch outbox and worker (`telegram-dispatch-worker.service`, `telegram-dispatch-job.repository`, `telegram.service`, `order-telegram.service`) | `telegram_dispatch_jobs`, `telegram_tickets`, the worker's memory | enqueue with the payment, claim with a 60 s lock, inspect, open ticket, send, record, back off, requeue by hand | payment (same transaction), Telegram, stall routing, Done callback | two processes during a deploy, crash with a send in flight, lost answers, database faults between statements | every paid order is delivered or handed to staff; no second ticket beside a live one; one worker per job |
| Telegram Done callback (`telegram-callback.service`) | the ticket's status, the message's buttons | find ticket, complete under lock, edit message | worker (writes the same row), stall routing, cooks | two taps, a worker finishing late, a group changed in between | only a sent ticket of that very message is completed, once |
| Order creation and idempotency (`order-creation.service`, `order-idempotency`) | `orders`, `order_items` | lookup by key, locked transaction, insert, replay | staff assignment (locks), catalog (prices), rate | parallel retries, lost answers, reassignment after authentication, deadlocks | one order per key, in the stall the cashier is assigned to |
| Stall staff assignment (`stall.repository`, `stall.service`) | `stall_staff`, audit rows | assign, unassign, list | order creation, sessions (revoked on reassignment) | two managers moving one cashier; lock order | serial per cashier, audit rows that chain |
| Cash payment and exchange rate (`cash-payment.service`, `financial-settings.service`) | `orders` payment columns, `business_financial_settings` | set rate, settle, enqueue kitchen job | outbox, audit | rounding in two currencies, rate changed between order and payment, double confirmation | the till balances; a paid order is final |
| Stall routing (`telegram-group-connection.*`, `telegram-chat-migration.*`) | `stalls.telegram_chat_id`, setup links | issue and consume links, migrate chats | worker and callback read the chat | two stalls connecting one chat, an upgrade learnt by two dispatches, locks of a whole table | one stall per chat, links single use, a migration takes the open tickets along |
| Telegram cooks (`telegram-cook.*`) | allowed cooks per stall | add, remove, authorise | Done callback | removal racing a tap | only allowed cooks complete |
| Refresh sessions (`auth-session.service`, `refresh-session.repository`) with the browser (`AuthContext`, `apiClient`, `authStorage`) | session families, cookies, the stored proof, the logout marker | login, rotate, detect reuse, revoke, restore | users, devices, sockets | two tabs refreshing, answers lost after the rotation, logout racing a refresh, reloads | one live token per login; a reused token ends it; an honest tab is not signed out |
| Login, users, devices (`auth.service`, `user.service`, `stall-device.repository`, `auth.middleware`) | users, `session_version`, stall devices | PIN login, register, deregister, update and delete users | sessions, sockets | rows read in separate statements and revoked in between | what works was checked against the present account and terminal |
| Live events (`websocket.service`) | connected sockets by user, stall, device | authenticate, register, emit, invalidate | users, devices, orders | registration racing invalidation | no live socket of a revoked principal |
| Process lifecycle (`server`, `graceful-shutdown`, `application-lifecycle.service`, `health.service`) | lifecycle phase, timers | start, drain, stop, force | workers, HTTP, sockets, pool, migrations | requests that outlive the signal, closing in parallel, work that goes on after an answer | nothing is closed before the requests that were let in are answered |
| Migrator (`database/migrations`, `scripts/database-migrate`) | the schema, the ledger `schema_migrations` | up, down | process start | deaths between two statements, two deploys at once, legacy rows | a serving process finds its whole schema; settlements are kept |
| Catalog (`product.*`, `category.*`) | categories, products, prices and visibility per stall | create, update, delete | order creation, screens | whole records sent over newer ones, lock orders, foreign keys | a change leaves alone what it does not name |
| Reports (`report.*`, `order-query.*`) | none | read-only queries | payment, screens | time zone, ends of weeks and months, pages, rounding | every part of a report counts every order of its period once |
| Frontend: checkout (`CashierPage`, `useOrders`, `useCart`) | cart and pending checkout in storage | submit, recover, resume | order creation, payment | reload in the middle of a checkout, late requests, a stored cart shown by a timer | a checkout is never paid for twice |
| Frontend: management screens (`MenuCatalog`, `OrderHistory`, `StallOwner`, `useUsers`, `useAutoRefresh`) | the lists shown, loads and changes under way | change, patch, reload, refresh | catalog, users, stalls, reports | answers out of order, failed loads, several changes at a time | the screen comes to show what there is |
| KHQR payment, rate limiting, operations watch, image signing, audit, HTTP surface | see section 5 | | | | |

`PROJECT.json` repeats this list with the status of each component, and under
"hazards" what in this code a test would hardly reach, at its line.

## 2. Modules

| Module | Models | Proofs |
|---|---|---|
| `KitchenDispatch` | outbox, workers, Telegram, Done callback, manual retry, group change | `KitchenDispatchProofs` |
| `OrderPlacement` | order creation against assignment changes, with the locks of the database | `OrderPlacementProofs` |
| `CashSettlement` | exchange rate, order snapshots, settlement in two currencies | `ManagementProofs` |
| `SalesReports`, extends `CashSettlement` | periods, buckets, pages and revenue of the sales report over the orders that are settled | `ManagementProofs` |
| `RefreshSessions` | refresh tokens and the tabs of a browser that share them | `RefreshSessionsProofs` |
| `StaffSessions` | PIN login, sessions, terminals, sockets against management changes | `StaffSessionsProofs` |
| `Checkout` | the cashier's page over a server reduced to what it sees | `CheckoutProofs` |
| `ChatDirectory` | abstract: every chat has at most one stall | |
| `StallRouting`, implements `ChatDirectory` | setup links, group upgrades, cooks | `StallRoutingProofs` |
| `SchemaMigrations` | the migrations, the ledger and the database they change | |
| `ServerProcess`, extends `SchemaMigrations` | the processes that migrate, start, serve and drain | `ServerProcessProofs` |
| `Catalog` | products and categories with their locks and foreign keys | `ManagementProofs` |
| `ManagementScreens`, extends `Catalog` | the menu screen and the report screen | |
| `TeamScreens`, extends `ManagementScreens` | the stalls screen and the users screen, with the accounts behind them | |
| `MC...` | model values, input sets, bounds and symmetry for TLC | |

Definitions preceded by "Faulty variant" are alternatives that no model uses:
each is the bug some property is there to exclude.

The larger specifications are built by extension, so that a composed step is a
step of one part with the others unchanged: `SalesReports` lets the report read the
very orders that `CashSettlement` settles, `ServerProcess` starts servers on the schema
that `SchemaMigrations` is changing, and the screens talk to the requests of `Catalog`.

### KitchenDispatch

State. `orderStatus`, `job` and `tickets` are the rows of `orders`,
`telegram_dispatch_jobs` (one per order, unique key) and `telegram_tickets` (in
id order, so the last one is the one `ORDER BY id DESC` finds); `stallChat` is
the stall's `telegram_chat_id`; `kitchen` is what Telegram shows, with one id
counter per chat; `worker` and `handler` are the local variables of one dispatch
worker per server process and of one request each. `unreviewed` is a history
variable, `budget` bounds the environment.

Actions. Every database statement that commits on its own is one action; a
transaction is one action when nothing it reads can change under its locks.

| Action | Code |
|---|---|
| `ConfirmPayment` | the commit of `confirmCashPayment`: paid status and outbox row |
| `Claim` | `claimNextTelegramDispatchJob`: due job, or an expired lock |
| `Inspect`, `FailPendingTicket` | `processClaimedJob`: order and latest ticket decide; a pending ticket means an unknown send |
| `LookupTicket`, `OpenTicket`, `SkipDispatch` | `dispatchToTelegram` up to the insert of the pending ticket |
| `SendAcknowledged`, `SendAnswerLost`, `SendRejected` | an HTTP attempt of `callTelegramApi`, at most two |
| `ReloadChat`, `SaveSent`, `SaveFailed`, `SaveRefused` | the chat is read again after the send; the ticket is saved, or refused by `uq_telegram_ticket_message` |
| `MarkSent`, `MarkFailed` | `markJobSent`, `markJobFailed`, blind updates by id |
| `DatabaseFault`, `Crash`, `LeaseExpires`, `BackoffEnds` | a statement throws, the process stops, time passes |
| `RetryCheck`, `RequeueJob` | `retryTelegramDispatch`: check, then the requeue transaction |
| `TapDone`, `CompleteTicket`, `EditDone` | `processTelegramCallback` and `completeTelegramTicketAtomically` |
| `ReconnectChat` | the stall's chat after `consumeConnection` |

Abstractions. Clock values become two booleans: `due`
(`next_attempt_at <= now`) and `stale` (`locked_at` older than the lock
timeout). Which due job is taken first is left open (any), and is fair per order
because the query takes the one due longest. The reads of the callback before
its transaction are one step: they only select a ticket, and
`CompleteTicket` decides again under the lock. A request may stay between its
steps for ever, which is a request that died. Order cancellation is not
reachable for a paid order. The cook allow-list, deletion of the stall and the
answer of Telegram that its group was upgraded (`migrate_to_chat_id`, answered
inside `callTelegramApi`) are `StallRouting`'s; the text of messages is left out.

### OrderPlacement

State. `assignment` (`stall_staff`), `orders` and `audit` are committed rows;
`userLock`, `userShared`, `staffLock` and `staffGap` are the InnoDB locks that
`SELECT ... FOR UPDATE`, the foreign key of `orders.cashier_id` and reads of an
absent row take; `request` and `admin` are the memories of the transactions.

`Submit` is the middleware that takes the stall from the assignment;
`Lookup`, `LockAssignmentRow`, `InsertOrder`, `InsertRefused`, `Relookup`,
`CommitOrder`, `AnswerCreated` are `createOrder`; `LockStaffUser`,
`ReadAssignment`, `ReplaceRow`, `CommitAssignment` are `assignStaffToStall` and
`removeStaffFromStall`; `FailRequest` is any statement that throws and any
answer that is lost. `DeadlockVictim` is the database's deadlock detection: a
transaction of any cycle of waits is rolled back. The lock manager is not in
this repository; the model has the locks the code's statements ask for and
nothing more. An order insert that waits for an uncommitted row with the same
unique key waits for its transaction. Product prices, visibility and totals do
not matter to what is checked and are left out; an order's contents are its
`body`, told apart as the fingerprint does.

### CashSettlement

`UpdateRate`, `PlaceOrder` and `ConfirmCash` are `updateFinancialSettings`, the
totals and rate snapshot of `createOrder`, and `confirmCashPayment` under its
row lock, which makes each of them one step. Amounts are integers in the units
the code computes with: cents, riel, and hundredths of a riel for comparisons.
The parsers and the columns limit what can be recorded so that the products stay
far below 2^53, where JavaScript numbers are exact; no width is modelled. Both
totals are inputs: they come from two price lists.

### SalesReports

State. `sale` adds the instant and the stall to each order of `CashSettlement`;
`now` is the server's clock; `report` is one report on its way. `Sell`,
`Settle`, `SetRate` and `DeleteStall` change what is reported; `RequestReport` is
`resolveDateRange` against the clock, `ReadPart` the query and the mapping of its
rows. The parts of a report are queries that run side by side at moments of their
own, so a report is followed through one of its parts, each in turn. Instants are
whole hours and a day ends with its last hour instead of its last millisecond;
the calendar runs from December to April. A page of the ledger is a query of its own,
though all are made at one moment. Orders of one instant are listed in any order
(`Listings`): the tie-break by id belongs to a fallback that the default sort never
reaches, since `created_at` is one of the columns one may sort by. `ReportingTotal` and
`Revenue` are the SQL arithmetic in integers.

### RefreshSessions

State. `rows` are the `refresh_sessions` of one user in order of creation, a token
is an index of it; `version` is `users.session_version`; `jar` and `stored` are
the cookie and the copy of its CSRF proof that all tabs share, `tab` and
`call` what each tab shows and the requests it has under way; `env` is the browser's
surroundings, chosen once, which bounds what `budget` counts.

| Action | Code |
|---|---|
| `OpenTab` | `AuthProvider` on load: finish a logout, restore, or show the login |
| `Login`, `Logout`, `UseAccess` | `login`, `logout`; `apiRequest` with an expired or outdated access token |
| `ServeLogin`, `ServeRefresh`, `ServeLogout` | `createAuthSession`, `rotateAuthSession`, `revokeAuthSession`, each a transaction under the token's row lock |
| `Arrive` | the browser takes the cookies of an answer, before the script runs |
| `SignIn`, `RefreshFails`, `LoginFails`, `LogoutReturns` | the continuations in `AuthContext` and `apiClient` |
| `AccessExpires`, `CloseTab`, `LoseAnswer`, `RefuseLogin`, `ChangeAccount`, `SessionExpires` | time, the user, the network, a wrong password, a manager |

A refused login clears the tab and the stored proof, as every answer 401 does
(`apiRequest`, the handler in `AuthContext`), but not the cookies: the next refresh of any
tab sends the cookie without the proof.

A request of a closed tab that the server has not taken yet is dropped with it;
one already answered has had its effect on the rows and loses its cookies.

### StaffSessions

State. `account`, `assigned`, `device`, `deleted` and `sessions` are committed rows,
`tokens` the access tokens signed so far, `login`, `request` and `socket` the
memories of one PIN login per cashier, of one assignment request and of sockets;
`notices` are committed changes that wait to be announced.

`BeginLogin`, `CheckPin`, `CheckAssignment`, `OpenSession` are the statements of
`loginWithPin`; `Refresh` is `rotateAuthSession` with its principal check;
`Connect`, `ConnectTerminal`, `ConnectAssignment`, `Register` are
`authenticateSocket` and the registration after it; `EditUser`, `DeleteUser`,
`BeginAssignment`, `CommitAssignment`, `RegisterDevice`, `DeregisterDevice` and
`DeleteStall` are management; `Announce` is the emit after the commit. A request
that carries an access token makes the checks of `AccountMatches`, `TerminalWorks` and
`AssignedTo` and changes nothing, so it is no action. Roles and the sockets of
managers, which make fewer checks, are left out.

### Checkout

State. `cart`, `pending` and their copies in `localStorage`; `restored`, the stored cart
as it was read, until the timer shows it; `dialog`; `run`, the
call of `handleCheckout` under way; `recovery`, the request a reloaded page makes
for a stored order; `orders`, the server; `stray`, requests the page gave up that
may still reach the server. `sale`, `built`, `overtaken`, `acknowledged`, `begun` and
`touched` are history: `touched` holds the sales whose cart was changed after paying had
begun, `overtaken` says that the last change of the cart fell before the timer.

`Load`, `ReadCart`, `ShowCart`, `ClosePage` are the life of the page: the stored cart is
read in an effect once the products are there (`useCart.js:50-54`) and shown by a timer
of 0 ms (`:55-58`), and a tap or the answer of a recovery may come between the two.
`SessionRefreshed` is a renewed access token, which applies the session again and with it
asks for the order of the pending checkout anew. `EditCart`, `ClearCart`,
`OpenDialog`, `CancelDialog`, `Confirm` the cashier; `Serve`, `Refuse`, `Lose`,
`ServeStray`, `ServeRecovery` the server and the network; `AfterCreate`,
`AfterFetch`, `AfterPaid`, `AfterError`, `AfterRecovery`, `LoseRecovery` the
continuations. The server is what `OrderPlacement` and `CashSettlement` are to the
terminal: one order per key, one payment per order. KHQR, orders that were cancelled
or are missing, the twelve-hour age limit of stored records, items withdrawn from the
menu, and the revocation of the terminal, which clears the stored cart and the stored
checkout (`authStorage.js:79-88`), are left out. The receipt or the dialog of a recovery
comes with its answer, not in a timer of its own (`CashierPage.jsx:165`).

### StallRouting and ChatDirectory

State. `chatOf`, `deleted` are columns of `stalls`; `link`, `expired` the setup
links; `ticket`, `listed` the rows of tickets and cooks; `start`, `send`, `tap` the
memories of a `/start` request, of a dispatch and of a tap; `upgraded` and `shown`
what Telegram knows. A chat id is a group and whether it was upgraded.

`AskLink`, `CreateLink` are `createConnection`; `ReceiveStart`, `LockLink`,
`LockStall`, `Connect`, `StartLosesDeadlock` are `consumeConnection` with its
locks in their order; `ReadStall` to `SaveSent` are a dispatch, of which
`LearnMigration`, `LockForMigration`, `Migrate`, `MigrationRefused` are
`migrateTelegramChatRouting`; `AuthorizeCook`, `RevokeCook`, `CheckTap`,
`CompleteTap` the allow-list and its use. No index covers the search for a chat, so
it locks every row it reads and two transactions that hold a stall row each cannot
both search: that is the database's behaviour, modelled from the statements. Replies
to the group and message ids are left out (`KitchenDispatch` has the latter).

`ChatDirectory` is the promise of `context/architecture.md`: a chat goes to another
stall only after it was free. `ImplementsDirectory` refines it with the owner of a
chat computed from the stalls that are not deleted.

### SchemaMigrations and ServerProcess

State. `schema` and `ledger` are what exists and what is recorded; `duplicates` and
`settlement` the data a migration may refuse or overwrite; `migration` what each
process is carrying out; `host` a process with its requests, its worker's timer and
run, and what a shutdown still waits for.

A migration is a sequence of phases that read what is missing and then add it one
statement at a time, as MySQL commits each schema statement at once; several alike
objects of a phase are represented by two. `CommandUp`, `CommandDown`, `EndCommand`
are `database-migrate.js`; `Start`, `OpenStore`, `Listen`, `FailStart` are
`startServer`; `Accept`, `Respond`, `AnswerFirst`, `EndLate`, `WorkerTick`, `EndRun` serving; `Signal`,
`CloseTraffic`, `CloseStore`, `CloseDatabase`, `Exit` are `createGracefulShutdown`;
`AnswerFirst` is the webhook of Telegram, which answers before it works on the update
(`telegram.controller.js:19`); `late` is that work, which no shutdown waits for.
`Die` is a kill between any two steps. A wait that is over because the grace
period is over is `Exit` from anywhere in the drain.

### Catalog

State. `categories`, `product` (with the price and visibility per stall) and `request`,
the memories of the requests under way. `Check` is `requireOwnedProduct` before the
transaction, `LockProduct`, `ReadAssignments`, `WriteUpdate` are `updateProductById`;
`WriteCreate`, `WriteDelete`, `AddCategory`, `LockCategory`, `DropCategory` the other
operations; `EndDeadlock` the database. A request waits while another holds a row it
needs. Names, pictures, audit rows and the rename of a category are left out, and the
dollar and the riel price, which change alike, are one.

### ManagementScreens and TeamScreens

State. `shown` and `list` are what the tab shows, `load`, `fetches` and `calls` its
requests under way, `operation`, `editor`, `transfer` and `form` the change it waits
for; `refreshing` is the flag of `useAutoRefresh`. Behind `TeamScreens`,
`account`, `placed`, `place` and `terminal` are the rows of users, staff, stalls and
terminals.

One of four screens is open. The menu (`useProducts`, `MenuCatalog`) loads two lists
with two queries and sends one request per product it changes; the report
(`useSalesReport`, `OrderHistory`) asks anew for every choice, 300 ms after a search
text and every 30 seconds; the stalls (`StallOwner`) and the accounts (`useUsers`)
patch their list as answers come and load it again. Other managers and sales run
beside them. `ReadAccount` and `WriteAccount` are the read before the transaction of
`updateUser` and the update that names the row by its id alone.

The tab is in the foreground and its manager is the owner. On the menu the manager
waits for one change before the next; equal requests that are under way together are
one. The gap between check and transaction of a staff assignment is
`StaffSessions`'; stall changes of other managers take one step. Each screen shows
one list: the list of users inside the stalls screen, the Telegram dialogs and image
upload are left out.

## 3. Runs

| Run | Instance | Question |
|---|---|---|
| `kitchen_one_order` | 1 order, 2 processes, 2 requests, 2 chats, 2 group changes; either 1 crash, 1 database fault and 1 manual retry, or a dispatch that outlasts its lock | safety of the outbox and the callback |
| `kitchen_progress` | 1 order, 2 processes, crash, fault, manual retry, fair | does every paid order end as delivered or failed; is a pending ticket resolved |
| `kitchen_unknown_send` | two crashes | finding 1 |
| `placement` | 2 requests with one key, 2 bodies, 2 assignment changes, 2 cashiers, 2 stalls, 1 failure, fair | idempotency, exclusive assignment, audit chain; is everyone answered although locks are taken in opposite orders |
| `settlement` | totals, tenders and rates at ties, half cents and limits; reports over two orders at the edges of days, weeks and months | is the change right, is a paid order final, does a report count every sale once |
| `sessions` | two tabs that race; two tabs with a mistyped password; one undisturbed tab; one tab that is reloaded and loses answers | rotation, reuse, logout, restoring |
| `staff` | 1 cashier, 2 terminals, 2 stalls, 1 socket, 2 sessions, 1 edit, 1 move | does anything work that was not checked against the present rows |
| `checkout` | 2 baskets, 2 keys, 3 page loads, 2 losses, 2 edits, 1 renewed session | can a customer pay twice, is a payment forgotten |
| `routing` | 2 stalls, 1 group, 2 links, 2 answers, 2 dispatches, 1 tap, 1 cook, 2 changes, 1 failed call | one stall per chat, links used once, tickets of an upgraded group |
| `deployment` | 2 processes, 1 rollback, 1 death, 1 request | what a serving process finds; what a drain waits for |
| `account_credentials` | 1 account, 2 overlapping updates | finding 2 |
| `screens` | either 2 requests at the catalog, or one of the four screens with 2 changes, choices, sales or failures | do changes undo each other, does a screen settle |

Bounds and why they are enough:

- `MaxAttempts = 2` (5 by default) has a first attempt, a retry and the
  limit; nothing distinguishes the attempts in between.
- Two processes are what a deployment overlaps; two workers already give every
  order of two conflicting writes. Two requests give two taps, or a tap and a
  retry.
- One crash and one fault reach every point of a dispatch; the second one only
  matters together with an earlier one, which is the finding of
  `kitchen_unknown_send`. `OneKindOfTrouble` separates a dispatch that outlasts its
  lock from crashes, faults and manual retries; each is combined with taps,
  payments and reconnections.
- Two chats and two group changes move a stall away and back.
- Two requests with one key and two bodies cover a parallel retry, a late retry
  and a reused key; two assignment changes cover the lock cycles of two
  managers, and of each with an order. `FewAtOnce` has requests of different content
  meet one assignment change, requests of the same content two, and two first
  assignments of two cashiers, which lock gaps of an empty index, meet alone.
- In `settlement` one order takes every combination of the input sets, which
  hold the half-cent ties at each of the three rates and their neighbours, and
  reports are made of two orders, one in each currency, at a Saturday evening, a
  Sunday's and a Monday's first hour and the 31st of a month whose predecessor is
  shorter (`OneQuestion`).
- `TwoTabs` has one expiry of an access token and one account change, enough for two
  tabs to present one token; `Mistyped` has two tabs that cannot read the cookie, one
  expiry and one refused login; `Reloads` has such a page with two reloads, a refused
  login and two losses, a loss before and one after a rotation; `OneTab` has two of each
  kind of expiry and is otherwise undisturbed.
- In `staff` one cashier suffices: cashiers share no row. Two terminals give a
  token on the wrong one, two stalls a move, two sessions one rotation.
- In `checkout` a third page load comes after a reload during a recovery; two losses
  lose the creation and its repetition, or the creation and the payment; one renewed
  session repeats a recovery. The cashier touches nothing while a recovery is under way (`PatientUser`), see section 5.
- In `routing` two links and two answers of one group compete, and two
  dispatches of one stall learn of the upgrade; the second stall has no ticket. A
  group is upgraded once.
- In `deployment` one death leaves a migration between any two statements, for a second
  process beside it or for the next start. One request is what a shutdown waits for.
- `MaxEvents = 2` bounds the changes asked for, choices, sales and failed loads of a
  screen together: two changes overlap, or a change and a failure, and what the
  screen shows depends on the order of two answers. The two catalog requests have
  no screen beside them. The inputs (`Menus`, `Updates`, `Changes`, `Rosters`,
  `Edits`) hold each column alone, several at once, and a whole record as the forms
  send it.

Symmetry is used in safety runs only. `CHECK_DEADLOCK FALSE` is set because
every system here may come to rest: nobody has to place another order.

What the properties say (each stands above its definition in the module):

- `ClaimExclusive`: until a dispatch outlasts the lock timeout, a job is worked
  on only by the holder of its unexpired lock. The job is saved by id without
  testing `locked_by`, so this is what keeps one process from overwriting
  another's result.
- `EarlierTicketsFailed`: under the same condition, a new ticket is opened only
  when all earlier ones of the order failed, across crashes, retries and
  requeues. Once a lock is outlasted, two workers may each write the other's
  rows and none of this is claimed.
- `SentTicketShown`, `DoneFromItsMessage`: tickets name messages that exist, and
  only a tap on the ticket's own message completes it, even when the group
  changes during a send.
- `SentJobDelivered`, `DoneIsFinal`: the outbox agrees with the tickets, and no
  late save undoes a completion (both until a lock is outlasted).
- `PaidOrderSettles`, `PendingTicketResolves`, `UnknownSendAwaitsReview`: what
  staff may rely on. `PendingTicketResolves` leaves database faults out, see
  section 5.
- `OneOrderPerKey`, `AnswersAreOwnOrders`: idempotency, as the database and as the
  terminals see it.
- `OrderInAssignedStall`, `AuditChain`, `AssignmentsSerialized`,
  `EveryoneAnswered`: assignment changes against each other and against orders.
- `RielChangeExact`, `DollarChangeNearest`, `SettledOnce`: settlement.
  `ReportTellsSales`: a sale settled before the report was asked for is in exactly one
  bucket or on one page, nothing foreign is in any, and revenue is at each order's own
  rate. Orders of one second may change places between two page queries, so for the
  ledger the count leaves them out: TLC shows one of them on two pages otherwise.
- `OneLiveToken`, `ReuseEndsFamily`, `NoFalseAlarm`, `LogoutEndsSession`,
  `PendingLogoutHolds`, `LoadingWaits`: a copied token is noticed, an honest tab is
  not taken for a copy, and a logout is one. The two about logout are stated for a
  browser in which no refresh overtakes it, see section 5.
- `CredentialsCurrent`, `TokensStayOnTerminal`, `RefusedForGood`,
  `StaleSocketsAreLate`: what still works goes back to a PIN of the account as it is now
  and to the terminal it was typed on; what was refused is never accepted again; a
  socket that outlives its session's change had its handshake during it.
- `OneOrderPerSale`, `OnePaidPerSale`, `PaidIsRemembered`, `CartSurvives`: one
  customer pays once, whatever is lost, late or reloaded, and the cart on the open page
  is the one that was built, unless its last change fell before the restore timer.
- `TicketsFollowMigration`, `SpentLinksStayOut`, `ImplementsDirectory`: routing.
- `ServingSchemaComplete`, `SettlementsKept`, `DrainedBeforeClosing`: deployment. The
  first two say where rollbacks and side-by-side migrations are left out; the third
  speaks of requests until their answer and of the worker run found at the signal.
- `LeavesRestAlone`: a change of the catalog leaves as the last change left it what
  it does not name. `ScreensSettle`: when changes and failures end, the screen comes to
  show what there is, and keeps showing it. `OneCredential`: finding 2.

### Fairness

`KitchenDispatch`: strong fairness of the claim of each order, because the
worker timer of some process fires every two seconds and the query takes the job that
has been due longest, so a job cannot be passed over for ever; weak fairness of
a running worker's steps (its awaits return: the HTTP calls have timeouts and the
database fails or answers), of clocks, and of a requeue already begun. Nobody
has to pay, tap, retry or reconnect. Crashes and faults are bounded, not fair.

`OrderPlacement`: strong fairness of each started transaction, which is a lock
queue that grants in order of arrival, and weak fairness of deadlock detection.
Without the latter `EveryoneAnswered` fails: the locks really are taken in
opposite orders.

`ManagementScreens`, `TeamScreens`: weak fairness of requests being served, of answers
being shown, and of the timers: the 30-second refresh of `useAutoRefresh` while its flag
is down, the 300 ms of the search box and the report's own timer. Nobody has to
change anything and nothing has to fail. A request that is never answered is left out
(section 5).

### Where code and documents disagree

1. `kitchen_unknown_send`: `context/architecture.md:261` promises that a send whose
   result is unknown is left to manual review. The worker fails the ticket and
   the job in two statements (`telegram-dispatch-worker.service.js:134` and
   `:145`); a stop between them leaves a failed ticket and a claimable job, and
   the next claim sends the order again. `GapIsTheCause` (section 4) proves that,
   while no lock is outlasted, nothing else does.
2. `account_credentials`: `context/architecture.md:279` and
   `docs/api/auth-flow.md:166` say that an account has exactly one
   role-appropriate credential. `updateUser` judges an update by the role it read
   before the transaction (`user.service.js:190`) and the update names the row by
   its id alone: a promotion to manager and an update that read a cashier leave a
   manager without a password or a PIN. `OverlapIsTheCause` (section 4) proves that only
   such an overlap does.

## 4. Proofs

`KitchenDispatchProofs` proves, for any sets of orders, processes, requests and
chats and for any bounds, from the assumptions the module declares
(`NoOneAssumption`, `MaxAttemptsAssumption`, `BoundsAssumption`):

- `TypeCorrect`: `Spec => []TypeOK`. `TypeOK` is not inductive: an action that
  writes `tickets[o][t]` keeps the type only if `t` is a ticket. The inductive
  invariant `TypeInv` adds `WorkerRefs` and `HandlerRefs`: a worker past the
  insert holds the index of an existing ticket, and a request that has matched
  a message holds indices of an existing ticket and message. Sequences only
  grow, so an index once valid stays valid.
- `ClaimsAreExclusive`: `Spec => []ClaimExclusive`. The inductive invariant is
  `TypeInv /\ budget.slow <= MaxSlow /\ ClaimExclusive`. A claim needs a job that
  is not being processed, which by the invariant nobody works on, or a stale
  lock, which by the invariant no working process has; a lock of a working
  process becomes stale only by using up `budget.slow`, which never recovers,
  hence the bound.

Each action has a lemma for each invariant; the step theorem only splits `Next`.

Its second part builds on exclusive claims:

- `NoTicketBesideALiveOne`: `Spec => []EarlierTicketsFailed`, and
  `SentMeansDelivered`: `Spec => []SentJobDelivered`. Both follow from one
  inductive invariant, `DeliveryInv`: `ExclusiveInv` and, until a lock is
  outlasted, `RowsKept` of every order and `Knows` of every worker. `Knows` says
  that what a worker has read is still so: the row it holds is its order's latest
  and pending, it is about to open a row only after failed ones, it is about to
  mark a job sent only when the latest ticket was delivered. It stays true because
  exclusive claims leave nobody but the cook to write those rows, and the cook
  only completes sent tickets (`LocalStep`, `CompleteKeeps`).
- `CompletedTicketStays`: `Spec => DoneIsFinal`, from the same invariant: a save
  hits the row in hand, which is pending, and never a completed one.
  Once a dispatch outlasts its lock, nothing is claimed: the late worker of a
  ticket may still write the row after the cook has completed it.
- `SentTicketsAreShown`: `Spec => []SentTicketShown`, and
  `DoneTicketsWereTapped`: `Spec => []DoneFromItsMessage`, with no condition on
  locks. The inductive invariant `MessageInv` adds to `TypeInv` that every row
  recorded as sent is shown, that an answer a worker still carries is that of a
  shown message, and that the message a completing request matched belongs to its
  order. The kitchen's messages are only ever added to (`MessagesStay`), so what is
  shown stays shown whoever writes the row.
- `AttemptsStayBounded`: `Spec => [](budget.slow = MaxSlow => AttemptsBounded)`.
  The inductive invariant `AttemptInv` adds to `ExclusiveInv` that a job which can
  be claimed, or that nobody attends, has an attempt to spare, counting one for
  each interruption, and that a worker knows the attempt it is on. With outlasted
  locks the bound is not proved.

- `GapIsTheCause`: `Spec /\ [](budget.slow = MaxSlow) /\ [][NothingBetween]_vars =>
  UnknownSendAwaitsReview`, the converse of finding 1: if neither a stop nor a failing
  database comes between the statement that fails a ticket and the one that fails
  its job, and no lock is outlasted, an unknown send is never repeated unasked. The
  invariant `ReviewInv` adds to `DeliveryInv` that every order with an unknown send
  `Awaits`: its latest ticket is pending or failed, whoever works on it has not gone
  on to send, and once the ticket has failed the job has too or is about to.

`ManagementProofs` has four parts, about what an owner is told and what he changes.

The first proves for any rates and amounts `SettlementCorrect`
(riel change exact, dollar change nearest; it rests on `HalfUp`,
`RielChangeIsExact` and on accepted rates being multiples of one hundred, which
the invariant carries for the rate and for every order's snapshot), its part
`DollarChangeIsNearest`, and `PaidOrderIsFinal`.

The second is about reports, for any time zone, instants, custom days, page size and
orders (`OrdersAssumption`: finitely many; `CalendarAssumption`: the instants fall on
the local days from January to March that the calendar of the module covers):

- `ReportsDisturbNothing` (`SalesSpec => Spec`): beside reports, the clock and deleted
  stalls, orders and the rate behave as `CashSettlement` says. This is a refinement, and
  what the first part proves of `Spec` holds of `SalesSpec` by it.
- `ReportsTellSales` (`SalesSpec => []ReportTellsSales`). The invariant `SalesInv` adds to
  the settlement's that sales and reports are typed, that a report carries the period,
  its bounds and the sales settled when it was asked for (`Asked`), and that what it
  shows exists. The bounds of a period are the local days it names
  (`InstantsOfDays`), of each of the `Shape`s that `resolveDateRange` can make, and the
  previous period ends before it begins (`PreviousIsEarlier`). Each part is then shown to
  tell what it counts (`Tells`): a group-by has one bucket for each instant
  (`GroupsTell`); the ledger has one page for each place (`OnePageForEachPlace`), and the
  place of an untied order is the number of newer ones, which all queries agree on
  (`PlaceIsFixed`). Settling, selling and deleting a stall while the report is made only
  add what is not counted among the sales before. Revenue is the two roundings of the
  SQL, bounded by integer arithmetic (`RevenueIsNear`).

The third is about `TeamScreens`, and through it `Catalog`:

- `ChangesLeaveRest`: `ManagementSpec => LeavesRestAlone`, for any catalog of well-formed
  rows (`MenusAssumption`), any number of requests and whatever the screens do. The
  invariant `CatalogInv` says that rows and requests are well formed, that every product
  in the table has its category (`RowsShaped`), and `LocksExclude`: two requests never
  work on one product, its row is in the table, and the assignments that
  `updateProductById` read are those it has. A lock that is free is held by nobody at
  that product (`FreeAlone`), so only the writer changes what was read (`WrittenAlone`);
  an updated row differs in what was asked alone (`UpdateKeepsRest`). Every step of a
  screen or of another manager only posts requests or takes their answers (`Clients`).

The fourth is about the accounts of `TeamScreens`:

- `OverlapIsTheCause`: `ManagementSpec /\ []OneUpdateAtATime => []OneCredential`, the
  converse of finding 2, for any people and any edits. `OneUpdateAtATime` says that no two
  updates of one account are both between their read and their write; creations,
  deletions and updates of other accounts may overlap anything. The invariant
  `CredentialInv` says that every account, a deleted one too, has the credential of its
  role, and that an update which has read the account knows its role and brings what
  the new role lacks (`Informed`). Only the write of another update changes a role, so
  what was read is still so at the write (`WriteKeeps`).

`CheckoutProofs`, for any baskets and any number of keys, edits, reloads and losses:

- `TypeCorrect`, `OneOrderForEachSale` (`[]OneOrderPerSale`) and `OnePaymentForEachSale`
  (`[]OnePaidPerSale`), without conditions. The properties say nothing of requests that may
  still reach the server, so the invariant `CheckoutInv` speaks of `Claims`, the sale
  and key of every stored order and of every request that may yet store one. Only
  `Confirm` makes a claim (`ClaimsStep`). `SaleInv`: until its cart is changed, the claims
  of a sale have one key, the remembered one, and a sale that was begun is remembered.
  `PaymentInv`: of the claims of a sale at most one has a key that ends in a payment
  (`Hot`), even when a recovery overlaps a checkout and when a changed cart made a second
  order; a key that was paid or may be paid behind the page's back (`Settling`) is
  remembered with its order, so that confirming again fetches it. One key has one order
  (`RequestInv`), and one order of a sale is counted once (`OrdersCounted`).
- `PaymentsAreRemembered` (`[]PaidIsRemembered`), for a `PatientUser`, who touches nothing
  while a recovery is under way. `PatientInv`: a call or a recovery is then under way
  for what is remembered, and no other payment is.
- `CartsSurvive` (`[]CartSurvives`), when no load of the products fails (`MaxFailed = 0`),
  for any cashier. `CartInv`: unless the last change was overtaken, the stored cart is the
  built one, and so is what a timer is about to show; a change that falls before the
  timer is undone by it, and the next change on the open page ends that.

`OrderPlacementProofs` proves, for any sets of requests, managers' changes, cashiers,
stalls and keys, every safety property of the run `placement`. A first part states what
each step does to the memory of its request or change (the lemmas `...Moves`), so
that the rest argues about steps and not about updates of records. Then:

- `TypeCorrect`, from `TypeInv`: a request that was sent knows its cashier, key and
  contents, has a stall once authenticated, and is unanswered until it is done.
- `RetriesAreSafe`: `Spec => []OneOrderPerKey`, and `AnswersAreTrue`:
  `Spec => []AnswersAreOwnOrders`. Uniqueness alone is not inductive: a commit adds an
  order without looking. `CommittersAlone` says that a request about to commit is
  alone with its key, among the stored orders and among open transactions; the
  insert establishes it (unique index and wait for uncommitted rows), and no other
  step can disturb it. `CommittedStored` carries the order from the commit to the answer.
- `OrdersKeepToTheirStall`: `Spec => OrderInAssignedStall`, from `LockInv`: a request in
  its transaction holds the assignment row of its cashier; a change that is about to
  commit holds it too (`ChangesHoldLocks`), so they are never there together. For a
  cashier without a row there is nothing to hold; then the change holds the users row,
  and a request cannot have found a stall.
- `ChangesAreSerialized`: `Spec => []AssignmentsSerialized`, from `LockInv` and
  `ReadersHold`: only the holder of the users row ever holds the assignment row or a gap.
- `AuditIsGapless`: `Spec => []AuditChain`, from `RowsLinked`, which states the chain
  without `CHOOSE`; a change writes the stall it read under the lock, and `LockInv`
  says it is still so at the commit.

`StallRoutingProofs`: `TypeCorrect`, `ChatsHaveOneStall`
(`Spec => []OneStallPerChat`) and `RoutingIsADirectory`
(`Spec => ImplementsDirectory`), the refinement: initial states map to initial states
of `ChatDirectory`, and every step to one of its steps or a stutter. The
inductive invariant is `TypeOK /\ Underway /\ OneStallPerChat`; `Underway` says that a
request under way holds a link, a chat and a stall that exist, because connecting
and migrating write what they remembered. `OneStallPerChat` is no property of a
run: a run checks the refinement, which implies it. Two more invariants carry the
other properties of the run, for any number of stalls, groups, links and tickets:

- `LinksAreSpent`: `Spec => SpentLinksStayOut`, from `LinkInv`: two answers never hold
  one link's row, and the link of an answer that is about to connect is still open,
  since a later link waits for that row before it replaces it.
- `TicketsFollow`: `Spec => []TicketsFollowMigration`, from `KnownInv` (a supergroup's
  chat id is known only after the upgrade, so whoever learns of a migration holds the
  old id) and `FollowInv`, which says for every point of a dispatch which of the two
  chats its memory, its row and its stall name: an insert may still write the old id
  after the stall has moved, the save repairs it unless a migration did, and a
  migration takes along whatever still names the chat it leaves. The claim needs the
  stall to be connected once; `ConnectionInv` says that nothing dispatches before that.

`ServerProcessProofs` proves every property of the run `deployment` for any number of
processes, requests, deaths and rollbacks:

- `DrainsBeforeItCloses` (`Spec => []DrainedBeforeClosing`). `HostInv` adds to the
  property that a process that serves has its store, that a timer runs only in a
  ready process and that a drain which no longer awaits its requests has none. Nothing
  is needed of the schema: no step of a migration touches a process.
- `ServersFindTheirSchema` (`Spec => []ServingSchemaComplete`), from `SchemaInv`: while
  nothing was rolled back schema and ledger only grow, what the ledger names exists,
  and `Advanced` says of every process that migrates that all names are in the ledger
  or still on its list and that the phases behind it exist, whoever added them. Two
  processes that migrate side by side disturb neither.
- `SettlementsSurvive` (`Spec => []SettlementsKept`), from `SettlementInv`: without
  overlap at most one process migrates and its list is disjoint from the ledger. Only a
  server records settlements, and then the ledger is complete and nothing migrates.

`StaffSessionsProofs`, for any cashiers, terminals, stalls, sockets and logins:

- `TypeCorrect`: what is under way refers to terminals, stalls and tokens that exist.
- `CredentialsHold` (`[]CredentialsCurrent`) and `TokensAreLocal`
  (`[]TokensStayOnTerminal`), from `CredInv`: every token and row carries the version
  and the terminal of its PIN, and no version runs ahead of its account, so that a
  version that was raised is never reached by an older login.
- `RefusalIsFinal`: `Spec => RefusedForGood`. Versions only grow, and deregistering a
  terminal or deleting an account or a stall is final.
- `StaleSocketsAreKnown` (`[]StaleSocketsAreLate`), from `SocketInv`: a connection was
  overtaken by a change, or all that its handshake has established still holds, or
  a notice that concerns it has yet to go out.

`RefreshSessionsProofs`, for any tabs, tokens and browsers of the environments the
module describes:

- `RotationKeepsOne` (`[]OneLiveToken`) and `ReuseIsCaught` (`[]ReuseEndsFamily`). They
  are proved together, with a typing that orders tokens by when they were issued: a
  rotation adds a row to a family whose only live row it revokes, and a family that
  was ended has none to rotate.
- `LoadingIsWaiting` (`[]LoadingWaits`), from `LoadInv`: a tab that loads has a refresh
  or a logout under way and no login, and a closed tab has nothing under way; a lost
  answer and a reload leave it so.
- `NoThiefImagined` (`[]NoFalseAlarm`). Where one tab is open at a time, the tab that
  acts is alone (`ActsAlone`), so one tab's exchanges and the jar are all there is.
  `Calm` says where a replaced token may be: in the jar, and only while the refresh
  that replaced it is answered and not yet arrived. The tab sends no refresh then, so
  none carries a replaced token. A login answered meanwhile keeps the argument whole
  because its token is in nobody else's hands.
- `LogoutIsFinal` (`[]LogoutEndsSession`) and `MarkerHolds` (`PendingLogoutHolds`), from
  `Still`: without access tokens that expire a refresh is under way only while its tab
  loads with no logout pending, and beside no login and no logout. So the token in the
  jar of a tab that is signed in, and the one a logout presents, is the only one of its
  login that may be live (`CleanIn`), and its revocation ends the login. Two tabs, or a
  refresh beside a logout, break this; the premise `NoRefreshRaces` says so.

What the theorems do not assume: bounds on the environment (crashes, losses,
edits) are constants, so that the theorems hold for any value of them. The only
assumptions are the named ones of each module: `None` is not a member of the sets it
is added to, sets of actors are disjoint, bounds are natural numbers, orders are
finitely many, instants lie in the calendar, first catalogs have well-formed rows.
TLC evaluates them in the runs.

Only model-checked:

- liveness (`PaidOrderSettles`, `PendingTicketResolves`, `EveryoneAnswered`,
  `ScreensSettle`): fairness is outside the prover's reach;
- `UnknownSendAwaitsReview` and `OneCredential`, which the code violates (section 3); what
  they need is proved (`GapIsTheCause`, `OverlapIsTheCause`);
- what a screen shows: `ScreensSettle` is the only property about it, and is liveness;
- `AttemptsBounded` once a lock is outlasted: not proved and in no run; TLC confirms it
  for one order, two processes, a crash, a fault and one outlasted lock.

So every safety property of a passing run is stated by a theorem.

Type invariants are proved where a theorem needs them and are not checked by runs
of their own; `AttemptsBounded` and `OneStallPerChat` are stated by theorems alone.
No module declares a recursive operator.

## 5. Not modelled, and known deviations

Not modelled:

- KHQR payment and its background checker: `config/env.js:95-97` refuses to start with
  `KHQR_ENABLED=true`, so no state of them can be reached in this release.
- Rate limiting: counters in an external store (Redis), on which nothing else depends.
- The operations watch and the order queries of cashier and dashboard: read-only.
- Image signing, HTTP mapping and validation (stateless; the guards of the models state
  what they let through), logging, seeds, presentation, export.
- Text: names, addresses, formatting of messages. Money and time are kept, in cents,
  riel and whole hours.
- A fetch of the browser that is never answered: none of them has a timeout, and a hung
  one keeps the flag of the automatic refresh set.
- The lock manager of the database is external: `OrderPlacement` and `Catalog` have the
  locks that the statements of this code ask for.

What reading and checking showed that a maintainer should know. These are either
documented by the repository or nowhere promised otherwise; where a property would
fail because of one, it says so in its statement.

Kitchen and routing:

- A ticket save that the database refuses on the last attempt leaves the ticket
  pending for ever (`docs/api/endpoints.md:501` leaves unknown sends to staff).
- Tickets sent to a group before its upgrade cannot be completed from the old message.
- A cook revoked between the check and the completion still completes.

Orders and checkout:

- An order for a stall that was deleted after the request was authenticated is taken.
- An order resumed after a reload can be paid while the screen already shows a new cart.
- A late timer undoes what happened since the stored cart was read: a recovery that
  answers "paid" in between empties the cart (`useOrders.js:106-111`), the timer shows it
  again and it is stored again (`useCart.js:55-58`, `:68-71`); an early tap is lost.
  `CartSurvives` excepts a cart whose last change fell there.
- A product load that fails when the page opens restores an empty cart, which then
  replaces the stored one.
- A cashier who edits the cart while a recovery is under way can make the terminal forget
  a payment; `PaidIsRemembered` is stated for a `PatientUser`, who does not. Two
  payments for one sale do not come of it. Nothing in the page enforces patience: a
  recovery that a renewed session repeats can open the dialog of an order that was paid
  meanwhile, or empty the next customer's cart.

Sessions:

- A refresh that overtakes a logout leaves its new token live (`frontend/README.md:78` promises the revocation);
  a refresh answer sent before a logout signs the tab in again (`AuthContext.jsx:178`).
- An edit of an account during the handshake of a socket leaves the socket open
  (`docs/api/auth-flow.md:189`).
- A cashier unassigned and assigned again to the same stall goes on with his old access
  token.
- Overlapping updates can leave an account without a credential (finding 2).

Processes and migrations:

- A worker run that a draining request starts, and the work on an update of Telegram,
  which follows its answer (`telegram.controller.js:19`), are not awaited by the shutdown
  (`context/architecture.md:318`, `graceful-shutdown.js:48`). A second SIGTERM kills at once.
- Two deploys that overlap can run the `UPDATE` of migration 0006 twice; the second one
  resets what was settled in between.
- A baseline that was cut short, or its rollback, is refused for ever and needs an
  operator.

Management screens:

- A save or a toggle sends the whole record as it was loaded and so reverts another
  manager's newer change, of products and of accounts.
- Saving one row closes the editor of another that was opened meanwhile; an image
  uploaded for one row lands on the row that is open when the answer comes.
- A category whose products are all deleted softly cannot be deleted (foreign key).
- The list of products is limited after a join, so it counts joined rows; `MenuCatalog`
  reads element 0 of a paginated object, so its default category is blank.
- A report of older filters can overwrite a newer one until the next refresh; the
  exported PDF labels an older report with the current selection and holds the current
  page of the ledger only.
- The ledger says that it shows alerts only and lists all orders (`OrderHistory.jsx:1054`);
  its alert counts cover the current page; it includes orders of deleted stalls, which
  the sums exclude.
- Deleted stalls keep their staff assigned, stall lists show deleted accounts as staff, and
  the list of cooks is not refreshed while its stall stays selected.
