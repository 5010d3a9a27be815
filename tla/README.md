# Verification of the Northlane Apparel shop

This directory holds TLA+ specifications of the services that take a customer
from the shop window to a settled order, TLC configurations that check them on
small instances, and proofs, checked by the TLA+ proof system, of what holds on
every instance. All paths below are relative to the repository. `PROJECT.json`
lists runs, the source lines of every definition, hazards, findings and
theorems.

## 1. The system

Nine NestJS services behind an HTTP gateway. Each has its own schema in
PostgreSQL (through Prisma, at the default isolation level READ COMMITTED) and
talks to the others through RabbitMQ only: commands and events on topic
exchanges, and requests whose reply comes back on a private queue. A consumer
sets no prefetch and starts every handler as soon as its message is delivered
(`packages/shared/src/rabbitmq.ts`, `subscribe`), so handlers of one queue
overlap at every `await`. A message that came without a reply address and whose
handler throws is republished after 5 s, three times at most, then
dead-lettered; one with a reply address is acknowledged and the error is
returned to the caller. There is no outbox: what a handler has to say it
publishes after its COMMIT.

| Component | State | Operations | What is hard about it |
| --- | --- | --- | --- |
| inventory-service | `inventory_items` (on hand, reserved), `stock_reservations`, `stock_movements` | reserve, confirm, release, adjust | row locks taken in a loop; a counter kept beside the rows it sums up; repeats; expiry that nobody acts on; events lost after COMMIT |
| order-service | `orders`, `order_status_history`, `idempotency_keys` | create order, checkout session (two awaited requests), status update, handlers of stock and payment events | unlocked read before write; session and event handlers race for the same order; several messages after one COMMIT |
| payment-service | `payments`, `payment_events`, `webhook_events` | request payment, process webhook, synchronise status | provider called inside a transaction under an advisory lock; a status fetched before the transaction that writes it; deduplication by topic, action and resource |
| RabbitMqClient | pending requests, retry counts | publish, request, subscribe, retry, dead-letter | timeouts that race replies; reordering by retries; bounded attempts |
| cart-service | one active cart per user, lines, subtotal | get, add, update, remove, clear | read-modify-write of a quantity; subtotals computed by concurrent transactions; a clear that comes late |
| auth-service | credentials, refresh tokens | register, login, refresh | chains of statements without a transaction; check-then-revoke of a token; a registration whose event is lost |
| user-service | profiles, addresses | profile from an event, profile and address updates | one default address; an event without retry |
| notification-service | a row per event | handle event | three subscriptions to one queue; repeats are stored again |
| catalog-service | products, variants | create, update, query | an edit replaces the variants that carts refer to |
| api-gateway | none | HTTP to requests, five-second timeouts | an answer that is late is an error, the command goes on |
| web | session in memory and in storage, query cache | forms, cart, checkout, order pages that poll | one refresh shared by many requests; answers out of order; several tabs; when to stop polling |

The saga: the gateway requests `create_checkout_session`; order-service reads
the cart, inserts the order, requests `reserve_stock` (10 s), moves the order to
`PAYMENT_PENDING` and requests `request_payment` (15 s). Independently the event
`stock_reserved` moves the same order and publishes `request_payment` as well.
Payment events then confirm the order (`confirm_stock`, `clear_cart`) or cancel
it (`release_stock`).

What makes each part correct:

- inventory: reserved stock is never more than stock on hand; the counter equals
  what the pending reservations ask for; a reservation is settled once;
  movements explain the counters; no announced outcome is later contradicted;
  transactions never wait in a circle.
- order: one order per idempotency key; one final outcome, announced as it was
  decided; no payment before the inventory has answered; a confirmed order has
  an approved payment and reserved stock (the stock it need not have: section
  6).
- payment: one checkout per order; the status a row shows was announced; nothing
  is announced that was not written, nor a success that the provider did not
  approve; a webhook counts as done only after its status was applied.
- broker: a request is answered or times out; no copy of a message is lost or
  appears unaccounted; attempts are bounded; everything settles.
- saga: what the status of an order asks of the other services is done, under
  way or known to be lost, and every final status has its cause; an approved
  payment confirms its order (it does not always: section 6); the customer comes
  to see the truth.
- cart: a command does what it says unless others overlap it; one currency; the
  page shows what is served; clearing takes what was ordered.
- auth and user: a refresh token opens one session; a tab has the session of who
  signed in; a credential comes to have a profile; one default address.

## 2. The modules

| Module | Stands for |
| --- | --- |
| `StockPool` | abstract: orders claim units of several variants, all or none, and a claim is settled once |
| `Inventory` | inventory-service, one action per committed transaction, events published or lost afterwards |
| `InventoryTx` | the same transactions statement by statement, with row locks and unique keys |
| `OrderLifecycle` | abstract: an order opens, gets one final outcome, tells each consequence at most once |
| `Order` | order-service: handlers as jobs of read, write and publish steps |
| `Payment` | payment-service: handlers as jobs; Mercado Pago as the environment |
| `Topology` | the contracts' exchanges, queues, routing keys and dead letters: who listens to what |
| `Broker` | RabbitMqClient and RabbitMQ, from publication to the last copy and the end of a request; extends `Topology` |
| `Catalog` | catalog-service as a cart sees it |
| `Cart` | cart-service, statement by statement; extends `Catalog` |
| `Storefront` | browser, cart-service, catalog-service and what an order does with the cart; extends `Cart` |
| `Auth` | auth-service: credentials and refresh tokens, statement by statement |
| `Users` | user-service: profiles and addresses; extends `Auth` for the event that joins them |
| `Accounts` | a browser's tabs, the gateway's guard and both services; extends `Users` |
| `Saga` | order-, inventory- and payment-service joined by their messages, the payer at Mercado Pago |
| `Tracking` | the pages that follow an order, over `Saga` |
| `InventoryProofs`, `InventoryTxProofs`, `OrderProofs`, `PaymentProofs`, `BrokerProofs`, `StorefrontProofs`, `AccountsProofs`, `TrackingProofs` | theorems about the module each is named for and those it extends |
| `MC*` | constants for TLC |

`Inventory` and `InventoryTx` both refine `StockPool`; `Order`, in the
behaviours where transactions on one order take turns, refines `OrderLifecycle`.
Definitions that begin with a comment "mutant:" are altered versions of the
definition that follows them, one plausible bug each; nothing in the
specifications refers to them. They are there to show that a property can fail:
with the altered version in place the property named in `PROJECT.json` is
violated.

### Inventory

`itemSku`, `stockOnHand` and `reservedStock` are the rows of `inventory_items`;
`reservations[o]` is the row of an order (unique by order; the order service
never sends a reservation id, so the id is the order's); `moved[v][t]` is the
sum of the `quantity` column over the movements of one type, since rows of
`stock_movements` are only inserted; `unpublished` and `published` are events
before and after `publishEvent`. `ReserveStock` and `RefuseReservation` are the
two ways out of `reserveStock` that write, `ConfirmStockReservation`,
`ReleaseStockReservation` and `AdjustStock` the other commands. A command that
ends in an exception, or finds its work done, writes nothing and is a stuttering
step. `Lapse` is `expiresAt` passing. `LoseEvent` is the crash, or the failed
publish, between COMMIT and publish; the repeated command finds the row and
announces nothing, so the event is gone.

Requests that reach one action are whole commands: `CONSTANT Requests` is any
set of them. Two commands with one key, or for one order with different items,
are mismatches and write nothing.

### InventoryTx

Here a transaction is a sequence of statements. `Wants(w)` is the set of locks
that the next statement of `w` needs, `Granted(w)` that nobody else has them;
`held` grows until COMMIT or rollback. Reads are of committed state, so a worker
that waited for a row reads it as the other left it, and
`FindExistingReservation` may read before another reserve commits. Commands
carry lines as the caller wrote them, and `NormalizeReservationItems` merges and
sorts them. Sku, `is_active`, movements, events and expiry are left to
`Inventory`.

That `Inventory` treats a transaction as one step is what `ImplementsPool` of
`InventoryTx` is about: whatever the interleaving, what is committed follows
`StockPool`. One case deserves a word: a reserve that finds no row for a variant
has nothing to lock, so the row may be inserted before its refusal commits. The
refusal is then as if made at the time of the read; `StockPool` lets a claim be
refused at any time for this reason.

### Order

`orders[o]` is the order with its idempotency key (`cart` stands for what
`hashCheckoutRequest` tells apart); `history[o]` is `order_status_history`;
`sent[o][m]` counts publishes; `jobs[w]` is what a handler is doing. The two
steps `Read` and `Write` are the core: `Read` is the `findUnique` that decides
(early return, `ConflictException`), `Write` everything from the first UPDATE,
which locks the row, to the COMMIT. Other handlers' writes fall between them.
After the first UPDATE the handlers go on with the row it returned, which is why
`Transitions` takes both the status that was read (`job.seen`) and the current
one (`now`): a handler that read `PAYMENT_PENDING` and finds `CONFIRMED` writes
`PAID` and `CONFIRMED` again, one that finds `PAID` writes `CONFIRMED` only.
`Publish` sends one message per step and `Fail` may end the job at any step.

The environment: the inventory answers `reserve_stock` once and for all (that is
`EventsMatchRows` of `Inventory`), the events of that answer come any number of
times, and once a payment was requested payment events of every kind come in any
order. A reply to `request_payment` comes, is an error, or is late
(`PaymentError`).

`SerialSpec` restricts `Spec` to behaviours in which no two transactions on one
order are between their read and their COMMIT at once. It is no property of the
code: nothing enforces it. It separates what the handlers guarantee by their
conditions from what they leave to chance, and the run `order_overlap` shows
that the difference is real.

### Payment

`payments[o]` and `webhooks[k]` are rows of `payments` and `webhook_events`,
`ledger[o]` the rows of `payment_events` that record a status, with the payment
at the provider and how many changes it had made when it was asked. A job is one
run of `processPayment`, `processWebhook` or `syncPaymentStatus`, cut into steps
where another handler's write can fall between: waiting for the advisory lock,
each query, the call to the provider, the COMMIT, the publish. `FetchStatus`
comes before `ReadPayment`, and that before `Apply`, so a status may be
overtaken twice; `Announces` decides from the row that was read.
`CreatePaymentPreference` is inside the transaction of the lock: a job that
fails at `"insert"` leaves a checkout that no row knows of (`abandoned`), one
that fails at `"publish"` leaves a status that is never announced (`lost`).

The environment is Mercado Pago: `ProviderChanges` creates a payment for an
order that has a checkout URL, or for somebody else, and changes its status;
`ProcessWebhook` may deliver the notification of any change that has happened,
any number of times and in any order; `heard` records which notifications were
answered without an error, which Mercado Pago does not repeat. A message that is
retried or redelivered is the same job started again. `mode` is the configured
provider; `MOCK` decides at once, and approves whatever a synchronisation asks.

### Topology and Broker

`Topology` is the table that the `*.messages.ts` files of the services and
`packages/contracts/src/messages.ts` add up to; a message is known by the last
part of its routing key. `Routed` is a topic exchange, `RetryQueues` the retry
exchange.

`copies` is a bag, for the broker delivers copies and not messages. A copy goes
from `ready` to a consumer (`Deliver`), to `handled` or `failed`, and from there
through the separate sends of `handleMessage`: reply, ack; retry, ack; nack. A
process that stops (`Stop`) has sent a prefix of them, and what it had not
acknowledged is ready again: `cut` remembers where that happened to a message
that had been handled or republished.

A handler throws before it has had an effect, or after (`HandlerFails`, counted
as `spoilt`): `createCheckoutSession` rejects once it has created and cancelled
the order, `register` once the credential is stored, `refresh` once the token is
revoked, and an event handler of order-service fails at the publishes after its
COMMIT. The broker makes no difference between the two; it answers with an error
or retries. `CommitIsLast` names the handlers of the services that do nothing
after their COMMIT which can fail, read from the services themselves, and the
properties promise one effect, or none, for these only. `calls[m]` is the
promise of a request, `Timeout` its timer, which is set before the publish;
`HandleRpcReply` ignores a reply that no promise waits for. A message whose key
no queue is bound to yet is gone (`targets[m] = {}`); a request of that kind
ends by its timeout. Delivery is in no order. The broker itself does not fail.

### Catalog, Cart and Storefront

`Cart` is one customer's active cart. `cart` and `lines` are the rows, `jobs[w]`
one command with its transaction: what it read, the rows it has written and not
committed (`writes`, `currency`), and whether another writer was under way at
any time (`alone`). A read sees committed rows and the transaction's own; a
write waits for whoever has written the row (`LineFree`, `CartFree`).
`StoreSubtotal` writes the totals, reads the answer and commits. Any transaction
may be rolled back (`Abort`), and a command that has committed may be delivered
again (`Redeliver`): cart-service keeps no idempotency keys. `ideal` and `raced`
are history: the quantities that the commands which ran alone should have left,
and whether the last commit overlapped another.

`UpdateProduct` deletes the variants and inserts new ones whenever the update
names any, as each save of the administrator's form does; this assumes that in
Prisma's nested write `deleteMany` runs before `create`
(`services/catalog-service/src/catalog/catalog.service.ts:243`). A cart keeps
lines whose variant is gone, at the price of their first addition.

`Storefront` adds the browser, which shows whatever answer came last (`shown`,
`ShowAnswer`) and may stop waiting (`GiveUp`), and the order: `PlaceOrder` has
the cart read on the service's side, `CreateOrder` makes the order of that
answer, `ClearOrdered` is `clear_cart` after the payment, at any later time and
more than once. `behind` says that the last change, or an answer out of order,
left the page behind.

### Auth, Users and Accounts

`tasks[c]` is a command of auth-service, a chain of statements each of which
commits by itself. `tokens` are the rows of `refresh_tokens`; a row says which
one it was exchanged for (`from`). `Fail` ends a command after any statement,
`StopAndRedeliver` has it run again from its first one. Time is `Expire`: tokens
expire in the order they were made, access tokens first. `registered[u]` is the
event `user_registered`, lost where the command was cut off before the publish
or the handler failed, since `user.events` has neither retry nor dead letters.
`createAddress` is two statements of one transaction, of which the first does
not see what another has not committed.

`Accounts` adds tabs: `memory[t]` and `stored` are the session in the tab and in
`localStorage`, read when the tab is loaded (`Reload`) and at no other time.
`RequestRefused` is a request answered 401, which starts a refresh or joins the
one under way; `RefreshAnswered` puts the answer into memory and storage,
whatever has happened meanwhile. `GatewayTimeout`, `NetworkError` and `Reload`
leave a command running whose answer nobody hears. `meant`, `overtaken` and
`forfeit` are history: who the user signed in as, and the causes for which a
session may be another's or be refused.

### Saga and Tracking

`Saga` composes the three services over the broker. A transaction of
order-service on an order is two steps: it reads the order and decides whether
the event applies (`ReceiveEvent`, `StockReply`, `PaymentTimeout`, all by
`Begin`), and it writes its status whatever the row says by then and publishes
(`HandleEvent`, `MarkOrderPaymentPending`, `FailCheckoutSession`, all by
`Commit`). Up to `MaxOpen` are open at once, so handlers of one order, the
session and the administrator (`UpdateOrderStatus`) overlap as the unlocked
`findUnique` of `order.service.ts` lets them. `Accepts`, `LeadsTo` and
`Publications` are the table of the seven kinds of transaction. A process that
stops, or a publish that fails, leaves the messages after it unpublished
(`lost`) and brings the handler's own message again (`Publish`); a transaction
may fail before its COMMIT (`RollBack`). The handlers of inventory- and
payment-service are one step each: their locks, rows and counters are the
subject of `InventoryTx` and `Payment`.

The session (`session[o]`) awaits two replies, may time out on either, may be
told of an error, and starts again when order-service does. The inventory may
refuse; a reservation that has expired refuses its confirmation, which is
dead-lettered (`GiveUp`) and counts as lost, and so is a payment's result that
conflicts with the order (`Conflicts`). The payer may make attempts and be
rejected; a webhook may be missed at no cost (`MissWebhook`), and that of a
rejected attempt may come after the one that was approved. The mock provider
decides at once. Messages are a set: none of their handlers counts.
`preference_created` is handled like `payment_pending` and counts as such;
refunds are left to `Payment`.

`past` and `byHand` are history variables, which no guard reads: that a final
status was overwritten by another, that an administrator set the status, that an
attempt was rejected, that the session gave up. With them the properties name
the causes of what they except, or demand that a status has one.

`Tracking` adds the page that Mercado Pago returns to and the page of an order.
`poll[o]` is React Query's query, from request to answer; `sync[o]` is `POST
/payments/sync-status`. `Renders` is the effect of the order's page, which runs
when the page is rendered and not on a timer. What the page shows comes from
`GetOrder` alone.

## 3. The runs

| Run | Shows | Bounds |
| --- | --- | --- |
| `inventory` | `TypeOK`, `ReservedIsHeld`, `ReservedWithinStock`, `MovementsExplainStock`, `SoldExactlyOnce`, `EventsMatchRows`, `SettledIsFinal`, `ImplementsPool` | 2 orders, 3 commands, 3 variants, 3 units |
| `inventory_tx` | `CounterIsExact`, `ImplementsPool`, `TransactionsEnd` | 2 transactions at once, 2 variants, 2 units, 9 commands repeated without bound |
| `order` | `TypeOK`, `AnnouncedAsDecided`, `CreatedOnce`, `ConfirmedMeansApproved`, `OutcomeIsTold` | 1 order, 2 handlers at once, 4 handlers in all, 2 statuses an administrator sets |
| `order_serial` | `HistoryMovesForward`, `ImplementsLifecycle`, under `SerialSpec` | 1 order, 2 carts, 2 handlers at once, 5 in all, no administrator |
| `payment` | `PreferencesAccounted`, `AnnouncedAsRecorded`, `SucceededMeansApproved`, `AnnouncedUnlessLost`, `ProcessedMeansApplied` | 1 order, both providers, 2 attempts to pay (one of 2 statuses, one of 1), 1 foreign payment, 2 handlers at once, 3 in all |
| `broker` | `CopiesAccounted`, `GivenUpAfterRetries`, `AnsweredAsHandled`, `EverythingSettles` | 1 message of 6 kinds (2 of them with a handler that goes on after its COMMIT), 7 subscriptions, 2 retries, 1 stop |
| `storefront` | `AppliedExactly`, `OneCurrency`, `ShownIsServed`, `ClearedWasOrdered` | 1 product, saved twice with one variant each, 2 currencies, 1 order, 2 commands at once, 4 in all, quantities set to 1 or 2 |
| `accounts` | `SpentOnce`, `RecordsKept`, `SessionIsOwn`, `ExpelledForCause` | 1 user, 2 tabs, 3 commands, 1 fault, 3 addresses, 2 made at once |
| `saga` | `DebtsAreCarried` | 1 checkout, both providers, 3 transactions of order-service at once, 1 fault, an administrator who sets `CANCELLED` or `PREPARING` |
| `tracking` | `ShownForGoodIsTrue`, `SettledIsShown`, `ReturnSettles` | 1 checkout at Mercado Pago, 1 transaction at a time, 1 failed request of the browser |
| `order_overlap` | a counterexample, see section 6 | 1 order, 2 handlers at once, 4 in all |
| `saga_paid` | a counterexample, see section 6 | 1 checkout at Mercado Pago, no fault, no administrator |

Why the bounds are enough to be interesting. In `inventory` both orders want the
last units, one command reuses the other's key and names a delisted variant, and
two variants compete for one sku: every refusal, mismatch and boundary occurs,
and the theorems of section 5 lift the result to every instance. In
`inventory_tx` one command names the variants in the opposite order to another
and one of them twice, so that without the sort, the locks or the unique indexes
the properties fail. Two transactions suffice for a cycle of two; longer cycles
need three variants and are excluded by the same order. In `order` no handler
relates two orders, so one is enough; two handlers are the fewest that overlap,
and four jobs allow a session, the event it races with and two payment events.
In `payment` three jobs are a request and two others that overlap, or three
requests; two attempts make the latest one differ from the one a webhook names,
and the foreign payment has its own way through `RejectStatus`.

In `broker` two messages never meet but in a consumer that stops, so one is
enough; its kinds have a queue with retries and dead letters and one without, a
queue that two subscriptions share, and a service with several retry queues,
published and requested. With two retries the first, the last and the one too
many differ. A second stop adds states and no case: what a stop leaves is a
ready copy with the same count of retries. In `storefront` the second save has
another price, currency and variant, which is what can go wrong between a
catalogue and a cart; four commands are an addition, the order's reading, an
edit and a clear, or two overlapping changes with a later one that meets what
they left. In `accounts` three commands are a sign-in and two refreshes, or a
registration that competes with a sign-in; two tabs are the fewest that share a
storage. The order in which the browser's part and the records' part are
explored is restricted as `Next` says, since they share the user and the event
only. In `saga` no handler relates two checkouts. Three transactions at once are
one more than the two it takes to overwrite a status, so that a third can meet
what they left; `MaxFaults` bounds crashes, failed publishes and rollbacks, not
timeouts, late replies, refusals or missed webhooks, which are free. The
administrator's two statuses are one that is final for order-service and one
that is not, so that later events conflict with it. Without an administrator it
was also checked with two faults and four transactions. What `Tracking` adds to
`Saga` reads it and never constrains it (`PagesFollowTheSaga` of section 5), so
`tracking` needs the saga's outcomes and not all of its crossings: it has no
faults of the services, for liveness, and one failing request (`MaxFailures`),
since a second one meets a page that has recovered from the first or one that
asks no more. There nothing changes a settled order; `ShownForGoodIsTrue` was
also checked with the mock provider, two transactions at once and an
administrator who sets `PREPARING`, and is a theorem for all of it.

Workers, tabs and writers are interchangeable and declared symmetric in
`payment`, `storefront` and `accounts`, where every property is an invariant or
speaks of single steps. `CHECK_DEADLOCK FALSE` is given where the system may
rest: once all orders are settled, the jobs, commands or stops of the bounds are
used up, or every message has settled. `InventoryTx` is checked for deadlock.

### Fairness

- `InventoryTx`: strong fairness of each worker's next statement. A statement
  that waits for a lock is enabled each time the lock is free; PostgreSQL queues
  the waiters of a row, so one is not passed over for ever. Weak fairness would
  allow that. Nothing is assumed of commands arriving or transactions failing.
- `Order`: weak fairness of the next step of each running job: Node's event
  loop, the database and the broker let every handler go on. A handler may still
  end at any step (`Fail`); `unsaid` records where it ended with messages
  unsent, since no event that is delivered again makes up for them.
- `Broker`: weak fairness of `Progress`: a service that is down is started again
  (the restart policy of `docker-compose.yml:6`), the broker delivers what is
  ready, a handler ends one way or the other, the timers of requests and of
  retry queues fire. Publications and stops owe nobody anything. Handlers may
  fail each time.
- `Tracking`: weak fairness of each order's services as a whole (`Service`), so
  that what is queued is handled, and of each request of an open page: the
  polling interval fires and requests end. Not of what people do (paying,
  returning, leaving the page), nor of restarts, rollbacks, requests that fail
  or webhooks that are missed.

## 4. Action properties, refinement, type invariants

`SettledIsFinal` says what no step of `Inventory` may do, `ClearedWasOrdered`
what no step of the cart, `ExpelledForCause` what no step of a tab. `TypeOK` of
`Inventory` includes that no counter leaves the range that the CHECK constraints
of the migration allow. `Inventory!ImplementsPool` maps counters and rows to
claims, the number of reserved units being counted instead of stored: the heart
of its proof is that the counter is exact. `TypeOK` of `Order` says the same of
rows, histories and jobs. The other modules have no type invariant that a run
checks: their other properties would fail first. Their proofs have one, `Typed`
or `TypeOK`, as the first conjunct of `IInv`.

Definitions that are conditional say when: `AppliedExactly` and `OneCurrency`
are about transactions that did not overlap, because overlapping ones do lose an
addition and mix currencies (section 6); `SpentOnce` names the refreshes that
overlapped, `CopiesAccounted` the stops and the handlers whose COMMIT is not
their last act, `DebtsAreCarried` the messages that were lost and the statuses
that an administrator set, `ShownForGoodIsTrue` the orders that were changed by
hand or overwritten. What each condition excludes does occur in the run, but for
the last, where `tracking` shows the page and the order equal without exception.

## 5. What is proved

Every invariant, action property and refinement that a run checks is also a
theorem, proved for every value of the constants: any number of orders, users,
tabs, messages, handlers at once and handlers in all, retries, stops, faults and
units. Each proof rests on an inductive invariant `IInv` at the head of its
module, with the lemmas that the initial states satisfy it and every step keeps
it, one lemma per action or group of actions that do the same to it. No
property below is inductive alone; the paragraphs say what had to be added.

| Module | Theorem | States |
| --- | --- | --- |
| `InventoryProofs` | `TypeCorrect` | `Spec => []TypeOK` |
| | `ReservedCounterIsExact` | `Spec => []ReservedIsHeld` |
| | `NeverOversold` | `Spec => []ReservedWithinStock` |
| | `AuditTrailComplete` | `Spec => []MovementsExplainStock` |
| | `ConfirmedExactlyOnce` | `Spec => []SoldExactlyOnce` |
| | `EventsTellTheTruth` | `Spec => []EventsMatchRows` |
| | `SettledStaysSettled` | `Spec => SettledIsFinal` |
| | `InventoryImplementsPool` | `Spec => ImplementsPool` |
| `InventoryTxProofs` | `CounterAlwaysExact` | `Spec => []CounterIsExact` |
| | `TransactionsImplementPool` | `Spec => ImplementsPool` |
| `OrderProofs` | `TypeIsKept` | `Spec => []TypeOK` |
| | `NothingIsToldTwice` | `Spec => []AnnouncedAsDecided` |
| | `OneOrderPerKey` | `Spec => []CreatedOnce`, if no administrator sets `PENDING` |
| | `NoneConfirmedUnpaid` | `Spec => []ConfirmedMeansApproved`, if no administrator sets `CONFIRMED` |
| | `SagaRunsForward` | `SerialSpec => []HistoryMovesForward`, without administrators |
| | `SettledOnceInTurn` | `SerialSpec`, likewise: `confirm_stock`, `clear_cart` and `release_stock` go out at most once |
| | `SagaImplementsLifecycle` | `SerialSpec => ImplementsLifecycle`, likewise |
| `PaymentProofs` | `OneCheckoutPerOrder` | `Spec => []PreferencesAccounted` |
| | `NothingIsAnnouncedTwice` | `Spec => []AnnouncedAsRecorded` |
| | `SuccessIsTheProviders` | `Spec => []SucceededMeansApproved` |
| | `ShownIsAnnounced` | `Spec => []AnnouncedUnlessLost` |
| | `ProcessedWasApplied` | `Spec => []ProcessedMeansApplied` |
| `BrokerProofs` | `NoCopyIsLost` | `Spec => []CopiesAccounted` |
| | `RetriesAreExact` | `Spec => []GivenUpAfterRetries` |
| | `AnswersAreTrue` | `Spec => []AnsweredAsHandled` |
| `StorefrontProofs` | `LoneCommandsAreExact` | `Spec => []AppliedExactly` |
| | `PricesAreInOneCurrency` | `Spec => []OneCurrency` |
| | `PageShowsTheCart` | `Spec => []ShownIsServed` |
| | `ClearedCartsWereOrdered` | `Spec => ClearedWasOrdered` |
| `AccountsProofs` | `TokensAreSpentOnce` | `Spec => []SpentOnce` |
| | `RecordsAreKept` | `Spec => []RecordsKept` |
| | `SessionsAreOnesOwn` | `Spec => []SessionIsOwn` |
| | `NobodyExpelledForNothing` | `Spec => ExpelledForCause` |
| `TrackingProofs` | `DisagreementsAreCarried` | `SagaSpec => []DebtsAreCarried` |
| | `PagesFollowTheSaga` | `Spec => SagaSpec` |
| | `WhatIsShownForGoodIsTrue` | `Spec => []ShownForGoodIsTrue` |

### From which assumptions

Most assumptions give constants their types and say that bounds are natural
numbers (`QuantityAssumption`, `CommandsAssumption`, `RequestsAssumption`,
`CatalogAssumption`, `AuthAssumption`, `SagaAssumption`), that orders or
handlers are finitely many where they are counted (`OrdersAssumption` of
`Inventory` and `InventoryTx`, `OrderAssumption`), and that names which stand
for nothing or for another actor are not those of something (`NullAssumption`,
`ReferenceAssumption`, `CartAssumption`, `OrdersAssumption` of `Storefront`).
`AccountsAssumption` says which callers a tab has; `BrokerAssumption` that the
subscriptions are among those of `Topology`. One says more:
`NormalizedAssumption` of `InventoryTx`, that merging and sorting the lines of a
command yields at least one line and none of a variant twice. What
`NormalizeReservationItems` computes for every sequence is induction over its
lines, so TLC evaluates the assumption on the commands of the run. That a merged
line is within `MaxQuantity` is the bound of the model, as it is for lines that
were sent. The proofs about safety do not use that lines are sorted: the order
of the locks matters for `TransactionsEnd` alone.

### By which argument

`InventoryProofs`. `IInv` is the conjunction of the six invariants. That
`reserved_stock` stays exact needs that a release meets no clamp
(`ReleaseMeetsNoClamp`), which needs that the counter is at least what the
released row asks for, which is exactness again, of the state before; that it
stays within its type needs that it is within stock; that movements explain the
counters needs the exact effect of a release; and an event stays true because
statuses move only forward. The arithmetic of counting is in lemmas about the
set of units of an order (`UnitsOfOrder`, `AddUnits`, `RemoveUnits`): a row that
enters or leaves a status changes the cardinality by its quantity (`RowEnters`,
`RowLeaves`). For the refinement, `HeldIsPending` and `PoolCardinality` identify
what `StockPool` counts with what `Inventory` stores.

`InventoryTxProofs`. A lock has one holder (`Exclusive`), and what a transaction
knows of the rows it has locked is still so at its COMMIT: a reserve, that each
line it has read is covered or that it has come up short; a confirm or a
release, that the reservation is `PENDING` and whose units it is to take; an
adjustment, the stock on hand it read (`ReserveInv`, `SettleInv`, `AdjustInv`).
`OthersKeepTxInv` is the reason for the locks: another's COMMIT writes only rows
it holds. What is committed is then exact (`Counted`, `WithinStock`). For the
refinement every statement but the COMMIT is a stuttering step, and each COMMIT
is one action of `StockPool`, `Claim` or `Refuse`, `Sell`, `GiveBack`,
`Restock`; the first two come out of one COMMIT, by what was found short.

`OrderProofs`. A settling message has a decision behind it because the number of
times it was sent, together with the handlers about to send it, is at most the
number of rows of its status in the history (`ToldInv`): the COMMIT that adds
the row is what makes one more handler a teller. Without turns no more holds,
and section 6 shows what fails. `SInv` adds what turns give: the status that a
transaction has read is still the order's (`Fits`), hence the history is a chain
of forward moves that ends in the current status. The administrator is excluded
where the statement names it, because his `PATCH` sets any status; his steps are
part of `Spec` in the other theorems.

`PaymentProofs`. The advisory lock gives one request at a time between its
SELECT and its COMMIT, with no row of the order in between (`Locked`); checkouts
are counted against the row and the one request that may be inserting
(`PrefsInv`), events against the ledger (`RecordedInv`). A job carries what it
has learnt (`Found`, `Notified`, `Informed`): that what it fetched is at least
as new as the change its webhook names, that an approval it holds did happen,
that the event for the status it read was announced, is being announced or is
known to be lost.

`BrokerProofs`. A message in a queue is in one copy whose stage agrees with the
counters of attempts, or has ended once (`OneCopy`, `OneEnd`), unless a stop cut
it; cut or not, it lives or has ended (`SlotInv`). What a caller hears was said
by a handler that ended so (`AnswerInv`). An effect before a failure is one of
the failures counted, and there is none where the COMMIT comes last
(`SpoiltTold`), so what a request or such a handler has done follows from how it
ended. `AllDeclare` reads off the table of
`Topology` what is needed of it: retry keys belong to one subscription each and
are no message's type, so a retry comes back to the queue it left and no other
(`RetryReturns`). `BagCardinality` sums up a bag by recursion; that the sum
exists is proved by induction over its size, and the induction itself from the
library's facts about cardinalities (`Induction`), since the library's own
induction theorem takes an operator. `IInv` was model-checked with two stops
before it was proved.

`StorefrontProofs`. A transaction that has written the cart's row holds it
(`CartHeld`), and one that has been alone knows the lines, the currency and the
sum it will store (`JobInv`). The answers on their way to the page, and the one
it shows, are numbered: from some number on they are the cart that is served,
and unless the page is behind there is such an answer (`ShownInv`). What an
order has read is untouched or gone until the customer changes it (`Kept`).

`AccountsProofs`. A token that is not `doubled` is spent by one refresh at a
time and has at most one successor (`SpentInv`). A user with a credential has a
profile, an event under way, or has lost it (`ProfileInv`). A tab's session and
its refresh belong to who it is meant for (`SessionInv`). For `ExpelledForCause`
a token that is not forfeit is with one tab only, and is revoked only while that
tab's own refresh is about to replace it (`FreshInv`, `LineageInv`).

`TrackingProofs`. One invariant per order (`SagaInv`): a status that no handler
writes is an administrator's (`Own`); what is told to order-service, or being
handled there, has happened (`Told`); and the debts of a confirmed, a cancelled
and an open order are carried (`Confirmed`, `Cancelled`, `Open`). Stronger than
the property are `Told`, whose claims count the open transactions as well as the
messages, so that the write, whenever it comes, has its cause; and `Cancelled`,
where an order that holds no reservation yet owes the release of the one it may
come to have, since nothing in the order's row says that `reserve_stock` has
been handled (an administrator may have moved it past that). A message never
disappears but into a transaction, a repetition or the lost ones
(`PublishLeaves`, `FinishLeaves`). A step that leaves an order's rows alone and
its messages at least as owed keeps the invariant (`PassingKeeps`), a commit
does whatever the row has become (`CommitKeeps`), and a step of one order
disturbs no other (`OthersKeep`). For the pages, `PagesFollowTheSaga` maps every
step to one of `SagaSpec` or none; a final status that is shown, or on its way
to a page, is then the order's until one of the two causes is noted.

### Only model-checked

Liveness: `TransactionsEnd` of `InventoryTx`, `OutcomeIsTold` of `Order`,
`EverythingSettles` of `Broker`, `SettledIsShown` and `ReturnSettles` of
`Tracking`. They need fairness and `ENABLED`, which the prover does not treat;
that transactions do not deadlock is among them. So is what
`NormalizeReservationItems` computes, as said above. The findings of section 6
are counterexamples and need no proof.

## 6. Findings

- Run `order_overlap`. Handlers of payment events that overlap both read an open
  order; the second moves a `CONFIRMED` order through `PAID` to `CONFIRMED`
  again and sends `confirm_stock` and `clear_cart` again, or cancels it and
  sends `release_stock`. `docs/event-driven-flow.md:72` calls final event
  handling idempotent. Inventory survives the repetition (`SoldExactlyOnce`);
  the cart does not if it was filled again.
- Run `saga_paid`. A rejected attempt cancels the order and gives its stock
  back, while the checkout at Mercado Pago stays open. A second attempt that is
  approved makes the payment's row `APPROVED` and publishes `payment_succeeded`,
  which the `CANCELLED` order ignores: a paid order that nobody ships, with
  nothing under way or lost and no fault. `docs/payment-flow.md:89` says that an
  approved payment moves its order to `PAID` and `CONFIRMED`. With the mock
  provider the same happens where the reply to the request for payment is late
  and the session gives up before the approval is handled.

What the models show without a run of its own, because a property names it as
its condition, because it is the plain reading of a step, or because no document
says otherwise (where one does, it is quoted):

- order-service: the session ignores the reservation it gets back
  (`services/order-service/src/order/order.service.ts:193`): when the inventory
  refuses, it still asks for the payment (`StockReply` of `Saga` does not look
  at the reservation), and where that overtakes `stock_reservation_failed` an
  order without stock is confirmed; its `confirm_stock` becomes a dead letter,
  as `DebtsAreCarried` says. `docs/event-driven-flow.md:44` has the payment
  requested on `stock_reserved`.
- payment-service: all `payment.updated` notifications of one payment have one
  deduplication key
  (`services/payment-service/src/payment/payment.service.ts:575`). Once the
  first was processed, the next is answered `{ ignored: true }` and its status
  is not fetched: a refund that follows an approval is not recorded, against
  `docs/payment-flow.md:93`, and an approval that follows another update waits
  for a synchronisation.
- payment-service: a status that was fetched earlier overwrites a newer one
  (`services/payment-service/src/payment/payment.service.ts:315`). An event
  whose publish fails after the COMMIT is not sent by the redelivered webhook,
  which finds its row `PROCESSED`, nor by a synchronisation, which finds the
  status unchanged. Two deliveries of one webhook that overlap both find it
  unprocessed, each writes the status and publishes `payment_succeeded`
  (`:188`), although `docs/payment-flow.md:81` says that "duplicate webhooks
  return the previously stored payment state instead of creating duplicate
  payment events"; `AnnouncedAsRecorded` counts each with its own row. The
  webhook of a rejected attempt that comes late sets the row of an approved
  payment to `REJECTED`, while its order stays `CONFIRMED`.
- order-service: `failCheckoutSession` reads the order without a lock, so one
  that overlaps `payment_succeeded` cancels an order that is paid
  (`services/order-service/src/order/order.service.ts:750`). An administrator
  who sets `CANCELLED` gives no stock back (`:256`): `DebtsAreCarried` excepts
  the status they set.
- handlers that throw after their COMMIT, which `CommitIsLast` keeps apart:
  `createCheckoutSession` rejects after the order was created and cancelled
  (`services/order-service/src/order/order.service.ts:208`), `register` and
  `refresh` after the credential was stored or the token revoked
  (`services/auth-service/src/auth/auth.service.ts:39`, `:95`), and the handlers
  of events after their row was written
  (`services/order-service/src/order/order.service.ts:383`,
  `services/payment-service/src/payment/payment.service.ts:357`). The caller is
  told of an error, or the event is retried
  (`packages/shared/src/rabbitmq.ts:247`), as if nothing had been done; what the
  services' own checks make of the repetition is the subject of `Order`,
  `Payment`, `Inventory` and `Accounts`.
- cart-service: two additions of one variant at once lose one, and the subtotal
  is wrong until the next command (`raced`); `add_item` delivered again adds
  twice (`services/cart-service/src/cart/cart.service.ts:47`); `clear_cart`
  takes changes made since the order (`touched`).
- auth-service: two refreshes with one token at once both get a session
  (`doubled`); a registration cut off before its publish leaves a user without
  profile, for good (`lost`). user-service: two default addresses made at once
  stay both (`crossed`).
- web: a refresh that was under way when the user signed out signs the user in
  again (`overtaken`; `apps/web/src/shared/api/client.ts:96`). Tabs do not learn
  of each other's refreshes: the second tab presents a token that has been
  revoked and is signed out (`forfeit`). A gateway timeout or a server error
  ends the session as a refusal does. The order page asks for a synchronisation
  when it is rendered, not every 15 s: after a failed one nothing asks again
  until something else changes (`faults + failures > 0` in `ReturnSettles`). A
  page that shows a final status is not polled again, so it goes on showing
  `CONFIRMED` when an administrator moves the order to `PREPARING`, or a handler
  that overlapped cancels it (`Reopened` in `ShownForGoodIsTrue`;
  `apps/web/src/features/account/account-hooks.ts:58`).

## 7. Not modelled, and why

- `stock_adjusted`, `stock_confirmed` and `stock_released` have no consumer; the
  last two are in `Inventory` because they announce outcomes, the first repeats
  a movement. `order_status_changed`, `webhook_received` and `webhook_processed`
  have none either.
- Prices (but for the cart's), order numbers, names, pictures, logging, metrics
  and read-only queries are abstracted away. In `Order` and `Payment`
  `CANCELLED` and `EXPIRED` payments count as `REJECTED` (their handling is the
  same), the provider's words for an undecided payment as `PENDING`.
- 32-bit overflow of stock and money columns: the database refuses such a value,
  which writes nothing.
- notification-service: its subscriptions are in `Topology` and `Broker`; the
  text of a notification is read by nobody.
- catalog-service: categories, lists, filters and the seed are queries, or
  writes that no other service depends on.
- api-gateway: it keeps no state; guards, checks and timeouts are in the actions
  that send commands. Rate limits and the shape of errors are left out.
- web: layout, catalogue pages, the list of orders and the administrator's lists
  are left out; they keep nothing between requests but a cache of what they
  show.
- Password hashing and the signing of tokens are library calls.
- infrastructure: deployment descriptions, dashboards and scripts, outside of
  the protocols.

## 8. Plan

1. Done: `StockPool`, `Inventory`, `InventoryProofs`, `InventoryTx`,
   `OrderLifecycle`, `Order`, `Payment`.
2. Done: `Topology` and `Broker`; `Catalog`, `Cart` and `Storefront`; `Auth`,
   `Users` and `Accounts`; `Saga` and `Tracking`.
3. Done: every safety property, action property and refinement that a run
   checks, as a theorem (section 5).
4. Left: that `NormalizeReservationItems` returns normal lines, from the
   induction over finite sets in `BrokerProofs`, so that `NormalizedAssumption`
   becomes a theorem; that the steps of `Order`, `Inventory` and `Payment` are
   those that `Saga` composes.
