# A TLA+ model of Opoha Core

Opoha Core is a headless commerce engine: NestJS services over PostgreSQL
(TypeORM), one process or several behind a load balancer. This directory holds
TLA+ specifications of its services, the TLC instances that check them, and TLAPS
proofs, for every value of the constants, of the safety properties those instances
check.

All source paths below are relative to `src/src/modules/`.

## 1. How the code behaves, and how the models say it

Four facts about the code shape every module here.

* **A locked transaction** (`dataSource.transaction` with
  `setLock('pessimistic_write')` on every row it reads) is serialised by
  PostgreSQL. Inventory, stock transfers, gift card and loyalty redemption, and the
  transitions of fulfillments and returns work this way. Such a transaction may be
  one atomic action; `InventoryTx` justifies that instead of assuming it, and
  `Supply` takes its one transaction apart for the same reason.
* **Everything else is a sequence of single statements.** Between two of them any
  other request may run. `repository.save(entity)` compares the entity with the
  row as it is now and writes every column that differs: a stale entity
  overwrites newer columns, and a row deleted meanwhile is inserted again.
  `repository.update(id, {column})` writes only the column named, and silently
  misses a deleted row. Where that matters each statement is a step, and what a
  request has read is kept in a record of the call (`request[p]`, `call[c]`,
  `subCall[c]`, `move[k]`, ...). A request of record keeping that is one check and
  one write, protected by a unique index or read by nobody else, is one action.
* **A process may stop between any two statements** (`Die`, `...Dies`, `Crash`,
  `Restart`). What was committed stays, what a call held is gone, and nothing
  resumes it but a client's new request.
* **Domain events** are published in the process, after the commit, one listener
  awaited after the other (`EventBus`); a failing listener is logged. Where a
  listener changes state it is part of the call that publishes: the accrual of
  points in `Payments`, the search index in `Products`, the links and settings of a
  new store in `Locations`, the dispatch of webhooks in `Deliveries`.

## 2. Inventory of the system

| component | state | operations | hard behaviour | what makes it correct | here |
|---|---|---|---|---|---|
| inventory (`inventory/`) | items (on hand, reserved) per variant and warehouse, reservations, adjustments, transfers | create, adjust, reserve, reserveForStore, release, commit; transfer create, ship, receive, cancel | concurrent transactions, insert races, lock order, crash in a transaction | counters equal the rows they summarise; reserved stock is on hand; books balance; transfers conserve stock; serialisable | `Inventory`, `InventoryTx`; proofs `InventoryProofs`, `InventoryTxProofs` |
| cart, checkout, orders (`order/`) | cart, lines, orders, order lines | addLine, updateLine, removeLine, set*, selectShipping, prepare, placeOrder, updateStatus | statement-level interleaving, stale saves, partial failure, double submission | orders are paid in full, deduct what they order, never share stock | `Checkout`, `CheckoutProofs` |
| payment engine (`payment-engine/`), loyalty (`loyalty/`) | payments, webhook events; account and ledger | authorize, capture, refund, processWebhook; accrue, redeem | provider call between read and save; lost answers; duplicated, overtaking webhooks; two accruals of one order | the books say only what the provider did; one key, one charge; points only for captured money | `Payments`, `Loyalty`, `PaymentLedger`, `PaymentsProofs` |
| fulfillment (`fulfillment/`) | fulfillments, lines, packages | create, pick, pack, ship, label, cancel | allocation check outside the transaction; label before the lock | an order that is all shipped is fulfilled | `Fulfillment` (its row locks in `InventoryTx`) |
| returns (`returns/`) | returns, lines | create, approve, receive, completeRefund, completeExchange, cancel | check outside the transaction; refund before the status is saved | restocked once, exchanged once, refunded only if money went back | `Returns`, `ReturnsProofs` (also for fulfillment) |
| webhooks out (`webhooks/`) | endpoints, delivery rows | create, update, remove, dispatch, processDue | workers without a claim, retries, dead letters, removed endpoints | outcomes are true; no more requests than allowed | `Deliveries`, `DeliveriesProofs` |
| subscriptions (`subscriptions/`) | plans, subscriptions, charges | create, subscribe, cancel, renew | stale saves around a charge | the schedule moves only over paid periods | `Subscriptions`, `SubscriptionsProofs` |
| B2B (`b2b/`, orders of companies) | companies, members, prices, quotes, draft orders | administration; quote moves, conversion, approval, confirmation, `updateStatus` | conversion in several statements, retried confirmation, moves that ask for neither approval nor payment | converted things have their order; an order that was not moved by hand is confirmed only when paid | `Companies` |
| catalog (`catalog/`), search (`search-engine/`) | categories, brands, collections, products, variants, attributes, media | create, update, remove; index | cycle check by walking up; events that overtake each other | a cycle needs two racing moves; search finds what is sold | `Taxonomy`, `Products` |
| auth (`auth/`) | users, roles, grants, API keys, refresh tokens | seed, login, rotate, logout, administration | a seed cut off and repeated; delete-then-insert of grants | the seed leaves the admin role complete | `Accounts` |
| supply (`supply/`) | suppliers, purchase orders | create, update, receive, cancel | receive over many rows, racing adjust | stock is explained by what was credited and adjusted | `Supply` |
| stores, warehouses (`stores/`, `warehouses/`) | rows with default and primary flags, links, settings | create, update, remove, link, unlink | demote-then-promote, listeners of a new store | the default is kept | `Locations` |
| event bus (`event-bus/`) | listeners | subscribe, unsubscribe, publish | the array changes while it is iterated | steady listeners hear each event once | `EventBus` |
| plugins (`plugin-loader/`), jobs (`jobs/`) | records in memory, rows, contributions, schedules | install, enable, disable, updateConfig, bootstrap; define, trigger | hooks that fail or wait, jobs registered and updated without an await, whole rows saved back, restart | a disabled plugin is silent; the queue follows the registry | `Plugins` |
| promotions, tax, shipping, currency | rules, coupons, segments, rates | administration; the quote of `prepare` | caps, rounding, rows read one after another | a quote adds up and is never negative | `Pricing` |
| digital goods (`digital/`), gift cards (`gift-cards/`) | tokens, licences; cards and ledger | issueForOrder; issue, purchase, redeem | several statements without a transaction, retried | every grant is explained, none issued twice by a retry | `Grants`, redemption also in `Checkout` |
| customers, vendors, rules, localization, admin bulk, files, notifications, config, health, telemetry | records | CRUD, I/O | unique keys only | - | not modelled |

The proofs about the modules of the rows below subscriptions, from B2B to digital
goods, are the sections of `BackofficeProofs`.

Interactions: `CheckoutService.prepare` calls inventory (release,
reserveForStore), the pricing engines and the wallets' quotes;
`OrdersService.placeOrder` calls the wallets, the payment engine, inventory
(commit), the cart and the digital module; fulfillment, returns, transfers and
purchase orders all meet the cart in the rows of `inventory_items`; returns and
subscriptions call the payment engine; captures reach loyalty, product changes
reach search, and every event reaches the outgoing webhooks through the event bus.

## 3. The modules

    Inventory  <--implements--  InventoryTx          Loyalty
        ^                                               ^
        | EXTENDS                                       | EXTENDS
    Checkout                                        Payments --implements--> PaymentLedger

    Fulfillment <--EXTENDS-- Returns                Deliveries

    Subscriptions  Companies  Taxonomy  Products  Accounts  Supply
    Locations  EventBus  Plugins  Pricing  Grants      (composed in MCBackoffice)

    InventoryProofs  <--EXTENDS--  InventoryTxProofs (with InventoryTx)
                     <--EXTENDS--  CheckoutProofs (with Checkout)
    PaymentsProofs  ReturnsProofs  DeliveriesProofs  SubscriptionsProofs
    BackofficeProofs (a section for each other module of the back office)

### Inventory

The abstract specification of stock: one action per service method, each a whole
transaction. `rows`, `onHand` and `reserved` are `inventory_items`;
`reservations`, `transfers` and `adjustments` are the tables of these names
(adjustments are summed per item and kind); `opening` is a history variable, the
quantity a row was created with, because no table records it. A check that throws
is a guard, since the exception rolls everything back. `MaxInt` stands for the
width of the integer columns: a write beyond it fails.

### InventoryTx

The same methods as transactions: BEGIN (`Start`), a row lock at a time
(`LockOwnRow`, `LockItem`), the insert of a missing item (`MissItem`,
`InsertItem`), checks on the copy that was read (`Use`), and COMMIT (`Finish`) or
rollback (`Refuse`, `LoseConnection`, `BreakDeadlock`). PostgreSQL's part (a lock
is granted when nobody else holds the row; the detector breaks circles) is
external to the repository. `FulfillmentService.ship`, which locks inventory rows
but changes none, takes part with its locks. `ImplementsInventory` is the
specification of `Inventory`: the tables are the variables of both modules, so the
refinement mapping is the identity and every step but `Finish` and `Insert` is a
stutter.

### Checkout

One cart, in steps of one statement. It extends `Inventory`, whose actions
`Reserve`, `Release` and `Commit` are its stock operations.

| code | actions |
|---|---|
| `CheckoutService.prepare` | `ReadCart`, `PrepareReadLines`, `PrepareRelease` / `PrepareClear` per old reservation, `PreparePick` / `PrepareReserve` per physical line, `PrepareRollback`, `PrepareAttach`, `PrepareQuote`, `PrepareLock` |
| `OrdersService.placeOrder` | `ReadCart`, `PlaceReadLines`, `PlaceQuoteGift`, `PlaceQuotePoints`, `PlaceInsert`, `PlaceRedeemGift`, `PlaceRedeemPoints`, `PlacePay`, `PlaceCommit` per line, `PlaceConvert`, `ReadStatus`, `SaveStatus` |
| `OrdersService.updateStatus` | `AdminStart`, `ReadStatus`, `SaveStatus` |
| `CartService.addLine`, `updateLine`, `removeLine` | `EditAddStart`, `EditFindLine`, `EditReadLine`, `EditRequireOpen`, `EditWrite` |
| `CartService.set*`, `selectShipping`, `clearShipping` | `SelectRead`, `SelectSave` |
| a crash, a lost database | `Die` |

Abstractions: a unit costs 1, promotions, taxes and shipping add nothing (what
they do is `Pricing`'s); the payment engine takes the amount or fails; the order
and its lines, inserted by consecutive statements no property tells apart, are one
step. `orders[p]` carries what the wallets, the payment and the commits did for the
order (`giftDebit`, `pointsDebit`, `payment`, `consumed`), which the code keeps in
the transaction tables of those modules.

### Payments, Loyalty and PaymentLedger

`payment` and `events` are the tables of payments and webhook events, `charge` and
`notices` the provider's side, `account` and `accruals` the loyalty tables. A call
is taken apart where it reads, asks and saves:

| code | actions |
|---|---|
| `PaymentEngine.authorize` | `Lookup`, `Insert`, `Ask`, `Save` |
| `capture`, `refund` | `Read`, `Ask`, `Save` |
| `processWebhook`, `applyWebhookAction` | `CheckEvent`, `Find`, then the method's steps or `Mark`, `Record` |
| `LoyaltyAccrualListener`, `LoyaltyService.accrue` | `Accrue`, `CreditLocked`, `CreditOpened` |
| `LoyaltyService.redeem` | `RedeemPoints` |
| the provider | `Ask` (its answer, which may be lost), `Settle` (what it decides later), `notices` (webhooks, never lost from the set: a late, repeated or missing one is a call that starts late, again, or never) |

A payment is identified by its idempotency key. `PaymentLedger` is the abstract
specification: the books (`shown`) and the facts (`happened`); `Payments` implements
it with `shown` the status of each row and `happened` what the charge has been
through. The books may lag or step back to an earlier fact, as rows are saved
without a version; they never show what did not happen.

### Fulfillment and Returns

One order's documents. `Fulfillment` has `create` (`CreateRead`, which reads what is
shipped and what is open, and the insert), `pick`, `pack`, `cancel` (locked
transactions, one step each), labels bought from the carrier before `ship`'s
transaction, and the order's completion after it. `Returns` adds `create`, `approve`,
`cancel`, `receive` (status first, then one stock adjustment per line), `completeRefund`
(the engine's refund, which asks the provider only if it reads the payment as captured
and hands back one that is refunded already; then the status) and `completeExchange`.
`lost` is a history variable: work that a crash cut off after its commit.

### Deliveries

`endpoint` and `row` are the webhook tables, `dispatch[e]` the dispatcher's run for an
event, `worker[w]` a call of `processDue` with the rows it read. `posts` and
`accepted` are the receiver's side. Removing an endpoint cascades to its rows, and
a save of such a row fails on the foreign key. Faults are counted by `MaxFaults`.
Two history variables: `shared` has the deliveries of which two workers held copies at
a time, `uncounted` counts for each the requests whose outcome a crash or a failed save
lost.

Who calls `processDue` is left open: nothing in the repository does but the dispatcher,
after each dispatch, with `setAutoDeliver`, which is for development and tests. So any
number of calls may run, or none.

### The back office: eleven modules that share no state

Each keeps its tables as variables, its calls under way as records with what they
have read, and one action per statement where statements of two calls may mix, per
request where a request is one write. Administration that nothing else reads is there so
that the operations are complete; what is taken apart is listed here.

| module | taken apart into statements | what is abstracted |
|---|---|---|
| `Subscriptions` | `cancel` (`CancelReadSub`, `CancelSaveSub`), `renew` (`RenewRead`, `RenewAuthorize`, `RenewCapture`, `RenewAdvance` or `RenewPastDue`) | dates are counted in periods; the payment engine is what `PaymentLedger` promises |
| `Companies` | `updateStatus` (the order read and checked, then saved); conversion of a quote or a company's cart (`ConvertRead`, `InsertDraft`, `SaveDraftLines`, `MarkConverted` / `ConvertCart`), quote transitions, `confirmB2bOrder` (`ConfirmRead` to `ConfirmCaptured`, `TransitionStatusRead`, `TransitionStatusSave`) | an order's total is within the company's limit or not |
| `Taxonomy` | the update of a category: read, walk up one ancestor per step, save | names; brands and collections are their slugs |
| `Products` | create, update, remove: row, second read, event, index | attributes and media are present or not |
| `Accounts` | the seed, the replacement of a role's grants, the rotation of a refresh token | hashes, signatures, clocks (`Expire`) |
| `Supply` | `receive`: BEGIN, the order's lock, one item's lock after another, COMMIT | a line is one unit |
| `Locations` | update and remove (read, then write), the demotion of the old default, the two listeners of a new store | addresses |
| `EventBus` | one step per awaited listener; `subscribe` appends in place, `unsubscribe` replaces the array | one event name |
| `Plugins` | enable, disable with their hooks, the row, the unawaited registration and update of jobs, `updateConfig` (`UpdateConfig` reads the row, `SaveConfig` saves it all), the bootstrap after a restart | what a plugin contributes is one thing, active or not |
| `Pricing` | the quote: coupon, rules one by one, tax, gift card, points, currency, rate | a rule, coupon or rate is a member of a small set |
| `Grants` | `issueForLine` (look up tokens, look up licences, save each), `purchase` (issue, mark the card, mark the entry) | a token is a unit of a line |

`Pricing` leaves out a coupon's cap on uses: the code compares it with `usage_count`,
which nothing ever raises, so the check never refuses.

### Written to be reasoned about

Sums over rows (`UnitsIn` of `Inventory`, `SumOf` of `Checkout`) are the cardinality
of a set of units, one for each unit of each row: the prover knows cardinalities and
no recursive sums. What a loop has left to do is a set, visited in the order of
`CreatedAt` or of the ids, rather than a sequence. `VariantId` stands for the ids by
which `TransfersService` sorts a transfer's lines, so that the order of locking can be
compared. `EventBus` drops one entry where the function that `subscribe` returns
filters the array by id: the ids are generated or their caller's own, so that no array
holds one twice. `LeadNowhere` says that
categories have no way to the root without counting steps: each has its parent among
them, or none that is there.

### Definitions called "Wrong on purpose"

They are mutants: each changes one definition the way a plausible bug would, and
`PROJECT.json` says which property TLC then finds violated. No specification uses
them.

## 4. The runs

| run | instance | shows |
|---|---|---|
| `inventory` | 1 variant, 2 warehouses, 2 reservations, 2 transfers, quantities up to 2 (symmetric in reservations and transfers) | the counters, the rows and the books agree; transfers conserve stock; a reservation is settled once |
| `inventory_tx` | 2 concurrent calls, 2 variants, 2 warehouses, 1 reservation, 1 transfer of both variants, a shipment locking the two items in the other order | the transactions implement `Inventory`; only a shipment closes a circle of waits; every call ends |
| `checkout` | 2 prepares, 2 placements (one with payment method `zero`), 1 selection; one line of 2 shirts, 2 warehouses with 2 each, 3 on the gift card, 2 points and 3 asked for | stock, wallets and orders agree whatever the interleaving and wherever a request dies |
| `checkout_edits` | 2 prepares, 1 placement, 1 edit, 1 status change; lines of a shirt and a mug (one mug in stock), an ebook to be added | completed orders are paid for the lines they have |
| `checkout_quantity` | 1 prepare, 1 placement, 1 edit | **violated**: the quantity deducted is not the quantity ordered |
| `checkout_twice` | 1 prepare, 2 placements | **violated**: an order is inserted for a cart that is no longer locked |
| `payments` | 1 payment, 4 calls, each any request or webhook (symmetric) | the engine implements `PaymentLedger`; one key is authorized once; points follow captures |
| `payments_accrual` | 1 payment, 3 calls | **violated**: an order accrues points twice |
| `returns` | an order of one line of 2 units, 2 documents (fulfillments or returns), 2 calls, 1 label each | restocked, exchanged once; refunded means paid back; shipped orders are fulfilled |
| `returns_refund` | the same | **violated**: a second return of the order is marked refunded and nothing is paid for it |
| `deliveries` | 1 event, 2 endpoints, 2 workers, 2 attempts, 1 crash or failed save | outcomes are true, removed endpoints stay so, and only copies held twice or lost outcomes send more than `MaxAttempts` requests |
| `backoffice` | the eleven modules, one at a time | the thirteen properties of the table below |

What `backoffice` checks:

| property | says | fails if |
|---|---|---|
| `PaidPeriods` | a subscription's schedule moves only over captured periods | a pending charge counts as captured |
| `ConvertedSourcesAreOrdered` | what is marked converted has an order with all its lines | the quote is marked before the lines are there |
| `ConfirmedOrdersArePaid` | a company order that `updateStatus` was not asked to confirm is confirmed only with a payment, and with a failed one only if confirmations overlapped | a payment that `authorize` returns as failed does not cancel the order |
| `CyclesNeedTwoMoves` | categories form no cycle unless two moves overlapped | only the new parent's own parent is looked at |
| `SearchFindsWhatIsSold` | search finds no product that is removed or inactive, unless calls on it are under way, overlapped or died | an inactive product is left in the index |
| `SeedLeavesTheDefaults` | after a seed the admin role has every default permission, also after earlier seeds that died | only permissions that are new are linked |
| `StockIsExplained` | on hand is what the adjustments add up to, and a purchase order has an adjustment for each line exactly when it is received | the item is read without a lock on its row |
| `DefaultIsKept` | stores and warehouses keep a default unless it was taken away on purpose or calls overlapped | the demotion of the old default is committed on its own |
| `EachListenerOnce` | a listener subscribed all along hears each publication once | `unsubscribe` changes the array in place |
| `DisabledPluginsAreSilent` | of a disabled plugin nothing is offered, no job is active (unless it was still being registered at the disable), nothing is served (unless a hook or a save failed), and its row says disabled (unless, besides, an `updateConfig` overlapped); switches that overlap are excused | what the plugin has registered is left as it is |
| `CronFollowsRegistry` | the queue fires a job only while the registry has it active | the queue is given what the call was made for, without asking the registry again |
| `QuotesAddUp` | a quote's amounts add up, also converted, and are never negative | the shipping amount is shown in the cart's currency without conversion |
| `GrantsAreExplained` | licences follow tokens, a retried line is issued once, a card's balance is its ledger | a line's download tokens do not count as issued, only its licences do |

### The bounds

Two concurrent calls suffice to lose an update, insert a row twice, overtake each
other or wait in a circle of two; with the one order of locking the inventory's
methods keep (transfer or reservation, then items by variant) longer circles need no
new kind of edge. Quantities up to 2 (or 3) tell full, partial and exceeded stock
apart. Two prepares are needed to release what another reserved, two placements
to compete for stock, gift card and points; the gift card holds enough for one
and a half orders so that full, partial and refused redemptions all occur. The
mug that is in stock once makes a prepare roll back its shirt. Four calls about one
payment are an authorization, a capture and a refund with a webhook in the middle of
any of them, or three retries of one key. Three subscription calls are two renewals
and a cancellation. Two documents of an order of two units are two partial or two
complete ones. Two attempts are a retry and a dead letter.

Every constant that bounds something is named: `MaxInt`, `MaxQuantity`,
`GiftCredit`, `Points`, `PointsAsked`, `MaxLabels`, `MaxAttempts`, `MaxFaults`,
`MaxPeriod`, `MaxBalance`, `MaxGrants`, the `Max...Edits` of the back office and the
sets of requests. Four constraints of `MCBackoffice` (`B2bBound`, `TaxonomyBound`,
`PricingBound`, `ProductsBound`) and `TwoDocuments` of `MCReturns` keep apart requests
that do not affect each other; each says at its definition what it keeps apart.
`Payments` and `Returns` have no counters to bound but the calls. (A call that is done
is not reused in `payments`, so four calls are four requests in all.)

`MCBackoffice` has a variable `focus`, the component that moves in a behaviour: the
eleven share no variable, so that a step of one neither enables nor disables a step of
another, and an invariant that reads one component's variables holds of all
interleavings if it holds of its component alone. Components share model values for
ids of like kind; the symmetry of these values is sound as nothing tells them apart.

Deadlock checking is off where the bounded requests come to an end; it is on in
`inventory` and `inventory_tx`.

### Fairness

`InventoryTx`: `SF_vars(Advance(c))` says that an open transaction goes on. Node
resumes a call when PostgreSQL answers, and PostgreSQL grants a row lock to its
waiters in order of arrival, so a waiter that is again and again able to proceed
does. Nothing obliges a client to start a call or a connection to fail. Every circle
of waits is broken by the deadlock detector, which is part of `Advance`.

The other modules have no fairness and no liveness: their calls are clients' requests,
and nothing resumes one that died. That holds of `Deliveries` too. It would be welcome that
every delivery ends, but the repository schedules no call of `processDue`, and the
HTTP client sets no timeout that would end a request, so the code does not promise it.

### What the violated properties mean

* `checkout_quantity`: `updateLine` passes `requireOpenCart`; `prepare` reads the
  line, reserves its old quantity; the edit saves the new one and clears the
  pointer; `prepare` attaches the reservation all the same. The order is for the
  new quantity and the commit for the old one, while
  `fulfillment/fulfillment.service.ts:310` relies on the stock having been
  deducted.
* `checkout_twice`: `placeOrder` checks the status it read and nothing checks it
  again; `orders.cart_id` is not unique. With physical lines the second order's
  commit fails after it was paid (`OrdersNeverShareStock` holds); with digital
  lines alone nothing stops it.
* `payments_accrual`: `accrue` looks for an earlier accrual of the order before it
  locks the account, and no key forbids a second one. A capture call and the
  provider's capture event both publish `payment.captured`; both look-ups find nothing.
* `returns_refund`: the refund of one return, a part of the payment, saves the whole
  payment as refunded, and no column keeps the amount. The engine hands a refunded
  payment back before it asks the provider for anything, and `completeRefund` looks
  only at its status: a second return of the order, however much later, is marked
  refunded with its amount, and nothing is paid. No two requests need to overlap.

Reachable in the models besides, and without a run that states the contrary (for most of
these no doc says they cannot happen): a gift card debited for an order that is then cancelled, reservations that
a dead prepare leaves behind, a paid order that stays pending as its commit fails, two
fulfillments that allocate more than was ordered, two returns of more than was ordered,
two successors of one refresh token, a cancelled order that a stale save confirms
(`transitionStatus` reads, checks, and saves later without a lock or version column), a
subscription's cancellation overwritten by a renewal, a quote ordered twice, a company
order that `updateStatus` approves for anyone or confirms without a payment, two moves
of categories that close a cycle, events of overlapping updates that leave search wrong,
two defaults or none after overlapping calls, a plugin's job that is registered after
the plugin was disabled, and an `updateConfig` that saves back a stale `enabled`. Where
a property excuses one of these, it does so through a history variable that records
just that circumstance.

## 5. What is proved

Every safety and action property that a passing run checks on a small instance is
also a theorem, for every value of the constants that meets the assumptions below.

| module | theorem | property |
|---|---|---|
| `InventoryProofs` | `TypeCorrect` | `TypeOK` |
| | `ReservedIsSum` | `ReservedIsSumOfActive` |
| | `ReservedIsOnHand` | `ReservedStockIsOnHand` |
| | `BooksBalance` | `OnHandReconciles` |
| | `SettledForGood` | `SettledOnce` |
| | `TransfersMoveStock` | `TransfersConserveStock` |
| `InventoryTxProofs` | `TransactionsAreAtomic` | `ImplementsInventory` (refinement) |
| | `OnlyShipmentsDeadlock` | `OnlyShipmentsCloseCircles` |
| | `TransactionsReserveWhatIsThere` | `ReservedStockIsOnHand`, of the interleaved calls |
| | `TransactionsKeepTypes` | `TxTypeOK` (in no run) |
| `CheckoutProofs` | `StockIsSoldOnce` | `OrdersNeverShareStock` |
| | `WalletsAddUp` | `WalletsBalance` |
| | `SuccessIsPaidFor` | `CompletedOrdersArePaid` |
| | `StockIsTakenWhenPaid` | `OnlyPaidOrdersTakeStock` |
| | `ConversionFollowsAnOrder` | `ConvertedCartsAreOrdered` |
| | `UneditedCartsDeductWhatTheyOrder` | `OrderedQuantityDeducted`, if `Edits = {}` |
| | `CheckoutStepsTheInventory` | each step is one of `Inventory` or leaves it alone |
| | `CheckoutReservesWhatIsThere` | `ReservedStockIsOnHand`, of a checkout |
| | `CheckoutKeepsTypes` | `CheckoutTypeOK` (in no run) |
| `PaymentsProofs` | `EngineImplementsLedger` | `ImplementsLedger` (refinement) |
| | `LedgerExplainsBooks`, `BooksAreExplained` | what the ledger entails: `BooksFollowProvider` |
| | `KeyIsAskedOnce` | `AuthorizedOnce` |
| | `AccrualsFollowCaptures` | `PointsAreForCaptures` |
| `ReturnsProofs` | `GoodsAreRestockedOnce` | `RestockedOnce` |
| | `OneReplacementIsSent` | `ExchangedOnce` |
| | `RefundsAreNotForNothing` | `RefundedMeansPaidBack` |
| | `CompleteShipmentsFulfilTheOrder` | `ShippedOrdersAreFulfilled` |
| `DeliveriesProofs` | `SuccessIsNeverInvented` | `SucceededMeansAccepted` |
| | `NothingIsGivenUpEarly` | `GivenUpAfterMaxAttempts` |
| | `RemovalIsFinal` | `RemovedStaysRemoved` |
| | `RefusalsAreCounted` | `RequestsAreCounted` |
| `SubscriptionsProofs` | `SchedulesArePaid` | `PaidPeriods` |
| `BackofficeProofs` | `ConvertedOrdersHaveLines` | `ConvertedSourcesAreOrdered` |
| | `ConfirmedOrdersHavePayment` | `ConfirmedOrdersArePaid` |
| | `OneMoveKeepsTheTree` | `CyclesNeedTwoMoves` |
| | `SearchIsRight` | `SearchFindsWhatIsSold` |
| | `SeedIsIdempotent` | `SeedLeavesTheDefaults` |
| | `ReceiptsAddUp` | `StockIsExplained` |
| | `DefaultsAreKept` | `DefaultIsKept` |
| | `EachListenerIsCalledOnce` | `EachListenerOnce` |
| | `DisabledPluginsStaySilent` | `DisabledPluginsAreSilent` |
| | `CronIsRight` | `CronFollowsRegistry` |
| | `QuotesAreExplained` | `QuotesAddUp` |
| | `GrantsAddUp` | `GrantsAreExplained` |

### From what

The assumptions on constants, all evaluated by TLC in the runs. None bounds how many
rows, calls or requests there are, beyond that what is summed over is finite. (`Pricing`
itself has three promotion rules and `EventBus` as many arrays as someone can hold.)

* *Numbers.* `MaxIntAssumption` (a column holds some positive number),
  `MaxAttemptsAssumption`, `MaxFaultsAssumption`, `SubsAssumption`, `VariantCountAssumption`,
  `PointsAssumption` and `WalletsAssumption`, `PricingAssumption` (amounts are natural
  numbers, a rate is a quotient of positive ones), `GrantsAssumption` (a line is of one
  unit or more), `OrderedAssumption` (so is an order's).
* *Finitely many rows.* `RowsAssumption` (reservations and transfers ever inserted),
  `VariantsAssumption`, `LinesAssumption`, `DocumentsAssumption`,
  `PublicationsAssumption`: sums, loops and arrays need them.
* *Requests are of the kinds the API has*: the two `RequestsAssumption` of `Payments`
  and `InventoryTx`; in `Checkout` no request is two.
* *Keys.* `KeysAssumption` (the ids of three tables differ), `VariantsAssumption` (a
  variant's id is its own), `OrderOfAssumption` (a payment is for an order),
  `PlacesAssumption`, `StockAssumption` (a prepare makes one reservation for a line and
  has a list of warehouses), `CartAssumption` (the cart is open at first),
  `NoneAssumption`, `CallsAssumption`, `CategoriesAssumption` (a placeholder is no id),
  `AdminAssumption`, `DefaultWarehouseAssumption` (the seeded rows are rows).

### Along which argument

Each proof has an inductive invariant, the property strengthened with what calls under
way know of the rows they read; a lemma for each action; and a theorem that puts them
together. An invariant that was not obvious was first checked by TLC on the run's
instance.

**Inventory.** None of the properties is inductive alone. That reserved never
exceeds on hand is preserved by `Commit` only if the clamp at zero does not act,
which needs reserved to be the sum of the active reservations; that sum is
preserved by `Release` for the same reason; and the books balance only if an item
without a row holds nothing. So the inductive invariant is

    IInv == TypeOK /\ ReservedIsSumOfActive /\ ReservedWithinOnHand
            /\ OnHandReconciles /\ NoRowNoStock

`CountIn`, `CountOut` and `CountSame` say how the number of units changes when one row
does; `SumsAfterRow` combines them. Transfers are counted the same way: units sent and
units received, for the item they move.

**InventoryTx.** `TxInv` adds that a call in no transaction holds no row; that what a
call will write is what its request makes of the row *as it is now*, because it holds
that row's lock (`CopiesAreFresh`); that the items it has locked and those it has still
to lock are the ones its request changes (`AtItems`), with its own row locked and of
the status its method requires (`HoldsOwnRow`); and that a reservation being inserted
is not there (`ReservationsAreNew`). Then `Finish` writes what the atomic action would,
a missing item's `Insert` is `Create`, and every other step is a stutter. No circle of
waits without a shipment: what a call has still to lock has a higher `Rank` (own row
first, then items by variant) than what it holds (`LocksInOrder`), and a circle would
have to descend somewhere.

**Checkout.** `Inv` is `IInv` (its stock steps are `Inventory`'s), the types, and for
each request and program counter what it knows (`LocalOK`): the order a placement has
inserted has the lines, the gift card and the points that it quoted; at `commit` the
order is paid and the lines not in `todo` are deducted; at `done` it is `Complete`.
`OrderOK` relates an order's amounts, `StockOK` says that what an order consumed is
committed, hence cannot be committed for another, and `WalletsOK` that balances and debits
add up. A stale save of a cart never converts it, as `SelectOK` says of what was read.
The quantity theorem needs `QuantityInv` besides: no line changed, and a reservation
attached to a line was made for it. With edits it is false, as `checkout_quantity` shows,
which is why it has a hypothesis.

**Payments.** What a step writes is what its call read or was told earlier, so the
invariant `EngineInv` says of every call what it may know (`CallOK`): the status it
read is pending or a fact that happened, so are its answer and the webhook it heard,
and a call that is about to accrue is about a captured payment. Facts are never taken
back (`Grows`), hence what a call knows stays true while others move (`CallStays`).
`AsksOK` is the argument for one authorization per key: the call that inserted the row
is the only one to ask, and it has not asked yet. Every step is then one of the
ledger's two, the insertion of a row, or a stutter (`Moves`), which is the refinement.
What the ledger entails is proved of the ledger and so holds of the engine.

**Fulfillment and Returns.** An order all of whose lines are shipped is `Watched`: it is
no longer confirmed, a crash has cut off the request (`lost`), or a request is under
way that will look at it again. A return's rows say what was done (`RowOK`); a
request about to restock is the only one for its return and its lines are not restocked
yet (`CallOK`, `CallsApart`); a request past the provider's answer has been paid back.

**Deliveries.** A worker's copy may be older than the row it will overwrite, so
`DeliveriesInv` says of copies what it says of rows, as far as it is true of them: copy
n was preceded by n - 1 requests, an accepted one was accepted, as long as the endpoint
is there; a removed endpoint takes its rows along and no save brings them back. `Onward`
is what no step undoes. How often a delivery is sent (`CountInv`) is about those no two
workers have held at a time: there is one copy at most, of the attempt the row has, so
that attempt n finds n - 1 requests behind it and those whose outcome was lost, and one
more until its own outcome is saved (`Counted`). A row is created once, by the one
dispatch that awaits it (`Awaited`).

**Subscriptions.** A call saves a row that may be older than the one it replaces, so
`SubsInv` says of every row that a call holds what `PaidPeriods` says of the stored
ones, and that the period a call is about to advance over was captured.

**The back office.**

* `Companies`: the order a conversion holds is there, with its lines once it is about to
  mark; of an order not confirmed twice at a time, nor moved to confirmed by hand
  (`Unasserted` has the others), the confirmation knows the payment's status
  (`KnowsOrder`, `KnowsPayment`, `ConfirmedOnce`).
* `Taxonomy`: that there is no cycle is stated with sets, not by counting steps: no set
  of categories leads nowhere (`Tree`). A walk up carries a set as witness: it contains what
  `assertNoCycle` has seen, is closed under parents but for the one to look at next, and
  is without the category that moves (`Avoids`). Joining it to the tree gives a tree.
* `Products`: of a product nobody disturbed there is one call, and what it has read is
  still so.
* `Accounts`: what is not left in a seed's `todo` is linked (`SeededBy`).
* `Supply`: what a receipt has read of an item it holds is on hand, its order is a draft,
  and no two hold the same (`Receipt`, `LocksExclude`).
* `Locations`: as long as a default is kept there is one writer of its kind, and whoever
  demotes promotes (`OneWriter`, `PromotesToDefault`).
* `EventBus`: no array holds a listener twice, a publication has called exactly the
  entries before its index, steady listeners are in its array (`CalledSoFar`); an
  array that nobody holds is free, by counting.
* `Plugins`: of a plugin switched by one call at a time, that call knows its state
  (`KnowsPlugin`), and a configuration under way that no switch crosses saves what is
  stored (`Uncontested`); once it is disabled its job is inactive and no registration under
  way would make it active, unless one was at the disable (`JobsSilent`).
  `CronFollowsRegistry` is inductive with the types.
* `Pricing`: a quote's total is the total with tax less gift and points, from the stage
  that fixes each (`QuoteSoFar`); a converted amount is within half a unit (`CloseTo`),
  and so the parts are within half a unit each of the whole.
* `Grants`: tokens exceed licences by what calls still owe, counted (`LicencesOwed`); of a
  line that no two calls looked up at once, one issues (`OneIssues`); a card is bought by
  one call, and its ledger lags behind by that call's entry (`OneBuys`,
  `LedgerExplainsCards`).

### Only model-checked

* `CallsEnd`: liveness under fairness is beyond the prover.
* The four properties found violated: they are false, and TLC shows how.
* Induction over data is out of the prover's reach. Nothing here needs it: sums are
  counted, loops visit sets, ancestors are sets.

## 6. Plan

Models and safety proofs are complete for the components in section 2 that have a
module. What is worth adding, in order:

1. Theorems that say when the four violated properties do hold, as
   `UneditedCartsDeductWhatTheyOrder` does for one of them: accruals once per order if
   no two of them overlap, refunds that reach the customer if an order has one refunded
   return, one order for a cart with digital lines if placements do not overlap.
2. An abstract specification of a placement (an order, its payment and its stock, or
   none of them but what is on record as lost), with `Checkout` shown to implement it.
3. What `FulfillmentService.ship` would need to keep the order of locking, as a theorem
   without the exception in `OnlyShipmentsDeadlock`.
4. The hazards without a property (a gift card debited for an order that is cancelled,
   reservations nobody points to, two fulfillments that allocate the same, two successors
   of one refresh token, a coupon's cap): bounds on what is lost, as invariants.

## 7. Not modelled, and why

* Customers, vendors, the rule evaluator, localization: record keeping with unique
  keys, one statement per request, or a pure evaluator: little that a unit test does
  not reach. Admin bulk operations are a loop over `Inventory`'s `Adjust`.
* Files, notifications, configuration, telemetry, health: I/O without protocol state.
* Cryptography, JWT, the RBAC guards, BullMQ and cron parsing: library code.
* Dependency order and discovery of plugins, the merging of GraphQL schemas: run once
  at start, before any request.
* The GraphQL resolvers delegate to the services and keep no state; the actions of a
  module stand for them where they add a check.
* E-mails, order events, POS as a source of orders and vendor routing hang on
  `placeOrder` after its last write.
