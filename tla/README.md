# A verification development of the ERP

TLA+ models of the parts of this ERP (Next.js services over PostgreSQL/Supabase,
and the pages over them) in which several actors change the same state, or one
actor may be interrupted between two changes. TLC checks small instances; TLAPS
proves the safety properties of stock, quotes, purchasing, production, alerts, the
accounting and mail services and the work at a user's desk for any number of orders,
products, requests and processes.

## 1. The system

Users call API routes (`src/app/api`); routes call services (`src/lib/services`);
services call `src/lib/supabase`, which runs single statements and RPCs through
PostgREST, and the accounting service (Paraşüt), a mail provider, a language
model, Redis and a file storage. An RPC is one transaction; **two calls of one
request are two transactions**, and the process may die between them. The clock
(`.github/workflows/crons.yml`, and the intervals `docs/parasut-golive-runbook.md`
recommends) calls routes for the alert scan, quote expiry, the purchase copilot,
the accounting jobs and the e-mail outbox. Nothing else runs in the background. In
the browser a page outlives its requests: answers come late and out of order.

| Component | State | Operations | What makes it correct | Module |
|---|---|---|---|---|
| Stock, reservations, shortages | `products.on_hand/reserved`, `stock_reservations`, `shortages`, `inventory_movements` | allocate, ship, cancel, record, recount, resolve | no piece promised twice; the hand-kept counter equals the rows; each piece of a live line is held or recorded as short; oldest shortage first | `OrderStock`, `OrderStockTx`, `StockPromise` |
| Sales order life cycle (in part) | `sales_orders` statuses, `order_lines` | create, edit, submit, approve, ship, cancel, hard delete | a status never says more than the rows do; an order that ends holds nothing | `OrderStock`, `OrderStockTx` |
| Quotes and their reservations | `quotes.status`, lines, linked order | send, reject, expire, revise, accept, delete, edit, reconcile | a quote is settled once; its order exists just as long as it should, whichever call fails | `QuoteOrder` |
| Alert scan and its lock (in part) | `alerts`, dismissals | scan, AI alerts, dismiss | after an undisturbed scan the alerts are those the product calls for | `AlertScan`; the quote step in `QuoteOrder` |
| Production, bills of materials | `production_entries`, stock | complete, reverse | no entry undone twice or lost; deadlocks end | `Production` |
| Purchase orders, commitments, receipts (in part) | `purchase_orders`, `purchase_commitments` | draft, send, confirm, receive, cancel, revise, settle by hand | two answers to "what is on its way" agree; one order in force per recommendation | `Purchasing` |
| Purchase recommendations | `ai_recommendations` | copilot run, decide, undo | a decision is not rewritten; the open suggestion fits the need | `Recommendations`, `AdvicePage` |
| Supplier RFQs | `supplier_rfqs`, vendors, cells | edit, send, quote, award, cancel | one order line for a line; letters ask what the request asks | `SupplierRfq` |
| Parasut sync | `sales_orders.parasut_*`, contacts, products | claim, steps, retry, e-document poll | no document twice, none missing, it ends | `ParasutSync`, `EntityLease`, `InvoiceTotals` |
| Parasut OAuth tokens | `parasut_oauth_tokens` | refresh, callback | a single-use token is not spent twice nor lost | `OAuthToken` |
| Parasut bills, payments, stock | `purchase_orders.parasut_*`, `parasut_payment_*`, alerts | sync, poll, compare, correct | one bill; payments learned of; alerts true | `BillSync`, `PaymentPoll`, `StockMirror` |
| Notification outbox, e-mail | `notification_outbox`, `email_logs`, suppressions | enqueue, claim, send, webhook, retry | completed means sent; delivery state monotone; a row ends | `MailOutbox` |
| Document import (in part) | `import_documents`, lines, batches, drafts | extract, map, review, apply, confirm | applied and booked once | `ImportDocument`, `ImportBatch` |
| AI services (in part) | limits, recordings | limit, record | spending bounded; nothing cancelled is heard | `RateLimit`, `VoiceRecorder` |
| Pages and realtime refresh (in part) | localStorage, SWR caches, page state | edit, save, send, load, broadcast | a tab forgets and repeats nothing | `QuoteEditor`, `AdvicePage`, `ListCache` |
| Quote and RFQ documents (in part) | `quote_pdf_archives`, `product_attachments`, the storage | archive, upload, link, delete, primary | rows and files go together; an acceptance has its document | `QuoteArchive`, `FileStore` |
| Developer console, telemetry (in part) | error groups | record, page, filter | the list is whole | `ErrorPages` |
| Master data, settings, authentication, notes, company files | | | single-row writes and guards without a protocol | not modelled |

How the components interact: quotes make, approve and cancel sales orders; orders
hold stock; receipts, production and recounts change stock and then ask
`try_resolve_shortages`, in a call of its own, to hand it out; a shipment starts
the accounting sync; recommendations and awards become purchase orders; the scan
reconciles quotes with their orders. The couplings are rows, read in one call and
acted on in a later one.

Hard behaviours, each listed at its line under `hazards` in PROJECT.json:

- transactions at READ COMMITTED, where a loop's query, the updates in its body
  and the statement after it see different snapshots;
- check-then-act over two calls (hard deletes, edits, recommendations, applications);
- leases of seconds or minutes over work that may take longer, with writes that are
  not conditional on the owner;
- requests to the accounting service, the mail provider and the storage whose answer
  is lost, so that nobody knows whether they were carried out;
- a service that changes a status and then makes a best-effort call whose failure
  it swallows;
- reconcilers, scans and polls that work through lists they read a while ago;
- counters and statuses kept by hand next to the rows they summarise;
- pages that show what the server does not have yet.

## 2. The modules

| Module | What it is |
|---|---|
| `Totals` | `Total` of a function, `Clip` (`greatest(a - b, 0)`), `Least` |
| `TotalsTheorems` | lemmas on `Total` and `Clip` |
| `StockPromise` | abstract: what a reader of the rules expects of stock, in terms of stock, holdings and orders that are gone |
| `OrderStock` | every stock and order RPC as one atomic action |
| `OrderStockTx` | the same RPCs statement by statement, with row locks, snapshots, aborts |
| `QuoteOrder` | the life of a quote, its order, its requests and the reconciler |
| `OrderStockProofs`, `OrderStockTxProofs`, `QuoteOrderProofs`, `PurchasingProofs` | theorems about the module each extends |
| `ServicesProofs`, `WarehouseProofs`, `DeskProofs` | theorems about the modules that `MCServices`, `MCWarehouse` and `MCDesk` put side by side |
| `ParasutSync`, `EntityLease`, `InvoiceTotals`, `OAuthToken`, `BillSync`, `PaymentPoll`, `StockMirror` | the accounting integration |
| `Purchasing`, `Recommendations`, `SupplierRfq`, `Production`, `AlertScan`, `MailOutbox`, `ImportDocument`, `ImportBatch`, `QuoteArchive`, `FileStore`, `RateLimit` | the other protocols of the server |
| `AdvicePage`, `QuoteEditor`, `ListCache`, `VoiceRecorder`, `ErrorPages` | the protocols of the browser |
| `MCOrderStock`, `MCOrderStockTx`, `MCQuoteOrder` | definitions only the runs of one module need |
| `MCWarehouse`, `MCServices`, `MCDesk` | several modules side by side; `MCWarehouse` is that of the runs `accounting` and `warehouse` |

`OrderStock` and `OrderStockTx` both `INSTANCE StockPromise` with a refinement
mapping and have `Promise!Spec` (or its step) checked as a property. Every
definition's source lines are in the `map` of PROJECT.json.

Most modules keep *history variables*: they record what happened (`outrun`, `stale`,
`torn`, `reused`, ...) and are read by properties only, never by guards. A property
such as `DuplicateNeedsStaleRun` reads: the bad outcome cannot occur unless this named thing
did. Each names the exact way in which the code falls short; nothing less leads to it.

### OrderStock

State: `onHand` and `reserved` are the two columns of `products`; `ledger` is the
initial stock plus the sum of the stock-changing rows of `inventory_movements`;
`status` and `fulfil` are the two status columns of `sales_orders`; `qty` is
`order_lines.quantity`; `res` and `short` sum the *open* rows of
`stock_reservations` and `shortages` of a line; `before` is the creation order of
open shortages. Closed rows and audit rows are not kept: no RPC reads them. Two
constraints of migration 019 are part of the actions they bear on: the CHECK
`reserved <= on_hand` refuses movements and recounts, and the unique index of open shortages
(`OneShortagePerLine`) an allocation that would insert a second one of a line. The
allocations and the shipment are not made subject to the CHECK: that they keep it is `NeverOversells`.

| Action | Code |
|---|---|
| `CreateOrder` | `create_order_with_lines` (093), any status `POST /api/orders` passes |
| `UpdateOrder` | `update_order_with_lines` (093) |
| `SubmitOrder` | `submit_order_for_approval` (082), which raises if nothing can be reserved |
| `SendQuoteOrder` | the order half of `send_quote_and_create_pending_order` (099) |
| `ApproveOrder`, `ApproveUnallocated`, `ApproveRefused` | the three ways through `approve_order` (082) |
| `ShipOrder`, `CancelOrder` | `ship_order_full` (011), `cancel_order` (007) |
| `DeleteOrder` | `DELETE /api/orders/[id]?permanent=1`, with its cascades |
| `RecordMovement`, `RecountStock` | `record_stock_movement` (008), `recount_stock` (105) |
| `ResolveShortages` | `try_resolve_shortages` (008) |

An order has at most one line per product. Lines of one product are served from
the same free stock one after another, so their sum gets what one line of the
summed quantity gets, and `ship_order_full` treats it so except that a line of
which nothing is reserved does not leave the stock; an allocated order, the only
one that ships, has no such line.
Production and receipts reach a product as movements; `Production` and `Purchasing` look at
them from their own side.

`DeleteOrder` is atomic here. The route is not; `OrderStockTx` has its two calls.

### OrderStockTx

One product and orders of one line, so that a row is a product, an order, an
order's open reservation or its open shortage. `db` is the committed version of
each row, `new` the latest one, `owner` the session that has it locked. A plain
SELECT never waits and sees `db` (or the session's own version); a locking
statement waits for the owner and then sees the latest committed version; writes
appear at commit; `Abort` may strike at every point and stands for raised
exceptions, early returns, deadlock victims, timeouts and lost connections.
These rules are PostgreSQL's and so marked external. Statements are merged into one
step only where the later ones cannot wait and nobody else sees what they write.
Which of several shortages is served first is left open here; `OrderStock` has
the order. A resolution takes no lock on the order it serves, except that inserting a
reservation refers to it by a foreign key (001:131): `ServeRows` has the order's row then, since FOR KEY SHARE
waits for the FOR UPDATE of a cancellation. Enlarging a reservation that is there does not. The hard delete is two calls: `DeleteCheck`, and then `DeleteRow`, which is
unconditional. Edits of drafts, approvals of orders never allocated, and recounts are
left to `OrderStock`: the first two lock the order first as a submission does, and a recount
is, on the one row it writes, a movement.

### QuoteOrder

State: `quote` is `quotes.status` (with "none" and "deleted"); `rowless` the quotes with
a line that names no product; `lapsed` those whose `valid_until` is past; `order`
the linked sales order that the unique index of migration 094 allows to be live;
`alerted` the quotes with an open `sync_issue` alert; `call` what each request is doing,
with the status it has read; `scan` the reconciler's place and its lists.

A request is a sequence of calls (`Read`, `Transition`, `FinishSend` or
`FinishDead`; `Revise`, `FinishDead`; `Accept`, `AcceptLock`, `AcceptFound` or
`AcceptCreates`; `Read`, `DeleteQuote`), and `Fail` may end it between any two.
`dbUpdateQuoteStatus` is the compare-and-set it is in the code. The acceptance
RPC is split where READ COMMITTED lets the outside in: it locks the quote, looks
for the order, and locks the order only in `approve_order`; meanwhile the other
writers of that quote wait (`Locked`). The reconciler is split into its queries
(`ScanQuotes`, `ScanOrders`), one step per listed quote, and its end or death.
The orders pages, drafts, the calendar and closing an alert are single steps.

### The accounting integration

`ParasutSync`: `row` is the `parasut_*` columns of the order (step, ids, attempt marks, claim with
its lease, retry count and error kind), `remote` what the service has of each document
(among it requests still on the wire), `run` what each run is doing, `poll` the e-document job.
`Start`, `Claim` and `ClaimFails` are `serviceSyncOrderToParasut` up to
`parasut_claim_sync`, with the refusal of an order whose discount does not come out
(`SentAway`, before the claim; such an order, `mispriced`, is settled in that its alert shows it); `Ensure` the contact and product steps; `Look`,
`Refetch`, `Mark`, `Create`, `Record` and `Advance` the shipment and invoice steps with
their recovery search; `LookEDoc`, `WriteStatus` the e-document; `CallFails`, `Patch`, `Release` the
error path; `Crash` and `Expire` the end of a process and of a lease; `PollLook` and `PollWrite`
the job; `Land` and `JobEnds` the service.

`EntityLease`: customers, vendors and products get a record under a lease
of a minute that is taken only after the search (`Find`, `WriteFound`, `Claim`, `Create`,
`Finish`, `Release`). `InvoiceTotals` is the arithmetic of `roundMoney`, of the quote form with its
totals written by hand (`off`) as far as `assert_quote_totals_sane` lets them pass, of the discount
percentage and of `guardDiscountReconciliation`, over all orders of bounded lines: from a quote,
with its rate and discount, or from the order form, whose header and lines get the default rate. `Sync` sends
or refuses. `OAuthToken`: `getAccessToken` with its early read, poll, lease, second read, call
and versioned save, the manual refresh and the callback, which write without the
lease. `BillSync`: the chain of a received purchase order with its attempt mark.
`PaymentPoll`: the queue by `parasut_payment_checked_at`, `Ask`, `Stamp` after a failure, `Write` and
then `Tell`, the alert. `StockMirror`: the comparison reads the catalogue (`Start`, the products
of `Compared`, at most RECONCILE_MAX of them), asks for each product (`Ask`), corrects part by part, each call of which may fail
or lose its answer (`Decide`, `Correct`), and tells what is left (`Tell`), while goods move, notes travel and a user
closes the alert.

### The other protocols of the server

`Purchasing`: `po` and `commitment` are the two tables; a request has read a status (`Ask`) and then
`Decide`s: RPCs test again under a row lock (`ConfirmPO`, `ReceivePOLines`),
`SetStatus` compares and sets. `Draw` and `Place` are the two calls that make an order of
a recommendation; `ReplaceLines` deletes the link between the two with the lines, and `drawn` remembers, for the properties, that there was one. `SupplierRfq`: each RPC is an action, the sending three
(`StartSending`, `SendOne`, `MarkSent`). `Recommendations`: a copilot run is its queries and
writes, one action each, with the rows it keeps from reading to writing; users decide in a read and a write; rows age in the order in which they were made.
`Production`: a transaction has the set of rows it still has to lock and takes them one by one
(`Lock`) in the order of the code (`InOrder`), then commits; of transactions that wait in a circle one is rolled back. `AlertScan`: a scan reads
everything (`StartScan`) and then creates and resolves row by row; `AiRead` and `AiAnswer` are the assistant.

`MailOutbox`: `event` is the outbox row, `log` the `email_logs` rows, `job` the worker and
the retry by hand, `hook` the webhook deliveries. The worker's claim, sends, writes and end
are actions of their own. `ImportDocument` and `ImportBatch`: requests that extract, review and
apply (map, review and confirm), each database call a step. What a line of a document writes is counted or
not (`Written`), and the count decides whether the document ends applied or is given back; the drafts of a batch stand for the
same row of a sheet, mapped again and again. `QuoteArchive`: `serviceArchiveQuotePdf`
step by step, and `Accept`, which goes on only when it has returned. `FileStore`:
`dbCreateAttachment`'s three calls and its two undoing ones, `dbDeleteAttachment`, whose reading of
the path may fail,
`dbSetPrimaryImage`. `RateLimit`: counter and circuit in front of Redis, rolling window in memory,
a clock that ticks.

### The browser

`QuoteEditor`: the form, its text in `localStorage`, saves and sendings that go on after the page is
left. `AdvicePage`: the optimistic decision, its answer, and loads by effect, timer and
hand. `ListCache`: SWR's rule that a write overtakes a load, answers written into
the list, and broadcasts. `VoiceRecorder`: the references of the hook and the browser's
late answers, or a recorder that cannot be made or started once the microphone is granted
(`GrantInVain`). `ErrorPages`: the cursor of `dbListErrorGroups` and the pages the list keeps while
groups move.

## 3. The runs

| Run | Instance | What it shows |
|---|---|---|
| `order_stock` | 2 orders, 2 products, lines and movements up to 2, stock up to 3; 27 thousand states | under every sequence of RPCs the rows and the statuses tell the same; oldest shortage first; implements `StockPromise` |
| `order_stock_api` | 3 orders, 1 product, orders also created as `pending_approval` and never allocated; 10 thousand | counter equal to the rows, nothing forgotten on that path either; the movements explain the stock: no clip at zero ever bites |
| `order_stock_tx` | 2 sessions, 2 orders (one of quantity 1, one of 3), 1 product, all operations; 294 thousand | no overlap, abort or stale cursor gives out a piece twice, makes the counter too small, ships an order that does not hold its line, or leaves a cancelled order with a reservation; without two overlaps (below) the rows are exact and `StockPromise` is implemented |
| `quote_order` | 1 quote, 2 requests, reconciler; 25 thousand | no order from a stale reading; ends are final; the acceptance's lock holds; a lost reservation is repaired or shown; a dead quote's order is released |
| `accounting` | `ParasutSync` with one run of every kind, `PaymentPoll` with 2 pollers; 290 thousand | a done order has its documents; an order gets done or back to somebody who looks at it; payments are learned of although other documents fail for ever; alerts follow |
| `services` | `OAuthToken`, `EntityLease`, `MailOutbox`; 3.7 million | the token survives; no more records than rows; completed mail is sent and its reports kept; the outbox drains |
| `warehouse` | `Purchasing`, `SupplierRfq`, `Production`, `AlertScan`, `ParasutSync` with 2 runs; 2.3 million | incoming goods, awards, production, alerts, and documents made once |
| `desk` | 14 modules of desk work: imports, advice, bills, stock, totals, pages, files, limits; 2.0 million | see the comments on its eight properties in `MCDesk` |

**Composed runs.** The modules in `accounting`, `services`, `warehouse` and `desk` share no
state that a property relates. A behaviour of such a run chooses one `part` in its initial
state and keeps to it, the other parts resting in one fixed state; so a run checks
each module by itself, over the sum of their states and not the product, and a property
of the run is a conjunction of the modules' own, or the module's own while its part works. Where two do meet in
the code (a page and the server behind it, a sync and the leases of its contacts), the one
abstracts the other by a nondeterministic answer. `OrderStockTx`'s run has a
variable `apart` in the same manner: half of its behaviours keep the pairs
cancel/resolve and delete/submit from overlapping (`Separate` in `MCOrderStockTx`), and
`RowsExactApart` and `KeepsPromiseApart` speak of those, which shows that only these two overlaps do harm.

Runs that show where the code departs from what the repository says of it:

| Run | Departure |
|---|---|
| `counter_drifts` | `try_resolve_shortages` enlarges a reservation between `cancel_order`'s cursor, which has read it, and the update that releases it: the counter is lowered by what was read, the row released whole, and `products.reserved` stays above the open reservations, which the repository's integrity script calls a drift. |
| `accept_guarded` | `accept_quote_and_create_order` approves a pending order it finds without looking at the status of the quote it has locked. |
| `import_applied_once` | an extraction writes its status over an application's claim, and the document can be applied a second time. |
| `order_drawn_once` | replacing the lines of a draft deletes its link to the recommendation it was made from; the guard against a second order looks at links, so the recommendation is drawn again while the first order is in force. No race is needed: draw, place, replace lines, draw, place. |

### Bounds

Counters stop at bounds named in the modules (`MaxQty`, `MaxStock`, `MaxDocs`,
`MaxRecords`, `MaxTokens`, `MaxEntries`, ...), always in guards of increases only. `MaxFaults`
bounds failed calls, lost answers, deaths and outlived leases together.

- *Stock.* Two orders of quantity up to 2 over a stock of up to 3 give every relation the
  properties tell apart: both fit, one fits, one in part, none; stock equal to, above and below
  what is reserved. A third order (`order_stock_api`) gives an oldest, a middle and a
  youngest claimant; two products an order that is short of one and holds the
  other. In `order_stock_tx` the larger order, of 3 over a stock of 3, can hold one piece, get a second and still
be short. Two sessions suffice for each pairwise race of `OrderStockTx`, and
  run any number of transactions in turn.
- *Quotes.* One quote: quotes share nothing but the requests' processes and the
  reconciler's lists, whose entries are handled one by one. The copy of a revision is
  followed only where there is a free row (`RowForCopy`). The theorems of `QuoteOrderProofs` hold
  for any `Quote`, copies included. Two quotes and two requests exceed nine million states.
- *Accounting.* `accounting` has one run in all seven modes, two faults and up to two documents of a
  kind, so that a duplicate can exist; the lease of a dead run is taken over by the next.
  `warehouse` has two runs at once with one fault. The cap on retries is 2 for 5. Of the two
  documents the poll asks about, one fails for ever, and a batch holds one.
- *Services.* Two callers and four tokens: each caller can use a token, lose the answer and be
  followed. Three requests for one contact, so that one may break off under two.
  Two recipients and two attempts for three.
- *Warehouse.* Two purchase orders of a line, or one of two lines; a bill of materials in
  which product 3 needs 2 and 1, and 2 needs 1, so that lock orders cross; two suppliers; one scan.
- *Desk.* Two requests at a time in most modules, a third run for the copilot, three groups of
  errors on pages of one, three takes of the recorder, three ticks over windows of two, documents
  of two lines, and a row of a batch in two drafts one after the other. Totals written by hand are off by nothing, 40 cents, or a cent more than 100. Recommendations go from 0 to 3 pieces, so that two
  quantities share a level and a third does not. But for `PartsMakeTheWhole`, the theorems of
  `DeskProofs` hold for any number of all of these.

Symmetry: `OrderStock` does not tell its orders, nor its products, apart; `OrderStockTx`
not its sessions; `warehouse` not its clerks and purchase orders. Runs with liveness use
none. Deadlock is checked in the runs of a single module of stock or quotes, where the actors can always go on.
It is not in the composed runs (`order_drawn_once` among them) and in `import_applied_once`,
where a part really ends: an invoice is sent, a bound on recordings, commits or tokens is reached.

### Fairness

`quote_order` (`FairSpec`): the cron starts the scan for ever, so `ScanQuotes` and
`ScanOrders` are strongly fair and a scan always ends or dies (`ScanEnd`, weakly fair). A scan
may die in any run, and a repair or a release may fail in any run. `SF` on `ScanRepair(q)`
says that a quote listed again and again is in the end tried by a scan that survives the
attempt and, if the attempt fails, manages to write the alert; no success is assumed of it.
`SF` on `ScanRelease(q)` does assume that a cancellation tried every six hours succeeds
at last: `cancel_order` refuses no pending order, so only an outage can make it fail.

`accounting`: the clock starts runs again and again (weak fairness of `Start("r", "cron")` and of
`PaymentPoll!Work`, for which the deployment guide gives a quarter of an hour and an hour), a run that has begun
goes on unless it dies, leases run out, the e-document poll comes back, and the
accounting service finishes what it has accepted (`Land`, `JobEnds`). Errors may strike at any point up to
`MaxFaults`: an outage is finite. `services`: the outbox cron comes every five minutes
(`Work`), and mail settings that are missing are completed (`Configure`).
Nothing is assumed of users, nor that any request ends.

## 4. The proofs

Every theorem is about the specification that the runs check, for all values of the
constants, and rests on named assumptions only: `OrderFinite`, `ProductFinite`, `BoundsNat`,
`CreateStatusOK` of `OrderStock`; `TxConstants` of `OrderStockTx` (orders are finitely many, quantities
positive, "nobody" is no session; the sessions and the operations called are any); `PurchaseAssumption` (quantities are naturals),
`ProductionAssumption` (bounds are naturals, "nobody" is no clerk) and `SyncAssumption` (modes are the code's,
"free" is no run, bounds are naturals) of `MCWarehouse`; `LimitAssumption` (limit and window are positive, requests
finitely many), `NoRunAssumption` ("no run" is no run), `ComparedAssumption` (what is compared are products) and `AdviceAssumption` (bounds are naturals, decisions are
the code's three) of `MCDesk`. TLC evaluates all of them. Where an instance of a component is to be proved about, the hypotheses of its lemmas are an operator:
`PurchasingConstants`, for which `MCWarehouse` instantiates the *proof* module twice, and
`SyncConstants`, whose lemmas `WarehouseProofs` states about the instance itself. So the theorems
speak of the very instances the runs check; `WarehouseProofs` discharges the hypotheses from the assumptions.
`QuoteOrder` assumes nothing of its constants.

The pattern is the same throughout. The property is not inductive; the module states an inductive
strengthening, TLC checks that one on the run's instance, and the proof has a lemma for the initial states,
a lemma for each action, and one temporal step.

| Theorem | Property | Inductive invariant, and why it is needed |
|---|---|---|
| `OrderStockProofs`: `TypeCorrect` | `TypeOK` | itself: `on_hand` and `reserved` stay in the naturals, as the CHECK constraints of `products` demand |
| `CounterCorrect` | `ReservedIsSum` | `CounterInv`: an edit or a deletion removes an order's reservations and leaves the counter alone, which is right only because such an order has none |
| `NoOversell`, `StockIsExplained` | `NeverOversells`, `MovementsExplain` | `StockInv`: that a shipment is never clipped takes the counter (`CounterInv`), what an allocated order holds (`WholeInv`) and that no more is reserved than there is; `NeverOversells` itself is checked by no run, `MovementsExplain` fails without it |
| `RowsCorrect` | `RowsHonest` | `RowsInv`: only an approved order has left the stock, and every live one has been allocated; for `CreateStatus` = draft, as the pages and quotes create orders |
| `NothingIsForgotten`, `NobodyOvertaken` | `NothingForgotten`, `NotOvertaken` | themselves with `TypeOK`; no hypothesis on `CreateStatus` |
| `ImplementsPromise` | `KeepsPromise` | the refinement of `StockPromise`: each RPC is a step of the promise or a stutter; for `CreateStatus` = draft |
| `OrderStockTxProofs`: `SessionsKeepTheirRows`; `CounterIsEnough`, `NobodyIsPromisedTheSame`, `WholeLinesLeave` | `CounterCovers`, `NeverOversells`, `ShipsWhole` | `TxInv`: what each session has locked, reserved, lowered and served, against what is committed; see below |
| `SessionsStaySound`; `CancelledHoldNothing` | `CancelReleasesAll` | `Sound` with `TxInv`: an order that has ended has no reservation, and none is about to be committed to it; see below |
| `ApartNothingDrifts`; `ApartRowsAreExact`, `ApartCommitsAreAtomic` | `RowsExactApart`, `KeepsPromiseApart` | `TxInv` and `Exact`: when the two bad overlaps are kept out, what a session has read still is what is committed |
| `QuoteOrderProofs`: `TypeCorrect` | | which statuses a request of each kind can have read |
| `LockCorrect`, `OpenQuotesOnly`, `SettledOnce` | `LockHolds`, `OrdersOnlyForOpenQuotes`, `EndsStayEnds` | `TypeOK` and `LockHolds`: the acceptance acts on a reading that the row lock keeps true; the other requests compare and set |
| `ServicesProofs`: `TokensAreKept` | `TokensKept` | `TokenInv`: who works holds the lease, knows the stored version, and is about to store a token that is alive |
| `NoSecondRecord` | `OneRecord` | `RecordInv`: the records are made for different rows, each its row's already or about to be written by the one who holds the row's lease |
| `MailIsTold` | `MailTold` | `MailInv`: what a worker has noted of its letters agrees with the log, and a log entry moves forward only |
| `WarehouseProofs`: `SyncSafe`; `SecondDocumentNeedsStaleRun`, `DoneHasAll` | `DuplicateNeedsStaleRun`, `DoneIsComplete` | `SyncInv`: what a run has read of the attempt marks is what stands, unless it was outrun; what it is about to write fits the step; a step behind the order's is complete |
| `PurchasingProofs`: `PurchasingSafe`; `WarehouseProofs`: `IncomingIsOne` | `IncomingAgrees` | `PurchaseInv`: each commitment follows its line (`LineFollowed`), and a request that has read a status may do only what that status allows |
| `WarehouseProofs`: `NothingTwice` | `BoughtOnce` | `PurchaseInv` (who draws is alone unless the race was noted; orders that lost their link with their lines are outside of it, as they are outside of the code's guard) and `RfqInv`: lines are ordered by the award only, and letters and sendings have the version of the request unless a sending died or the request changed during one, which is noted |
| `AlertsTellTheStatus` | `AlertsFollow` | `PollInv`: each status was the invoice's when it was asked, a run that did not overlap is alone, and each document is told of or its run is just about to |
| `ProductionExplainsStock` | `StockExplained` | `ProductionInv`: a request owns the rows it has locked, so what it saw of its product still stands, and the entry it undoes still is as it read it |
| `ScansSettle` | `ScanSettles` | `ScanInv`: while nobody disturbs a run, each type of alert is answered now or will be by a write the run still has to make, and no such write makes another wrong |
| `EndsAreFinal` | `DoneStaysDone` | `PurchaseInv`, `SyncInv` and `ScanInv`: three action properties of three parts |
| `DeskProofs`: `AssistantKeepsBounds` | `AssistantBounded` | `VoiceInv`: what the hook's references point at is what the browser has given out; `LimitInv`: what let the calls of the last window through, Redis or the memory of the process, has counted them |
| `ImportsAreAppliedOnce` | `ImportedOnce` | `DocumentInv`: while no extraction has written over a claim, one session has it, what it wrote is what is counted unless a document was given back, and no line is forgotten; `BatchInv`: one person confirms, and the row has one draft |
| `RecordsKeepAgreeing` | `RecordsAgree` | `MirrorInv`: what a run has read of stock and notes still stands while nothing moves; `BillInv`: one run acts on the row as it is |
| `FilesStayWithRows` | `FilesKept` | `ArchiveInv`: an archiving owns the file it has uploaded until its row stands, and undoes what fails; `StoreInv`: each file is linked, or somebody still has to link or remove it |
| `SuggestionsTellTheTruth` | `SuggestionTells` | `AdviceInv`: rows are numbered without a gap and age in that order, at most one is open, and what an undisturbed run has read still stands; `PageInv`: the page is settled, or a load is under way that will settle it |
| `TabsForgetNothing` | `TabTells` | `EditorInv`: a quote was made by the one form that knows or will learn of it, and a text that was sent is gone or about to be; `ListInv`: the list agrees with the server unless a change, an answer or a broadcast is on its way |
| `DecisionsAreKept` | `DecisionsHold` | `AdviceInv` and `ArchiveInv`: two action properties of two parts |

**Why the statements may interleave.** A transaction of `OrderStockTx` reads without waiting, and what
it has read may be old when it writes. `TxInv` says why that does no harm. A session has a row
locked only where its statements so far have locked it, and the rows it must have it
has (`Locks`); a row nobody has is in one version (`Free`). What it has reserved is one line, split
between reservation and shortage (`Reserved`); what it has lowered the counter by is no more than its order
holds, since a cursor that is out of date has seen too little and never too much (`Lowered`);
what a resolution has served went from shortages to reservations within the free stock (`Served`). The counter is
then compared not with what orders hold but with what they *will* hold once the owner of the product
has committed: `LeftBy(t)`, which takes an order's uncommitted reservation where `t` has one and
nothing where `t` is about to empty it. That sum is within the counter `t` has written; at the commit
it becomes the sum of the rows, which is `CounterCovers`. `Whole` is what a shipment relies on: an
order marked allocated has its whole line in its reservation.

The inequality cannot be sharpened, for the counter does drift upwards: a cancellation that overlaps a
resolution lowers it by what its cursor has read (`counter_drifts`), and a submission of an order just being deleted leaves the counter
too high. The rows do not drift with it. `Sound` says why nothing stays open on a cancelled order: whoever inserts a
reservation for an order has the order's row, by the foreign key, and so has seen it live; whoever enlarges
one has its row, and the cancellation, which releases what the row holds by then, waits for it. `Exact` holds where these two overlaps do not occur: the session's copy of its order is the
committed one, its cursor has seen all that the order holds (`UpToDate`), and the inequalities are equations.
From it each commit is one step of `StockPromise`, and every other statement a stutter. So the two overlaps are
not only bad for the counter, as the violation run and the hazards show, but all there is, for any number of
sessions and orders. `Apart`, that `Exact` holds in such behaviours, and `TxInv` were checked on the run's
instance before they were proved.

`TotalsTheorems` says how a total changes when one entry, or every entry, does, and that an
entry is no larger than a total of naturals; the counter of reservations and the stock that
production explains both rest on it.

What stays with TLC, and why:

- Liveness (`Settles`, `PaymentsArrive`, `Drains`, `DeadQuoteReleases`, `LostReservationShows`) is out of this prover's reach, as is
  `ENABLED`.
- What a recursive definition computes for every input: induction over data needs theorems the installed provers cannot
  instantiate. `Total` is therefore not recursive but the cardinality of the set of units, and
  its lemmas come from the library's facts on finite sets; `Production` has its rows as a set for the same reason.
- `PartsMakeTheWhole` of the desk: that lines add up to a total and pages to a list is induction over them.

## 5. Known to be so, without a run of its own

Behaviour met while modelling that a model contains and its properties name as
an exception, or that lies just outside a model:

- A refused `approve_order` returns instead of raising and so keeps the shortages it
  inserted; the retry meets the unique index of open shortages and raises, until the lines can be reserved whole, and is
  then approved beside shortages that are still open. Only for orders created as pending and never allocated.
- The delete route checks and deletes in two calls; a submission in between is deleted
  with its order and stays in the counter.
- A heading line (no product, price or quantity) passes the send's validation but not the RPC
  that makes the order; the reconciler then shows an alert every time.
- The reconciler looks at rejected and expired quotes, not at revised ones: a failed cancellation
  after a revision is not made good.
- `claim_notification_outbox` takes no row in state `processing`: the notification of a worker
  that died is stranded (`Stranded` in `MailOutbox`), although its lease runs out.
- `markStepDone` resets the retry count, and each run marks contact and product done
  again. A failing later step is counted anew: the five retries the audit speaks of are reached
  only by failures before the first step is through.
- A resolution that inserts a reservation while the order is being cancelled waits for the cancellation,
  which waits for the shortage the resolution has locked: one of the two is aborted.
- The application of a document that attached only images to products lacking nothing counts nothing
  as done and gives the document back; it can be applied again, and attaches them again (`gaveBack` in `ImportDocument`).
- Mapping a table anew after rows were booked, or while they are being confirmed, makes new drafts of the same rows,
  which can be booked again ("remapped" in `ImportBatch`).
- An order whose totals were written by hand, or whose prices are finer than a cent, may be refused for its
  discount or invoiced at another total (`byHand` and `InCents` in `InvoiceTotals`); without a discount nothing compares them.
- A recorder that cannot be made or started leaves the microphone open until the page is left (`GrantInVain`); a failed reading
  of a file's path deletes the row and leaves the file (`FileStore`).
- A commitment settled by itself, and the two answers then part (`byHand` in `Purchasing`).
- A document's archive is stuck when the file is in the storage without a row, after an upload
  whose answer was lost or two overlapping archivings: uploads replace nothing
  (`RetryHeals` names both). The comments speak of healing by itself.
- The list of errors: the cursor of "more" falls back to the first page's, so the button stays;
  the pages of the filter that was left remain on the screen; a refreshed first page no longer joins the
  second; the snapshot in the cursor bounds nothing that the place does not.
- The workflow of crons calls neither `poll-payments`, `reconcile-stock` nor
  `sync-purchase-all`, which the accounting runbook tells the operator to schedule: the fairness
  assumed of `PaymentPoll` rests on that.

## 6. Not modelled, and why

- Authentication, permissions and the guards of requests: a request of a model has passed them.
- Master data, settings, notes and company files: single-row writes without a protocol
  (company files are created by the calls `FileStore` models).
- Rendering of documents, charts, filters, texts, prompts and the fallback texts of the language model;
  audit rows; rates of exchange; money outside `InvoiceTotals` and quantities outside the
  modules that count them. Most of the repository's lines are of these kinds: pages that
  show data, forms without state of their own, and their tests.
- `shipped_at` and `parasut_step` after a shipment; `ParasutSync` starts from a written step.
- The session-level scan lock: which session of the pool a request gets is configuration
  outside the repository. `QuoteOrder` takes scans to exclude each other, `AlertScan` allows that they overlap.
- `POST /api/orders` with the `quote_id` of a quote in its body (093:114): `QuoteOrder` has the orders that quotes make.
- In `ParasutSync`, the e-document of the manual type (parasut-service.ts:832, 938), which no code ever sets, and the limit of
  the job that syncs pending orders (1489), which takes any fifty of them: with more, an order may be left out again and
  again, while the model's job always reaches the one order, so `Settles` speaks of a backlog of at most fifty.
- Bills of materials that change between a production and its reversal.
- In `AdvicePage` a decision is made only while no load is under way. In `ListCache` loads do not fail.
- `RateLimit` has one process: each further one counts in a memory of its own while the circuit is open.
- `serviceUpdateAlertStatus`, which checks and then writes by id; `DeleteQuote` as two calls;
  `update_quote_with_lines` racing a send (`EditQuote` is one step); commitments entered without an order.
- The archives of requests for quotation, replaced certificates, and, in the developer console,
  bugs, metrics, health checks and the merged log.
- SWR's deduplication window, and loads of other lists than the customers', which work alike.
- That `try_resolve_shortages` is called after stock came in: its failure is
  logged and nothing calls it again, so there is no promise to check.
- Deadlocks between stock transactions are not told from other aborts in `OrderStockTx`;
  `Production` has them as such.

## 7. What is left

Proofs: every invariant and action property of the runs but `PartsMakeTheWhole` is a theorem.
`OrderStockTx` has one product; several would add the order in which their rows are locked.

Models: the scan lock over sessions, the write after a shipment, and a quote's lines
under a concurrent edit.
