# TLA+ verification of RetrieverShop Suite (magazyn)

RetrieverShop Suite is a Flask application for one warehouse: it imports orders
from Allegro and WooCommerce, creates shipments, prints their labels, keeps
stock and its value, follows parcels and handles returns. This directory holds
TLA+ models of the parts in which several actors share state, the TLC
configurations that check them, and TLAPS proofs about them.

    tlc -workers 2 -config PrintAgent.cfg MCPrintAgent
    tlapm PrintAgentProofs.tla

`PROJECT.json` lists the runs, the properties, the lines of source behind every
definition, the hazards and the findings. Paths below are relative to
`src/magazyn`.

## 1. Inventory

Processes: gunicorn runs six workers (`gunicorn.conf.py`). Every worker calls
`app_runtime.py` on boot; one of them wins `agent.lock` and runs the printing
agent thread, one wins the scheduler lock and runs the synchronisation thread
(`order_sync_scheduler.py`), the token refresher, the price reports and others.
All serve web requests. They share the PostgreSQL database, the settings table,
and files beside the log; there are no row locks except in the invoices.

| Component | State | Operations | Correct when |
| --- | --- | --- | --- |
| Print agent (`label_agent.py`, `services/label_agent_loop.py`, `print_agent_*.py`) | tables `label_queue`, `printed_orders`, `agent_state`; in memory `queue`, `printed` | one iteration per poll: load, drain the queue, collect orders, print, consume stock, mark, save | each order is printed once but for failures, stock follows paper, nothing is lost |
| Agent lock (`services/runtime.py`) | `agent.lock`, `agent.lock.heartbeat`, the open file and flock of each process | clean up, acquire, beat, release | one agent, and always one again |
| Stock (`services/stock_records.py`, `stock_adjust.py`, `return_stock.py`, `order_cancel.py`) | `product_sizes.quantity`, `.stock_value`; `sales` | purchase, sale, correction, restore after return or cancellation | pieces and value agree, returns give back what sales took |
| Allegro events (`services/order_events_sync.py`) | settings key `ALLEGRO_LAST_EVENT_ID`, `order_events`, orders, statuses | read cursor, fetch pages, handle, commit, save cursor | no event is lost, statuses follow Allegro |
| Order statuses (`services/order_status.py`, `status_config.py`) | append-only `order_status_logs`; the newest by timestamp counts | `add_order_status` from the agent, three synchronisations, scanning, cancellation, returns | no status goes back, terminal ones stay |
| Fulfilment and parcel tracking (`order_fulfillment_sync.py`, `parcel_tracking.py`) | statuses | poll Allegro, write statuses in a long session | does not overwrite newer statuses |
| Scheduler cycle (`order_sync_scheduler.py`, `order_sync_cycle.py`) | none | twelve stages in turn | one failing stage does not starve the others |
| Shipments (`print_agent_shipment_creation.py`, `print_agent_runtime_shipments.py`) | `agent_state["sm_shipment:<order>"]`, shipments at Allegro | create command, wait, tracking, store id | one shipment per order |
| Reprint page (`history.py`) | `label_queue` | load queue, fetch labels, save the rest | does not disturb the agent's queue |
| Scanning (`services/scanning.py`) | session cookie, statuses | scan parcel, scan products, auto-pack | only printed, complete, open orders are packed |
| Returns (`return_core.py`, `return_allegro.py`, `return_woo.py`) | `returns` with status and flags | create, track, deliver, expire, restore stock | a finished return stays finished, what arrived gets back to stock |
| Refunds (`return_refunds.py`, `order_cancel.py`) | `refund_processed`, money at Allegro or Woo | validate, refund, mark | money moves once |
| Notifications (`notification_retry.py`, `notification_delivery.py`) | `orders.emails_sent` | send, mark, retry | each message goes out once |
| Tokens and settings (`allegro_token_refresher.py`, `settings_store.py`) | tokens, a cache per process | refresh, store, reload | the newest refresh token is never lost |
| Invoices (`invoice_service.py`) | `orders.wfirma_invoice_*`, `wfirma_correction_*`, the papers at wFirma | lock row, issue, commit; correct after an edit, a cancellation, a refund | one invoice per order, and the papers say what happened to it |
| Item edits and manual orders (`order_item_edit.py`, `order_import.py`) | lines of an order, `items_locally_edited`, stock | change the variant of a line, put the old piece back, take the new one | stock follows the line; an import does not undo an edit |
| Stocktake (`blueprints/stocktake.py`) | `stocktakes`, `stocktake_items`, quantities | start, scan, take back, finish, apply | what it corrects is right, also when the shop goes on selling |
| WooCommerce (`woo_order_sync.py`, `woo_stock_reconcile.py`) | orders, pushed quantities | import, push stock | no import revives a cancelled order |
| Price reports (`price_report_*.py`) | `price_reports`, items | start, resume, restart, check in batches, recheck, resume at boot | every offer is checked, or it is known why not |

Interactions. A synchronisation stores an order with status `pobrano`. The agent
collects it, creates its shipment, prints its labels, consumes its stock
(`domain/inventory.consume_order_stock` calls `consume_stock`, which writes
`sales`), and writes `wydrukowano`. Scanning makes that `spakowano`; parcel
tracking moves it on. A cancellation or a return gives the stock back against
the same `sales` rows, an edit of a line gives one piece back and takes
another, a stocktake sets quantities. Everything is polled; there are no queues between the
components but the tables.

What is hard. (1) The agent works through a database commit, a printer and a
stock commit per order, and may be killed between any two. (2) Six processes
start and stop around one lock file that any of them may remove. (3) Web
requests and threads change the same stock row without locks. (4) Events are
handled in a session whose commit and cursor are two stores. (5) Many writers
decide by the newest status they read earlier. (6) Shipments, refunds, mails,
invoices and tokens act on the outside before the database knows. (7) Pages and imports
write what they loaded minutes ago: a variant, a status, a count. `PROJECT.json`
lists each of these at its line as a hazard, with the properties that
cover it, or why none does yet.

## 2. Modules

### PrintAgent and Fulfilment

`PrintAgent` is one iteration of `run_print_iteration` after another, with each
commit, each label and each stock consumption a step. `table`, `printedDb`,
`status`, `errlogs` and `tracked` are the database; `paper` and `sales` are what
has happened outside the thread; `queue`, `printed`, `todo`, `kept`, `task`,
`step`, `cur` and `left` are the thread's variables, lost by a kill.
`StartIteration` loads and restores (`_restore_in_progress`), `DrainPick` to
`DrainDone` are `PrintQueueProcessor.process`, `PrintNow`, `QuietQueue`,
`SkipOrder`, `MissingLabels` are `PrintOrderProcessor.process`, and `PrintLabel`,
`ConsumeItem`, `MarkPrinted`, `WriteStatus` are the work on one order, shared by
both. `Crash`, `Restart` and the `...Fails` actions are failures: one of each
call that can raise, caught or not caught where the code does. `Cancel`, `Pack`
and `Arrive` are the other writers of the status, as the agent can see them.

`Fulfilment` is the promise to the warehouse, without any of this: a label comes
out, again only on the account of a failure; a piece leaves stock only against a
complete set of labels not yet used. `PrintAgent` implements it (`Fulfils`, with
the variables of the same name as the refinement mapping).

Abstractions: all items of one order share their status and retry count (the
code sets them together); the order in which a loop visits orders is arbitrary;
the rows expiring from `printed_orders` are any subset; `DrainDone` merges the
save and the fetch that follows it; waits, messages and shipment calls are left
out, a shipment without label is `MissingLabels`. Assumed: the database can be
written, `lp` returns, orders are paid or cash on delivery, and no two status
rows of an order have the same timestamp.

### AgentLock

`HeartbeatFileLock` and the start and stop of the agent thread in every worker,
a step per system call. `path` is the inode `agent.lock` names, `file[p]` the
one worker `p` has open, `lockers` those that hold `flock`; a file removed while
open lives on, and another can be created under its name. `Kill` and `Exit` end
a worker, which gunicorn replaces. `HeartbeatAges` stands for four poll
intervals without a beat. `StopThread` models the join of five seconds: the
thread may outlive it. `stolen` counts removals of a lock file that another
worker has open. A change of `LOG_FILE` while running is not modelled, and the
scheduler lock, whose file nobody removes, needs no model.

### Stock

One variant (`product_sizes` row), its `sales` rows and the returns of its
orders. A session loads the row, computes, and commits; the check of a return's
flag or an order's status is an earlier step of the same session. `Commit`
writes only the columns that changed since the load, as SQLAlchemy does, at READ
COMMITTED and without row locks. Values are in groszy; `Rounded` is the half-up
rounding that the numeric column or `quantize` applies. Operations: purchase,
sale, corrections with and without price, restore of a return, cancellation.
`torn` and `paidBack` are history: whether the row's last change was computed from a row
that another session had changed meanwhile (`Overtaken`), and what a sale's returns paid back, in
how many parts, and whether two sessions counted from one number. Left out: orders with several lines,
product matching and the `Unknown` placeholder, alerts, the push to WooCommerce; which
variant an edited order takes is `Goods`. `DeliverReturn` is the creation and the delivery of a return
in one step.

### EventsSync

`sync_from_allegro_events` step by step: cursor, pages, each event, commit,
cursor. `journal` and `remote` are Allegro's side: the detail fetched for an
event is the order as it is now, not as it was. `work` is `db` as the open
session sees it. `CancelUnknown` is the cancellation of an order without a row,
whose foreign key fails when the savepoint flushes; `Store` is the foreign key
that is taken for a duplicate. The agent reads the status when it collects an order
(`Collect`) and marks it when its label is printed (`PrintOrder`), without looking again:
`collected` is what it has in hand, `revived` the orders it marked although their
cancellation had been recorded meanwhile. Event types that change nothing are left out;
`PrintOrder` and `SyncAll` commit between runs only.

### OrderStatus and OrderLife

Everybody who appends to `order_status_logs`. A session is a transaction: it begins
with its first query (`Begin...`), asks Allegro or the carrier (`Ask`) or for a refund
(`Refund`), reads the newest row again and adds its own (`Decide`, which is
`add_order_status` with `Wanted` and `Added`), and commits. `seen`, `got` and `row` are
its variables. The timestamp of a row is `now()`, which PostgreSQL fixes at the start
of the transaction (`models/orders.py:136`), so a row that is committed late may never
be the newest: `older` and `behind` keep this order of the open transactions instead
of the log. Kinds of sessions: the agent's `print`, `error` and `track`; the
scheduler's `fulfilment`, `parcels`, `import`, `returned`, `expire`, `unpaid`; the
requests `cancel`, `scan`, `edit`, `reprint`, `return`. `form` and `parcel` are Allegro
and the carrier.

`OrderLife` is what a status promises to those who look at it: it goes forward, or to
and from a problem, unless two writers overlapped. `OrderStatus` implements it
(`FollowsLife`), with the status of the newest row as `status` and the orders an open
session is about to write on outdated knowledge as `contested`.

Abstractions: the import stands for the events and the manual synchronisation,
and for a cancel event as the import of a cancelled form; `returned` are the
pending returns without a parcel; the agent's tracking, which commits after each order,
is a session per order, the later ones without a transaction at first (`between`);
rows of one transaction have one timestamp and are not distinguished.

### Shipments

How shipments are ordered, remembered and printed. `made` are the shipments at the
carriers, `stored` is `agent_state["sm_shipment:<order>"]`, `number` is
`delivery_package_nr`. A session (the agent, or a page that prints a label again) goes
through the places of `pc`: read the remembered shipment, order one, wait for the
carrier's command, read the waybill, save, fetch the label, replace an expired
shipment, print. Allegro's shipments are remembered when the command has ended,
InPost's before it is waited for; the wait is also where our process buys the offer
(`Buy`), without which InPost never confirms (`Confirm`), and the next try of an order with a
remembered shipment does not come there again. A page asks Allegro for every label, so that it
prints none of a WooCommerce order (`Prints`). `memory` is `last_order_data`, which pages of the
agent's process share with it. A fetched label is printed and marked in one step;
`PrintAgent` is about what may happen in between.

### Returns

One order on either platform, its rows in `returns`, and the money. The scheduler's
stages are steps at the moments at which others may write: `Fetch` (Allegro's list or
the withdrawals), `Apply...`, `BeginTracking` and `EndTracking` (a session with calls in
it), `Restock`, `Expire`. Short requests and webhooks are one step. A refund reads
(`BeginRefund`), pays at Allegro (`Pay`) and records (`Record`) in three. `slips` counts
what may cost a second payment: lost answers, kills and overlapping payments. `.first()`
without an order may find any of an order's rows: each request takes one by `\E`. `leads`
says whose items lead to a product of the warehouse, Allegro's rows or the others: the
stage that restocks looks a product up, and a row whose items lead nowhere stays delivered;
one item that is found marks the whole return, and that is all of a return's items the model
has. A restore may also fail (`Restock`), and is tried again by the next cycle.

### Notices and Tokens

`Notices`: one Allegro order, the messages of its statuses and its invoice. A writer of a
status (`Load`, `Flush`, `Dispatch`, `Commit`) sends in its transaction and marks
`emails_sent` in the copy it loaded; `MarkRetried` and `MarkInvoice` are the scheduler's.
Both HTTP clients post again, within one call, when an answer was a time-out or a 5xx
(`allegro_api/core.py:139`, `wfirma_api/client.py:113`): `AnswerLost` is a message that
arrived although the client posts it again (`DispatchAgain`, `RetryMailAgain`,
`MailInvoiceAgain`, and `CreateAgain` for the invoice), each at the cost of one failure,
which stands for the limit of attempts. `cycle.stage` is 0 for the pending invoices, 1 to
3 for the three messages of the retry, 4 for its invoice. `Locked` and `Holding` are the
row lock of the invoice (`FOR UPDATE`) and that of the foreign key of a status row. The
age limits of the retry (14 days) and of invoices (7 days) are left out, the order being
young; an order that is cancelled, and messages that are not Allegro's, too.

`Tokens`: `db` are the settings of Allegro's tokens, `cache[w]` the copy of each gunicorn
worker, `behind` those that `_refresh_if_stale` would load again. `Refresher` is
the thread, `Callers` calls that are answered 401 (`refresh_allegro_token`) or 403, which
makes them exchange a token that has not expired as well (`shipment_management.py:65`), or the
synchronisation of offers, which invalidates the access token when it fails. Allegro
accepts the newest refresh token only; this is an assumption about Allegro, whose
documentation is not in the repository. A token is due when it has expired: the margin of five
minutes is left out. `Authorize` is the admin's answer to an alert.

### PriceReports

The reports, their rows by offer, and the one worker thread each gunicorn worker may
have. `Create`, `GoOn` (resume, restart and the resumption at boot) and `Final` are the
transactions of `price_report_scheduler.py`; `Mark`, `Fetch`, `Check` and `Finish` the
worker's. A check in the browser lies between `Fetch` and `Check`, so that two workers,
or a worker and a recheck from a page, overlap there. Which of our offers is the cheaper
one of a variant is a constant (`Cheaper`): changes of prices are left out, and the
order of the batches is any. `status` and the deletion of rows in a resume or restart
are one step although they are two or three short transactions. A price check that hangs,
and a database that fails outside the batches, are not modelled but as kills.
`excuse`, `erased`, `shared` and `lost` are history: why an offer may be missing.

### Corrections

The papers of one order with one line. `billing` is the scheduler's invoice, which holds
the row lock (`Unlocked`) while wFirma issues it; a request (`req`) goes through `Load...`,
`Pay...`, `Commit...`, and then, in a session of its own, `LoadInvoice`, `AddCorrection`,
`Record`. `order` holds the line now and as sold, the name on the invoice and whether a
correction was recorded (`slot`: one column for all kinds); `papers` are the corrections
at wFirma. `reasons` and `crossed` are history: how often the order changed since its
invoice, and whether two changes overlapped. wFirma's client posts a correction again whose answer was
lost (`AnswerLost`). Amounts, PDFs and the search for lines by
similar names are left out; a name is found or not.

### Goods

Which variant an order of one piece takes off the stock and which one comes back. The
agent consumes by the ean it collected (`agent.ean`), the page writes `product_size_id`
(`order.line`) and the ean if the new variant has one, an import rewrites both unless it
loaded `items_locally_edited`, a cancellation puts back the line, a return what its items
name. Quantities change by one at the commit: lost updates are `Stock`'s subject. `gone`
are the pieces an edit wrote off; `excuses` says why the books may be wrong, and
`BooksMatchShelves` says nothing of what follows an excuse.

### Stocktake

Two transactions per request, loading and committing, without locks. `rows` are the
`StocktakeItem`s, with `at` for `scanned_at`, of which only the order matters; `work` is
what a request has in hand. `count` and `last` are the person who scans: how many pieces
of each variant are counted, and which was the last. `due`, `before`, `after` and
`spoilt` are history: how many pieces there were at the first scan of a variant, whether
one moved before or after that, whether scans overlapped. `Shift` is a sale or a delivery,
`EnterBarcode` the product form; the person takes back only what was scanned last. What a
correction does to the value of stock is `Stock`'s.

`MCOrders` runs `OrderStatus`, `Corrections`, `Goods` or `Stocktake`, `MCOutside` runs
`Notices`, `Tokens` or `PriceReports`, `MCReturns` runs `Stock` or `Returns`,
`MCPrintAgent` runs `PrintAgent` or `AgentLock` (with two workers or with three),
`MCProgress` runs `OrderStatus` or `Returns` for what must happen in the end: those
modules share nothing there, so the initial state chooses one (`part`) and the others keep
still. `MCAgentLock` and `MCPriceReports` are for their violation runs.

### Checking and proving

`MC*.tla` give the constants of the models values for TLC. `*Proofs.tla` hold
theorems; they extend the component's module, or the `MC` module that contains it, and `TLAPS`. Definitions whose name
extends another's (`ConsumeItemRetried` before `ConsumeItem`) are plausible bugs of
the definition after them: with it in place of the original, the property that
`PROJECT.json` pairs it with is violated.

## 3. Runs

| Run | Instance | Question | Result |
| --- | --- | --- | --- |
| `print` | 1 order of 2 labels and 2 positions, 3 failures or kills, one quiet time, one cancellation, 2 retries; or 2 workers, 3 exits or kills; or 3 workers, one exit or kill | stock follows paper, repeats are paid by failures, nothing lost outside quiet hours, refinement of `Fulfilment`; stored and collected orders get done; a second agent needs a stolen file, agents differ in their files, an agent comes back | holds, 544 thousand states |
| `lock_one_agent` | 2 workers | does one agent run? | no |
| `events_sync` | 2 orders, pages of 2, 2 pages, one kill or failed page, one lost detail | nothing lost, statuses right, printed orders stay, only one cause stops it | holds, 3002 thousand states |
| `events_stuck` | the same, no failures | does the cursor always catch up? | no |
| `orders` | 1 order; the agent's print, import, fulfilment, 2 requests that cancel or scan, one session killed; or invoicing and 3 requests of 2 pages; or the agent, an import and 3 requests on 3 variants, one without a barcode; or 2 stocktakes of 2 variants, 5 requests of 2 pages, one piece moved | the status follows `OrderLife`, one refund, pollers leave a cancelled order; papers and stock follow the order; what a stocktake applies is right | holds, 2028 thousand states |
| `progress` | 1 order; print, tracking by agent and scheduler, one request, returns, expiry; no session killed; or its returns, one request, 1 failure or kill | a delivery is shown in the end; goods get back to stock | holds, 308 thousand states |
| `shipments` | 1 Allegro and 1 WooCommerce order, the agent and one page, 2 failures | extra shipments are explained, an order is tracked by its own parcel and gets its label, but for an offer nobody buys | holds, 867 thousand states |
| `shipments_address` | the same | is a label addressed to its order's buyer? | no |
| `stock_returns` | 2 sessions that overlap, 5 transactions, 2 orders, 2 returns; or 1 order, one Allegro return or two withdrawals and a manual one, 2 requests, 1 failure or kill | values and counts agree to the rounding unless a session was overtaken; money once, one row per return, settled returns stay | holds, 2738 thousand states |
| `stock_overtaken` | the same | is an emptied variant always worth nothing? | no |
| `outside` | one order, two writers and the cycle, 1 failure, lost answer or kill; or two workers, 2 expiries, 1 failure or kill, 1 form or other setting; or 2 offers of a variant, 2 reports, 2 workers, 2 requests, failures or kills | repeats are explained, the buyer is told, the refresh token is not lost, dead tokens are noticed; reports explain their gaps, keep their results, are resumed | holds, 372 thousand states |
| `reports_restart` | 3 offers, batches of 2, one request or failure | are the rows a restart removes checked again? | no |

Why the bounds are enough. In `PrintAgent` the orders are independent but for the saves of
the queue and the loops over it; the theorems cover any number of them, and the run spends
its bounds on one order: two labels and positions for a partial printing or consumption,
two failures for a kill during the recovery from a kill, three for a retry on top,
`MaxQueueRetries` for giving up. Three workers let one steal while two others race, which
needs one exit; two workers with three exits let a replacement be replaced. In `Stock`,
five transactions are delivery, sale, a second delivery or correction, and two partial
returns or a cancellation, any two of them at once; deliveries of two pieces, corrections
to 0 and 3 and prices of 5 and 10 make averages that are not whole groszy. In `EventsSync`
five events can be outstanding against a limit of four per run, so that a run ends at its
page limit; one kill places itself before or after the commit, or takes the agent after it
marked an order and before its queue was stored. `OrderStatus` has as many overlapping
sessions as there are writers (agent, scheduler, two requests), so that a third commit may
fall between two others; the status of one order does not depend on another's but by what
the sessions have in hand, which the proofs cover. In `Corrections` three requests are an
edit, and two later changes on two pages, or the change that overlaps. In `Goods` a third
variant is the one without a barcode, and quantities of 1 and 2 let stock run out. In
`Stocktake` five requests are start, two scans (or one that is taken back), finish and
application, or start, scan, finish and two applications that overlap. In `Shipments` the
second order is the one whose data are left in `last_order_data`; two failures are one
before and one after the id is stored. In `Returns` any row of an order may be found, so
that two withdrawals of WooCommerce, or a manual and an Allegro return, are enough to use
the wrong one; two requests make two refunds. In `Notices` two writers and the cycle have
one message in hand each; one failure leaves one message unmarked. In `Tokens` a second
expiry is needed for a copy to be one pair behind when it is used, and two workers for a
race. In `PriceReports` two offers, one the dearer of the other's variant, and batches of
one make a report that needs fewer batches than planned; the second disturbance is the
kill after a request. With three offers, batches of two and 528 thousand states the same
properties hold, too long for a run beside the others. `Max...` constants bound the
environment and appear in guards only.

`print`, `orders`, `progress`, `stock_returns` and `outside` put several modules behind one choice of the initial
state, so that TLC counts their actions under one name; its statistics per expression
(`-coverage 1`) show that `orders` takes the steps of `OrderStatus` that are left out of
`progress`: cancelling, scanning, import, fulfilment, a killed session.

Deadlock is checked in `PrintAgent` and `AgentLock`, which never stop. The others may
stop: their transactions, orders, requests or expiries are used up.

Fairness. `PrintAgent` and `Shipments`: the agent takes a step when it can (a thread with
one loop), a killed process restarts (`restart: always` in `docker-compose.yml`), quiet
hours end, a carrier's command ends, a page that was asked for a label goes on. Nothing is assumed
of failures, cancellations or packing. `AgentStep` and `Restart` are never possible together, nor are
`Start` and `Stop` of one worker, so that `MCPrintAgent` may state the fairness of each pair as one.
`AgentLock`: a worker that started to boot or to stop goes on; nobody has to
stop. `EventsSync`, `Returns`, `Notices`: the scheduler's loop runs again, whatever
happened in the cycle before. That a detail call succeeds need not be assumed, because
an import that fails is passed over. `OrderStatus`: a session that was begun goes on, and
the scheduler begins its parcel stage again and again: strongly fair, because other
sessions of the scheduler disable it meanwhile. `Tokens`: the refresher's loop and
the calls go on. `PriceReports`: a thread goes on (its calls have time limits, its waits
end) and a killed worker boots.

## 4. What the runs found

- `lock_one_agent`: every worker's exit hook removes `agent.lock`, although the worker may
  never have held it; its replacement locks a new file beside the running agent. The
  repository's README says one agent should run at a time.
- `events_stuck`: a cancellation of an order without a row fails the batch at its foreign
  key in every later run; a test expects the cursor to pass it.
- `shipments_address`: a page that prints the label of a WooCommerce order takes
  `last_order_data` as it is (`services/woo_inpost_labels.py:25`), which may be another
  order's: its address, and its id, go to InPost, and the shipment is remembered for this
  order. The Allegro path refuses the mismatch.
- `stock_overtaken`: `models/products.py:116` says that a variant without pieces has no
  value. A delivery loads an empty row; a correction adds three pieces without a price; a
  correction to zero loads those; the delivery commits two pieces and their value; the
  correction to zero finds the value of the row it had loaded unchanged and writes the
  quantity only (`services/stock_adjust.py:73`). `EmptyIsWorthless`, in `stock_returns`,
  says that only a session that was overtaken leaves such a row.
- `reports_restart`: `restart_price_report` deletes the error rows and counts the checked
  offers in the same session before anything is flushed (`autoflush=False` in `db.py`). A
  report whose offers all have a row has nothing left by that count; it is marked
  completed, and the offers whose errors were to be checked again have no row.

Behaviour the models reach that no document denies, or that they leave out, and that a
maintainer should know of:

- Printing: in quiet hours `wydrukowano` is written when the label has only been appended
  to the list in memory (`status_config.py:104` says after the print); `NoSilentLoss` says
  that this is the only way to lose a label. `skip_if_same` drops repeated `blad_druku`
  rows, so that the limit of printing errors is not reached
  (`services/order_status.py:130`). An order that is cancelled after it was collected,
  while its label waits or prints, ends as `wydrukowano`: the agent marks it without
  looking for `anulowano` (`print_agent_storage.py:176`), and no rank keeps a row from
  following that one.
- Stock: what exceeds the unreturned pieces is restored as well, so that an order that is
  cancelled and returned comes back twice. Each part of a return is rounded on its own.
- Shipments: the waybill of an expired shipment stays the order's number when another is
  created; a WooCommerce order whose label failed once is tracked by the bare id of its
  shipment; the history page marks an order printed even if there was no label. An InPost
  shipment that is remembered when a failure or a kill ends the wait is never bought:
  every later try only fetches its label (`services/woo_inpost_labels.py:27`), so the
  order is tried again without end. The page that prints a label again asks Allegro for
  it, whoever the carrier is (`services/order_labels.py:31`).
- Returns: a return settled by bank transfer is set back to in_transit or delivered by the
  next synchronisation (`services/return_allegro.py:184`), and a repeated WooCommerce
  webhook reopens one too. The page shows the newest return that is not cancelled and acts
  on whichever row the database finds first. A manual return and a later Allegro return
  are two rows: their goods are restored twice, and each may be paid once. A refund in
  transit that Allegro then closes never restocks. Items of Allegro's returns name no ean
  (`services/return_allegro.py:149`): their goods come back by themselves only if the
  lookup falls on a line of an order without ean and with a linked offer, which may be
  another product, and one item that was found marks the whole return restored. A lookup
  that fails on the page still leaves the return delivered.
- Notices: a message or an invoice whose answer is lost is posted again within the call,
  up to five and three times, without a key by which the other side could tell
  (`allegro_api/core.py:139`, `wfirma_api/client.py:113`). A failed message of an invoice
  is never sent again, because the retry asks for an order without an invoice
  (`services/notification_retry.py:105`). Invoices are issued for cancelled orders that
  have a label.
- Tokens: a settings form that was opened before a refresh and saved after it puts the old
  pair back under the new expiry (`services/settings_page.py:126`).
  `settings_store.update` makes a copy count as fresh although it missed another worker's
  write (`settings_store.py:105`); deleted rows stay in the copies of the others. The
  loser of a refresh race in the synchronisation of offers deletes the winner's access
  token (`allegro_sync.py:150`), and the refresher, which needs it to go by, can only
  alert.

- Invoices: an order that is cancelled after the variant of its line was corrected gets no
  correction to zero, because one column remembers both (`services/order_cancel.py:183`);
  only the first change after the invoice is sure to be on paper.
- Edits: a variant that is changed while the label waits in the queue, or whose new
  variant has no barcode and so keeps the old ean, leads the agent to the old variant. An
  import that loaded the order before the edit rewrites its lines. An edit adds the status
  it loaded once more, also over a cancellation that came between. Returns that Allegro
  reports name no ean, so that their goods are not put back by themselves.
- Stocktake: `stocktake_finish` asks for no status, so that a stocktake can be finished and
  applied again; a second undo takes back a piece of the item that was scanned last,
  not the scan before it; two clicks on "new" may both find no active stocktake; what is not
  scanned is set to zero, and what was sold between count and application comes back.

- Price reports: a start or resume that finds the worker of its process busy leaves a
  report pending or running that nobody works on, and no report starts on Fridays until
  somebody resumes it; at boot that befalls all but the newest. A thread of another
  process that saves a row sets a completed report running again. A failed batch counts
  as one, so that a report may be completed with offers that were never looked at.

Not covered by a property: the history page saves a list of the queue it loaded
before it called Allegro (`history.py:50`); stopping waits five seconds for a thread
and releases the lock whether it ended or not (`services/runtime.py:58`); a cancellation
and a return both give pieces back (`services/return_stock.py:134`).

## 5. Proofs

TLAPS proves these for every value of the constants that satisfies the named
assumptions of the modules (sets of any size, any bounds):

`PrintAgentProofs` (`IInv = TypeOK /\ Control /\ PaperBound /\ SaleBound /\ StoreInv
/\ LossInv`). `SalesCoveredByPaper` is not inductive: in the middle of an order
some labels are one ahead. `Control` says what `cur`, `left` and `task` may be at
each step; `PaperBound` that an order has at most `faults` copies of a label when it
may be printed again (`Again`) and one more once it is done; `SaleBound` the same
relation between sales and paper per step; `StoreInv` where the entry of the order
in work is stored; `LossInv` where the labels of a marked order are. One lemma per
conjunct has a step per action. They give `TypeCorrect`, `SalesNeedPaper`,
`PrintsArePaid`, `ConsumptionIsPaid` (stock leaves at most `1 + faults` times),
`NothingLostSilently`, `StoredOrdersAreDone`, and `AgentFulfils`: initial states map
to initial states, a label to `Copy`, a sale to `Sell`, a failure to `Fail`, every
other step to a stutter.

`AgentLockProofs` (`LInv = TypeOK /\ Holding`, then `StealInv`). `Holding` says who holds
a lock at which place of the start and stop, and that the holders' files differ. It gives
`LockTypes` and `AgentsDiffer`. `StealInv` counts files, not agents: the files that some
worker has open but that `agent.lock` no longer names (`Detached`) are at most
`stolen`. All agents but one hold a detached file, each its own, which gives
`ExtraAgentsStolen`. The theorems are about `L!Spec`, all of `AgentLock`, without the bounds
that `MCPrintAgent` puts on it.

`StockProofs`. `CountInv` bounds what an open session is going to write: the counts it
computed are within the sale whatever the others committed meanwhile, because `quantity`
of a sale never changes. It gives `ReturnsBounded` for sessions that overlap in any way,
and with `MoneyInv` `StockTypes`: quantities, values and costs stay natural numbers, which
needs that `Rounded` and the shares of a cost do. Of the values a session needs only what
it has seen: what it will write is right for the row it loaded, and `Overtaken` says at
its commit whether that is still the row. `WorthInv`, that no session will write value
without pieces unless it leaves both, gives `EmptiedIsWorthless`; `SplitInv`, that an open
sale's cost and the value it leaves add up to the value it saw or a grosz more (two halves
of a grosz), gives `SalesSplitValue`; `PaidInv`, that what a sale's returned pieces paid
back differs from their exact share by at most half a grosz per part, gives
`PartsPayBack`. All three are for sessions that overlap in any way, and except the changes
of sessions that were overtaken themselves, or for the last the sales of which two
sessions counted the returned pieces from one number. The sum over a sale's parts is a sum
over a set; it is taken apart by induction over sets of numbers (`NatLessThanWellFounded`,
`WFMin`), which needs no operator parameter.

`EventsSyncProofs` (`IInv = TypeOK /\ JournalInv /\ StatusInv /\ AgentInv /\ Control /\
SessionInv /\ CoverInv /\ FollowDb /\ FollowWork`). `StatusFollowsAllegro` speaks of the
moment when nothing is left to read; what is true at every moment is that an order which
is behind Allegro has an event ahead (`FollowDb`), and in the middle of a run one that the
run will not skip (`FollowWork`, `Pending`): beyond the pages read, or not among the forms
already seen, or a cancellation. `StatusInv` says that no status is ahead of Allegro,
`AgentInv` that what the agent holds was paid for, `JournalInv` that an event implies the
state it announces, `SessionInv` how the open session extends the database, `CoverInv`
which events are accounted for. Every way of handling an event satisfies `Handles`, and
one lemma shows that `Handles` preserves the invariant. It gives `StatusesFollow`,
`EventsAccountedFor`, `PrintedOrdersStay` and `SyncTypes`.

`ShipmentsProofs` (`Control`, `NumberInv`, `PrintInv` and the accounts). `ShipmentsPaid`
counts the shipments of an order that cost; to be inductive it must count
those a page has ordered and not yet remembered (`Fresh`) and reserve one for
each page that may still order (`Asking`): together they stay within one, the failures
and the pages served. `Control` says what a session has in hand at each place and that
nobody else can know a shipment before it is remembered, `NumberInv` that a waybill is
of the order it is written to, `PrintInv` that before any page is served the agent's
shipment is the remembered one. It gives `ShipmentTypes`, `ShipmentsArePaid`, `TracksOwn`
and `RememberedPrinted`.

`OrderStatusProofs` proves the four parts of `MCOrders`.

- The status log (`IInv = TypeOK /\ Tidy /\ Answers /\ Read /\ Rows /\ Refunds`). The
  guard of `add_order_status` is checked when a row is decided on, the status changes when
  it is committed: `Read` and `Rows` say what a session knows of an order nobody else has
  written since it began (`stale`), so that its row still fits at the commit; `Refunds`
  that the one refund of an order belongs to a cancellation that is shown or under way.
  One generic lemma (`OverStep`) covers the ends of sessions, one each the other steps. It
  gives `StatusTypes`, `RefundsOnce`, `CancelledStay` and the refinement
  `OrderStatusFollows`.
- The goods (`GoodsInv`, for `BooksMatch`). In the middle of operations a missing piece is
  with the buyer, gone, or awaited by the second session of an edit; the claims are
  suspended while the agent is bound to make an excuse, because the order changed under
  the copy it holds (`Doomed`). `Course` says where the order can be and that the line is
  as sold until an edit, as long as there was no excuse. The proof found two guards of a
  `CASE` in an earlier form of the model that overlapped, which TLC resolves in the order
  they are written and TLA+ does not.
- The papers (`PapersInv`, for `PapersFollowOrder`). Where nothing failed or overlapped,
  at most one request is past its change, and it is the one whose correction is missing;
  the papers are otherwise untouched, or have one correction of the one change.
- The stocktakes (`TakeInv`, for `AppliedBooksTrue`). `InStep`: as long as scans did not
  overlap, an item has what the person counted, or one request is about to write it, and
  the newest item is the one scanned last. `StillThere`: a counted variant of which
  nothing moved has as many pieces as when it was first scanned. `SinceSnapshot`: the
  quantity differs from `expected_qty` as the shelf does from then, and so it does after
  an application that agreed. `SinceLoaded`: a quantity that a pending application loaded
  has only been set to the count meanwhile. TLC checked `TakeInv` with six requests and
  two pieces moved (2.4 million states). That `scanned_at` has a greatest value and that
  the snapshot has one item for each variant are lemmas about `Max` and `SetToSeq`.

`ReturnsProofs` (`IInv = Tables /\ Payments /\ Paged /\ OneRowPerClaim /\ Grounded /\
Money`). `Money` strengthens `MoneyBackOnce`: a payment that slips do not account for is
recorded in the order's return or a request has it in hand, and a request that is about
to pay and was not overtaken comes before any such payment; so the eligibility check of
a new request sees it, or the two overlap. `Paged` says that Allegro's page lists a
return once, `Grounded` that a payment belongs to a recorded return. The rows are edited
one by one (`Edited`, `RecordedKeeps`) or new ones come behind (`AllegroKeeps`), which
keeps different returns in different rows. It gives `MoneyGoesBackOnce` and
`ClaimsHaveOneRow`. `SettledReturnsStay` needs `HeldActive` besides: the tracking stage
holds only returns that were active when it began, so that a settled one it meets is
either left alone or opened by news (`News`).

`OutsideProofs` proves the three parts of `MCOutside`. Notices (`NoticeInv`): a message
that was sent is marked, or the session that sent it is still open, or the loss of its answer or its mark
was counted, and an invoice that was issued is stored, about to be, or counted as lost, for
`RepeatsAccounted`. Tokens (`TokenInv`): the pair that Allegro accepts is
stored, in the hand of the one that exchanged it, or excused, whatever copy of the
settings the others go by; with its types `NewestTokenKept` is inductive itself. Price
reports (`ReportInv`, `SoloInv`): a thread leaves no more offers unchecked than its
batches to come hold and failed batches, restarts and changes of offers excuse, for
`GapsAccounted`; in a report that only one thread has worked at, the offers of its batch have
no result yet, for `ResultsNotLost`.

Assumptions on the constants: bounds and sizes are natural numbers, `None` is none of the
values it stands beside, the processes that a model tells apart are different
(`SessionsAssumption`, `TokensAssumption`), orders of the two platforms are disjoint,
quantities and stock are natural numbers (`PartsAssumption`, `CountedAssumption`, which
also says that there are finitely many variants, as in any table). TLC evaluates all of
them in the runs.

Every safety invariant, every action property and both refinements that a passing run
checks are proved. Only model-checked: the liveness properties (`QueueDrains`,
`OrdersDelivered`, `AgentComesBack`, `OnlyUnknownCancelStops`, `DeliveredIsShown`,
`OrdersGetLabels`, `GoodsComeBack`, `BuyerIsTold`, `TokensWatched`, `ResumedIsDone`), since
fairness and ENABLED are outside the prover. Types that are proved are not model-checked
as well, and the types of `Returns` that its proof needs are weaker than its state space in
TLC, whose bounds are the run's. Not provable here: what a recursive function
computes for every argument, by an induction theorem with an operator parameter; where
sums were needed, a minimal counterexample in a set of numbers takes its place.

## 6. Plan and what is not modelled

To come, in this order: packing (`services/scanning.py`, its counters in the session
cookie and the parcel it is about); the push of stock to the shop
(`woo_stock_reconcile.py`); `Stock` with orders of several lines; the reprint page as a
second writer of `label_queue`, and two agents at once (`AgentLock` with `PrintAgent`): both multiply the
states of `PrintAgent` beyond what TLC finishes, and need a smaller abstraction of the
iteration.

Not planned: screens, forms and queries, the price scraper and the advertising
panel (browser automation), offers and promotions (copies of Allegro's
catalogue), discussions, statistics, migrations and scripts. They keep no
protocol with the parts above; `PROJECT.json` gives the reason for each.
