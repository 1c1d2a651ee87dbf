# A TLA+ model of dg_erp

dg_erp is an ERP of an electronics maker: the Odoo 16 modules `jinling_*` (sales,
purchase, stock, production, outsourcing, samples, quality, finance) and, next to
them, the job queue modules `queue_job*`, `restful` and `auto_backup`.  The
`jinling_*` modules have no tests.  This directory holds TLA+ models of the parts
that keep state, the TLC configurations that check them on small instances, and
machine-checked proofs of what holds for every instance.

Run from this directory:

    tlc -workers 2 -config SellDelivery.cfg MCSellDelivery.tla
    tlc -workers 2 -config Purchase.cfg MCPurchase.tla
    tlc -workers 2 -config Production.cfg MCProduction.tla
    tlc -workers 2 -config Outsourcing.cfg MCOutsourcing.tla
    tlc -workers 2 -config Samples.cfg MCSamples.tla
    tlc -workers 2 -config ChannelQueue.cfg MCChannelQueue.tla
    tlc -workers 2 -config ChannelManager.cfg MCChannelManager.tla
    tlc -workers 2 -config JobRunner.cfg MCJobRunner.tla
    tlc -workers 2 -config JobRunnerLive.cfg MCJobRunner.tla
    tlc -workers 2 -config JobGraph.cfg MCJobGraph.tla
    tlc -workers 2 -config V_PendingIsServed.cfg MCJobRunner.tla     # ends in a violation
    tlc -workers 2 -config V_PerformedInOrder.cfg MCJobGraph.tla     # ends in a violation
    tlapm SumsProofs.tla
    tlapm SellDeliveryProofs.tla
    tlapm PurchaseProofs.tla
    tlapm ProductionProofs.tla
    tlapm SamplesProofs.tla
    tlapm JobRunnerProofs.tla
    tlapm ChannelProofs.tla
    tlapm JobGraphProofs.tla

## 1. The system

A user works in web forms.  A form shows the buttons its view allows in the state
the row had when the form was read; a button calls a handler of the model, which
runs as one database transaction.  `raise UserError` rolls the transaction back.
`odoo.conf` runs four worker processes on PostgreSQL with snapshot isolation:
transactions that write the same row are retried, transactions that only read what
the other writes are not.

Many handlers do not look at the state of their own row; the view is the only guard
(`states='draft'`).  A form left open while somebody else presses a button still
offers the old buttons.

| Component | State | Operations | Talks to |
|---|---|---|---|
| sales order `sell.order` | state, out_state, per line qty and out_qty | confirm, undo, cancel, create delivery, create reviews | creates deliveries and reviews, deletes them on undo |
| review `sell.order.review` | state | confirm, undo, cancel | read by the order |
| delivery `sell.order.out` | state, lines | confirm, undo, cancel, edit | writes out_qty and out_state, makes a stock move, a statement and the follow-up delivery |
| statement `jl.reconciliation` | state | confirm, undo, cancel | blocks the undo of its delivery |
| sales / purchase application | state, lines | confirm, undo, cancel | creates and deletes orders |
| purchase order `jl.buy.order` | state, order_state, per line qty and buy_qty | confirm, undo, cancel | creates receipts |
| receipt and return `jl.buy.warehousing` | state, is_return, move lines | confirm, undo, refuse, return, apply for payment, cancel, delete | writes buy_qty and order_state, its own move |
| payment application | state | confirm, undo, cancel | blocks the undo of its receipt |
| stock ledger `jl.move`, `jl.move.line` | state, type, quantity | written by all documents | read through `jl_warehouse_balance_report` |
| manual stock documents | state, move | confirm, undo, cancel | the ledger |
| production order `jl.mes.plm` | state, quantities picked, made, inspected | start, stop, continue, done, undo, pick, refund, inspect | picking, refund, stock-in, quality documents |
| outsourcing order `jl.mes.ous` | as production | as production | its own documents |
| sample order and documents | as production, shorter | pick, stock in | the ledger |
| engineering, programme, logistics, price strategies | state | buttons that write it | nothing |
| job graphs `delay.py` | chains, groups, edges between them | on_done, delay | stores jobs with their dependencies |
| job rows `queue_job` | state, retry, dependencies | store, requeue, cancel, set to done, requeue stuck jobs | a trigger notifies the runner of every change |
| runner | the channel tree: per channel two heaps, the jobs running and failed, a pause | process notifications, run jobs, wait, restart | writes 'enqueued', sends HTTP requests from threads |
| worker (web controller) | a transaction per job | lock and start, perform, retry, fail, release dependents | writes the row; other workers' rows it depends on |
| cron, subscriptions, tokens, backups | flags, token and expiry, files | | the queue, HTTP, SFTP |

What is hard in it:

* **Long sequences of legal buttons.**  Confirm, undo, edit and confirm again, in any
  order over several documents of one order.  Each handler updates counters that
  duplicate what the documents say (out_qty, buy_qty, out_state, order_state, the ledger).
* **Stale forms.**  Two users on one document, one of them with an old form.
* **Deletion by cascade.**  Undo deletes rows; the database deletes what hangs on them.
* **Checks against values that are about to change**: stock per line, wrong searches.
* **Rounding**: quantities are fractional and are compared in mixed precision.
* **In the job queue**: crashes of runner or worker between two steps, lost or late
  notifications, capacity and pauses at their limits, jobs stuck in a state for ever.

What makes each component correct:

* deliveries: what an order line says was delivered is what the confirmed deliveries
  and the ledger say; never more than was ordered; never below zero stock; nothing that
  a customer confirmed is taken back; an order that is a draft again has no past.
* purchases: the ledger never holds more than the order knows it received, nor more than
  was ordered; documents, moves and lines agree; settled payments stay.
* production, outsourcing, samples: no more is stocked in than was inspected, nothing is
  picked beyond need, the counters say what the sheets and the ledger say.
* stock: the sum over all documents, also when two of them commit together.
* channels: never more jobs running than the capacity of any channel on the path to the
  root; sequential channels keep their order; a throttled channel keeps its pauses; the
  runner sleeps neither too long nor not at all.
* jobs: a job runs at most once at a time, no job is lost by a lost request or a restart,
  dependents start after what they wait for and start in the end, an identity key admits
  one pending job.
* graphs: the edges between jobs say what the chains and groups say.

## 2. The modules

| Module | What it is |
|---|---|
| `Quantity` | quantities in 1/Unit of a piece and Python's `round` on them |
| `Forms` | when a form offers a button; `StaleForms` chooses which forms are in use |
| `Sums` | totals over lines, documents and their moves |
| `SumsProofs` | lemmas about totals |
| `SellDelivery` | one sales order with its deliveries, reviews, stock moves and statements |
| `SellDeliveryProofs` | theorems about `SellDelivery` |
| `Purchase` | one purchase order with its receipts, returns, moves, lines and payment applications |
| `PurchaseProofs` | theorems about `Purchase` |
| `Production` | one production order with its pickings, refunds, inspections and stock-ins |
| `Outsourcing` | one outsourced order: the handlers of `Production` and what differs |
| `ProductionProofs` | theorems about `Production` and `Outsourcing`, proved together |
| `StockDocuments` | manual documents that bring goods in or take them out, with their stock moves |
| `Samples` | one sample application with its order, pickings and stock-ins, and the manual documents on the same stock |
| `SamplesProofs` | theorems about `Samples` and the manual documents |
| `JobOrder` | the order in which jobs are served |
| `PendingJobs` | what a channel queue promises: two sets of jobs |
| `ChannelQueue` | the queue as it is: two heaps with lazy deletion; implements `PendingJobs` |
| `Channels` | the channel tree as operators on the runner's memory |
| `ChannelManager` | the runner's loop against a clock: etas, throttle, wake-up time |
| `JobRunner` | the whole queue: rows, trigger, runner, requests, workers, users, cron; no clock |
| `ChannelProofs` | theorems about `ChannelQueue`, the refinement among them, and about `ChannelManager` |
| `JobRunnerProofs` | memory and capacity, dependencies first, one worker per job, dependents released; for every tree and every fault |
| `JobGraph` | chains, groups and `delay()` |
| `JobGraphProofs` | theorems about `JobGraph` |
| `MC*` | the instances TLC checks |

How they build on each other: `ChannelQueue` refines `PendingJobs`; `Channels` uses the two
sets of `PendingJobs` for the two heaps of each channel; `ChannelManager` and `JobRunner` are
two machines over the memory of `Channels`, one with a clock and a thin environment, one
with the whole environment and no clock; `JobGraph` produces the dependencies that are a
constant of `JobRunner`.  The document modules add up moves with `Sums`.  `Outsourcing` extends `Production`; `Samples` extends
`StockDocuments`, whose documents change the stock its pickings are checked against.

### SellDelivery

`orderState`, `outState`, `qty`, `out_qty` are the columns of `sell.order` and its lines;
`docState` and `docLines` are the deliveries (`"none"` is a row that does not exist);
`moves[d]` are the done stock moves made by delivery d, `recs[d]` its statements.
`newGoods` is `goods_state = 'new'`, `received` what all other documents left in stock;
`Balance` takes off what the moves carry (`TakenBy`), as the report's view does.
Every button is one action with the whole handler in it: `OutDone` is the loop of checks
(`CanShip`), the write-back (`Confirmed`), the move, the call of `button_out`
(`FollowUp`, with the rounding guard `LineRefused`), the last write of out_state and
the statement.  The view's guard is `Shown`; the handler's own conditions are the other conjuncts.

### Purchase

`docState`, `isReturn`, `origin` are the rows of `jl.buy.warehousing`; `docLines`, `docQty`,
`lineType`, `lineState` its move lines and `moveState` the state of its `jl.move`; a done
move whose document was deleted is remembered in `strayMove`, because a later search
finds it.  `pays[d]` are the payment applications of document d.  The two forms of
`jl.buy.warehousing` allow deletion in any state (`DocUnlink`), unlike those of sales and production.
`SellApplyDraft` is the undo of a sales application, which searches `jl.move` by the
purchase-order column with its own id and so clears the documents of an unrelated order.

### Production

`state`, `qty`, `done_qty`, `buy_qty` are the columns of `jl.mes.plm`; `lines[m]` the counters of
its material lines: `need` (qty), `neck` (neck_qty, still to be picked), `picked` (done_qty),
`refunded` (refund_qty).  `pick`, `refund`, `check`, `in` are the rows of the four documents,
`pickMoves`, `refundMoves`, `inMoves` their done stock moves.  A new sheet has no warehouse
on its lines; confirming it is refused until the user has chosen one (`Placed`).
`AllDraft` is the loop of the undo of an order that refuses anything but drafts, also
cancelled sheets, which therefore block the undo for ever.  The forms leave the lines of a
refund and the quantity of a stock-in editable after confirmation; `LateEdits` chooses
whether users do that.

### Outsourcing

The five models of `jinling_outsourcing` began as copies of production, and a line-by-line
comparison shows which handlers still are: those are the actions of `Production` under
names of their own (`OusStart == Start`), mapped to the lines of the outsourcing files.
What differs is written out: `create_quality` does not wait for draft pickings; the form
event `onchange_line_id` refills the material lines from the bill of material (`Bom`); and
`button_done` of a refund writes `self.plm_id`, a field that model does not have, so that
confirming a refund always fails and is rolled back (`OusRefundDone` leaves everything as
it is, and the undo of a refund can never be reached).

### StockDocuments, Samples

`doc` are the rows of `jl.move.in` and `jl.move.out`, `docMoves[d]` the stock moves document d has
collected.  Undo writes 'draft' on the move and its lines, and a later confirmation searches
for done moves only, finds none and makes another: the drafts accumulate.  Cancel looks for
done moves in turn, and there are none to delete (were there one, it would be deleted and read
"none").  Both forms allow deletion in every state, and
the moves go by cascade (`MoveUnlink`).

`apply` is the row of `jl.sample.apply` (`filled`: product and warehouse have been chosen), `order`
the sample order it makes, `lines[m]` the counters of the order's lines, named as in production;
`pick`, `pickMoves`, `in`, `inMoves` the documents and their moves.  `Balance` is the balance
report for one product: what all else left (`Opening`), manual documents, pickings.
The undo of an order deletes its drafts and then writes 'done' again (`OrderDraft`), so the
order never becomes a draft a second time.

### JobOrder, PendingJobs, ChannelQueue

`PriorityQueue` is a record of the three attributes `_heap`, `_known`, `_removed`; as no
object is in a heap twice, a heap is the set of its entries and its top the first of them.
`__getitem__(0)` throws marked entries away on its way: `Above`, `AboveByEta`.
`ChannelQueue.pop` reads the eta queue, moves due jobs and clears their eta, and then pops
unless the channel is sequential and a delayed job has precedence; `Pop` is all of that.
`call` and `out` are the last call and its answer, so that the refinement compares answers
and not only contents.  The refinement mapping is `ready <- Live(queue)`, `delayed <-
Live(eta_queue)`.

### Channels, ChannelManager

The memory `m` is one record of functions over channels: `ready` and `delayed` (the two
queues), `running`, `failed`, `pause`, and the `eta` of each job object.  `RemoveJob`,
`SetPending`, `SetRunning`, `SetFailed` are the methods `remove`, `set_pending` and so on with their
recursion to the parent unrolled over `Up[c]`, the path to the root; `Notify` is
`ChannelManager.notify`.  `CanYield`, `Yield` and `GiveUp` are one turn of the generator
`get_jobs_to_run`; a round visits children before parents (`Serving`).
`ChannelManager` adds the clock and the loop `RunJobs`, `YieldJob`, `PassChannel`,
`WaitNotification`.  Rows change only between two rounds: a change during a round whose
notification is still to come is the same as one just before it.

### JobRunner

`state` and `retry` are columns of `queue_job`, `notes` the notifications not yet processed,
`phase`, `mem`, `todo` the runner, `requests[j]` the requests no worker has taken, `threads[j]`
the HTTP threads of the runner that still wait, `worker[w]` what a worker has in hand.
A worker's transaction sees the rows as of its first query: `view` says whether somebody
has written its row since (`Overtaken`), in which case its commit fails.  A user's
transaction that reads other rows (`button_done`, `requeue`) has a beginning and an end
(`tx`), with what it saw in between.  `Write` is every change of rows, with the trigger
and the history of done jobs in it.  One action each: the four steps of the runner's loop,
`SendJob` (the unconditional UPDATE, then the thread), loss of a request, the timeout that
puts a job back, the worker's first commit, the five ways a job ends, the release of
dependents, the death of a worker, failure and restart of the runner, and the buttons,
wizards and the cron job of the users.  `PerformConflicts` is a concurrency error of the database in the
job's own work: it becomes a retry outside `perform()`, which no number of retries limits, so each
counts as a disturbance.

`worker[w].back` is what a worker remembers of the parents.  The first `store()`, when the request
is taken, loads them and the job object keeps them; `retry_postpone` calls `set_pending` on the same object,
so it decides between `pending` and `wait_dependencies` by the rows as of `TakeRequest`,
however they have changed since.  The wizard and the cron job load the rows anew.

### JobGraph

`node[n]` is a delayable, chain or group with the edges of its own `DelayableGraph`.  The
caller makes chains and groups (`MakeChain`, `MakeGroup`), connects them (`OnDone`) and calls
`Delay` once, on a node that is in no other graph.  `Found` is the recursion of `_head` and
`_tail`, `Visited` the walk of `_connect_graphs`, `LinksOf` the edges `_merge_graph` makes.
Then the jobs are performed: stored, by workers, or directly, by the loop of
`topological_sort` (`queue`, `depends`).  A job linked with itself, which only chains within chains
bring about, is refused by `add_depends` when the graph is stored; a direct execution returns before that and
never gets to the job.  `Ends` and `Required` say, independently of the code,
what a chain or a group begins and ends with and hence which job must precede which.

## 3. What the runs check

Runs that pass:

| Run | Instance | Shows |
|---|---|---|
| `sell_delivery` | 2 order lines of different goods (one may be edited to another quantity), 3 deliveries, 2 reviews, one checked warehouse and the choice of none, quantities in quarters of a piece | the properties below on about 960 000 states |
| `purchase` | 2 order lines, one of 1 or 2 half pieces, 3 documents, 1 payment application each | the properties below on about 740 000 states |
| `production` | 1 material needed 2 or 3 times, 2 pickings, 1 refund, 1 inspection, 3 stock-ins, 1 or 2 pieces qualified | all documents of one order together on about 840 000 states |
| `outsourcing` | 1 material, 1 picking, 1 refund, 2 inspections, 2 stock-ins | both sides of an outsourced order on about 530 000 states |
| `samples` | 1 material, 2 of it per product and 1 in stock; 1 or 2 products; 2 pickings, 2 stock-ins, 1 document that brings in and 1 that takes out, 2 moves each | a sample with its documents, and manual documents that decide what can be picked, on about 1 030 000 states |
| `channel_queue` | 4 jobs, sequential, 2 times | the refinement on about 94 000 states |
| `channel_manager` | a throttled sequential channel under the root, 3 jobs, 4 ticks of the clock, eta 2 | the loop against time on about 1 200 000 states |
| `job_runner` | a sequential subchannel and the root, both of capacity 1; 2 jobs, the second waits for the first; 2 workers; 2 faults, interventions or database conflicts of any kind; the first job is tried twice | safety of the whole queue on about 1 120 000 states |
| `jobs_live` | 3 jobs, two in the subchannel; the dependent one has precedence over its parent there and waits for one of the root channel as well, which may end together; 2 workers; 1 fault, conflict or cancellation; the first job is tried twice | release of dependents, and liveness, on about 169 000 states |
| `job_graph` | 4 delayables, 2 chains or groups of up to 3 members, 1 call of on_done, no chain at the ends of a chain | order and progress on about 15 000 states up to symmetry |

* `OutQtyIsDelivered`, `LedgerMatchesDocuments`, `NeverOverDelivered`,
  `DraftOrderIsUndelivered`, `StockNeverNegativePerLine`,
  `ConfirmedStatementKeepsDelivery` for deliveries;
* `LedgerWithinBuyQty`, `LedgerWithinOrder`, `NotStockMeansEmptyLedger`,
  `MoveFollowsDocument` for purchases;
* `BooksAgree` (`MaterialAccounts`, `SheetLedger` and `StockAccounts` together),
  `PickedWithinNeed`, `ConfirmedHangsOnConfirmed`, `StockedWithinInspected` for production;
* `BooksAgree` and `ConfirmedHangsOnConfirmed` for outsourcing;
* `BooksAgree` (with `DocumentLedger` of the manual documents), `ConfirmedHangsOnConfirmed`,
  `WithinTheOrder` for samples;
* `ImplementsPendingJobs` for the queue of a channel;
* `OnePlace`, `NoMissedWakeup`, `WakeupIsAhead`, `Throttled` for the tree against the clock;
* `BusyWithinCapacity`, `RunnerKnowsBusy`, `OneWorker`, `ParentsFirst` for the whole queue (capacity
  is a property of rows and memory there), and `DependenciesResolved`, `EventuallySettled` under
  fairness; `PendingIsServed` is the statement of `requeue_blocks`;
* `PerformedInOrder`, `NeverStuck` for graphs.

The properties of documents hold for forms that show the present state (`StaleForms =
FALSE`) and for users who do not edit what they confirmed (`LateEdits = FALSE`).

Runs that end in a violation, each a disagreement between the code and what it says of itself:

| Run | Statement | What the code does |
|---|---|---|
| `requeue_blocks` | "a sequential queue blocks on failed jobs" (that it blocks on nothing else is how we read it) | it also blocks when no job has failed: a parent that is done is requeued (the wizard takes any job), its child, sent meanwhile, is put back by `set_pending` to `wait_dependencies`; `notify` ignores that state, the memory keeps the child running, and in a channel of capacity 1 the parent is never served |
| `chain_in_chain` | "only after the last job of the chain is done" | `_head` of a chain asks its first member for the tail, `_tail` its last member for the head: a chain within a chain is linked at its wrong end |

What the models of documents show of the code and no run repeats (quantities and rows as
in the modules; each is a short behaviour of the actions named):

* `out_state` is written once per line of a delivery, the last line decides: '全部发货'
  (everything delivered) may be read while a line is not delivered (`OutDone`, jl_sell_order_out.py:68).
* A stale form cancels a confirmed delivery; the order can then be undone and the move goes by
  cascade while out_qty stays (`OutCancel` with `StaleForms`, jl_sell_order_out.py:127).
* The guard of a follow-up delivery rounds one side to whole pieces and refuses deliveries
  within the order (`LineRefused`, jl_sell_order.py:137).
* Two lines of one product are each compared with the whole stock and may drive it below zero
  (`CanShip`, jl_sell_order_out.py:40); `StockNeverNegativePerLine` is about lines of different products.
* The search for an existing draft return asks about the wrong row, so a receipt may have two
  (`DocReturn`, jl_buy_warehousing.py:126).  `LedgerWithinOrder` says nothing of what two returns take out: it
  counts the lines that bring goods in.
* A confirmed payment application goes with its draft receipt by cascade (`OrderDraft`,
  `DocUnlink`, jl_buy_order.py:97), although the code refuses elsewhere to delete one.
* Stock-ins are compared with the qualified quantity one by one; two of them may bring in more
  (`CanStock`, jl_mes_plm_in.py:32).  `StockedWithinInspected` bounds them by the inspected quantity only, so
  no property forbids this.  A stock-in edited after its confirmation and undone lets in
  more than was inspected (`EditIn` with `LateEdits`, jl_mes_plm_in.py:75); the lines of a confirmed
  refund have the same defect.
* The undo of a sample order writes 'done' where all others write 'draft': its button does nothing but
  delete drafts, and the application can never be undone (`OrderDraft`, jl_sample_order.py:69).
* A picking of the rest, as the program itself proposes it, is refused when more has been picked than
  is left: the guard compares the total with neck_qty, which is already reduced (`CanPick`,
  jl_sample_picking.py:47; jl_mes_plm_picking.py:40 in production).
* A manual document takes goods out without looking at the balance, and one that brought goods in may be
  deleted after they were used: the balance may go below zero (`MoveDone`, jl_move_out.py:30).
* Each press of the button makes another draft stock-in of all that is missing (`OrderSampleIn`,
  jl_sample_order.py:81); `WithinTheOrder` says that confirming them all brings in no more than asked for.
  The quantity of a confirmed one stays editable, as in production (`EditIn` with `LateEdits`).
* More may be refunded than was picked, once the picking is undone; several inspections made
  before any is stocked may together exceed the order.  The code says nothing against either.

Why the bounds are enough.  Three documents allow a confirmed one, the follow-up draft
made from it and one more, which is what undo (deleting every draft) and the coexistence of
two drafts need.  Two lines separate what is decided per line from what is decided
per order.  A quantity that can be delivered in two steps, and an order quantity that
can be lowered below what a draft carries, exercise the guards of over-delivery.  Ids are
interchangeable, so the sets of ids are symmetric.  In `production` all
documents of one order are together.  A need of 3 allows two confirmed pickings of one
line, which the guard of pickings refuses below that; three stock-ins allow a confirmed one,
its follow-up and a cancelled one.  It has one inspection; `outsourcing`, whose
stock-ins and inspections are the same actions, has two.  `Floor` bounds how far below zero the undo of an edited
sheet may push a counter; without late edits no counter gets there.
In `samples` an order of 2 products needs 4 of the material, so that two pickings of 1
both pass the guard; with 1 in stock it is the manual documents that decide whether the second
one does.  Two moves per document are one confirmation, its undo and another one.

Deadlock is not checked: an order that was cancelled really stops.

The bounds of the job queue.  Two channels make a path of two, which is what the half-way stop of
`set_running`, the hand-over to the parent and the hiding of a child's wake-up time need;
the theorems are about every tree.  In `channel_manager` the throttle of 2 against 4 ticks leaves
room for a pause that ends, one that is ended by a round that came for another reason, and
an eta within a pause.  In `job_runner` two disturbances are enough to lose a request and
restart the runner, to answer late and cancel, to kill a worker and requeue; requests and
threads of one job are bounded by 2 (`MaxInFlight`), so one may be late while its repetition
runs.  `jobs_live` has one fault: properties of what happens "once the faults are over" do not
depend on how many there were, only on the states they lead to; the one of a run may also be
a user who cancels, or a database conflict that postpones a job.  Its first job is tried twice, so a
`RetryableJobError` postpones it once and fails it the second time, as in `job_runner`.  Its dependent
has two parents of which two workers may finish one each, at the same time.  In `job_graph` the chains within
chains are left out (`NestChains = FALSE`) because `chain_in_chain` shows what happens to them;
groups within chains, chains within groups and groups in groups are in.  `NeverStuck` uses
ENABLED, which for this model without silent steps is the same as progress.

Fairness (`JobRunner!Fairness`).  The runner is a loop that blocks only in `select`, which has a
timeout: weak fairness of its next step.  It processes all notifications it finds before
it runs jobs, and new ones do not stop it from coming back: strong fairness of processing a
notification.  The HTTP server gets to a request that waits (weak fairness per job), a thread ends
within its timeout of one second, a job ends (each worker's next step; what a job does
is chosen freely, so it may fail, or be retried up to its number of retries; the conflicts that
no such number limits are bounded by `MaxDisturbances`, so a job that meets them for ever is left out),
the cron job `requeue_stuck_jobs` comes round every five minutes.  Nothing is assumed of users, nor
that faults happen or do not happen beyond their bound.  The cron job's fairness is stated for
jobs that are enqueued with no request or thread left: five minutes is longer than both live.
Of documents no liveness is claimed: nothing in their handlers happens by itself, a user
must press the button.

## 4. What is proved

The theorems hold for every value of the constants that the modules' assumptions allow: any
finite set of lines, materials, documents, jobs and workers, any quantities, any tree.
Totals (`Sums`) are cardinalities, the number of units added up, and not folds, because
what a fold computes would need an induction over its argument.  `SumsProofs` says what
the proofs need of them: a total is a natural number (`TotalType`); a ledger with one move for each
confirmed document adds up to what those documents say, and one more confirmed document, or one
fewer, changes it by its quantity (`LedgerMore` and its neighbours), which is all the handlers do.

Many theorems have the hypothesis `StaleForms = FALSE`: a user's form shows the present state
of its row.  The handlers that do not look at the state of their own row rely on that, and
without it they do go wrong (section 3).  `LateEdits = FALSE` says that nobody edits
a confirmed stock-in or refund, which the views allow and which also goes wrong.  Type
correctness needs neither.

### Deliveries

`SellDeliveryProofs` proves for every finite set of lines, documents, reviews, goods and
quantities:

* `TypeCorrect`: `Spec => []TypeOK`, for all forms;
* with forms that show the present state: `DeliveredQuantityExact`, `LedgerExact`,
  `DeliveryWithinOrder`, `DraftUndelivered` (the four invariants) and
  `StatementKeepsDelivery` (the action property).

The inductive invariant `IInv` is the conjunction of `TypeOK`, the four invariants and two
facts they need: the set of delivered units is finite, so that its cardinality is
defined and adds up, and an order with no done delivery has delivered nothing.  The four
support each other: the undo of a delivery writes back what the document says now, which is right only
because a done document is still what was confirmed; the undo of an order deletes all
documents, which is right only because none is done and so out_qty is zero.  The
proof has a lemma per handler that moves quantities (`OutDoneStep`, `OutDraftStep`, `OrderStep`,
`DraftStep`), and the action property is proved from `LedgerMatchesDocuments`.

* `StockSuffices`: `Spec => []StockNeverNegativePerLine`, also with forms that show the present state.

It comes after `IInv`.  As the ledger is one move per confirmed delivery, confirming one takes from
the balance of a product what its line of that product carries (`ShippedStock`), which is what `CanShip` has
compared with the balance; for two lines of one product it has not, whence the hypothesis inside
the property.  Undo only gives back (`UndoneStock`), every other step leaves the moves alone
(`StockKept`).

### Purchase orders

`PurchaseProofs` proves `TypeCorrect` for all forms and, with forms that show the present state,
`MoveFollows`, `WithinBuyQty`, `WithinOrder` and `NotStockIsEmpty` (the other four invariants).

`MoveFollowsDocument` needs three facts about rows (`RowsInv`): a line is a receipt's, a refusal's or
a return's as its document is (`LineTypeFollows`), a document carries nothing on lines it has not
(`OnlyItsLines`), and documents exist for a confirmed order only (`DocumentsNeedOrder`), which is why
the order's quantity can be lowered only while the ledger is empty.  The three
ledger facts are proved together (`IInv`): a receipt's guard compares buy_qty, not the ledger, with the
order, and `LedgerWithinBuyQty` makes that enough.  The ledger may be less than buy_qty but never
more: deletions take rows and leave the counter, no handler does the reverse.

### Production and outsourcing

`ProductionProofs` proves both orders at once.  The actions are grouped by document (`OrderAct`,
`PickAct`, `RefundAct`, `CheckAct`, `InAct`), every step of `Spec` and of `OusSpec` is a step of
their union (`ProductionStep`, `OutsourcedStep`), and each invariant is proved for the union:

| Invariant | It says | Theorems | Hypotheses |
|---|---|---|---|
| `TInv` | types, and a stock-in names an inspection | `TypeCorrect`, `OusTypeCorrect` | none |
| `HInv` | a stock-in in any state hangs on a done inspection; an order that is not running has no documents | `HangsTogether`, `OusHangsTogether` | present forms |
| `PInv` | one move per confirmed picking; picked is their total; picked and still to be picked make up the need of a running order | `PickedWithin`, part of the books | present forms |
| `RInv` | the same for refunds | part of the books | present forms, no late edits |
| `SInv` | the same for stock-ins, per order and per inspection; none beyond what was inspected | `StockedWithin`, part of the books | present forms, no late edits |

`BooksCorrect` and `OusBooksCorrect` (`BooksAgree`) join `PInv`, `RInv` and `SInv`.  That a stock-in of
any state hangs on a done inspection is stronger than the property and is what makes it
inductive: the undo of an inspection deletes its drafts and refuses when one is confirmed.
`PickedWithinNeed` is not inductive alone, because the guard of a picking compares with the rest that
is still to be picked; `PInv` says that the rest is the need less what was picked.
`RInv` of an outsourced order is there for completeness: its refunds are never confirmed.

### The queue of a channel

`ChannelProofs` proves `QueueTypeCorrect` (`QueueSpec => []QueueTypeOK`) and `Refinement`
(`QueueSpec => ImplementsPendingJobs`) for every set of jobs, every order, every set of times, sequential or
not.  `QueueTypeOK` holds the inductive facts: heap and `known` are the same set, marks are on known
objects, and a job's eta says which heap it is in.  Lemmas say what adding, marking and popping do to
the live entries (`AddedLive`, `RemovedLive`, `PoppedLive`); each call then maps to the abstract call,
and `Pop` needs that the entries thrown away on the way are all marked.

### The runner and its clock

`ChannelProofs` proves everything `channel_manager` checks, for every tree of channels, all
capacities, sequential and throttled channels, jobs, etas and lengths of the clock: `TypeCorrect`,
`OneJobOnePlace` (`OnePlace`), `SleepsNotTooLong` (`NoMissedWakeup`), `SleepsAtAll`
(`WakeupIsAhead`) and `ThrottleRespected` (`Throttled`).  None of the five needs a hypothesis.
The properties of single steps are consequences of the state they begin in; the inductive invariant
`Inv` says what that state is:

| Part of `Inv` | It says |
|---|---|
| `Placed` | for each job and channel: at most one of ready, delayed, running, failed; where it is at all it is marked running in every channel below; delayed or failed in its own channel only; where it runs, the parent has it queued or running |
| `ThrottleKept` | once a throttled channel has yielded, its pause lasts until the throttle is over, or that time has come |
| `RoundOK` | a round serves a channel after its children, and those it has served stay `Settled`: paused beyond now; or full; or with nothing due and nothing ready, unless a sequential channel waits for an eta |
| `Asleep` | with no notification since the last round: at any time before `wake`, at any time at all if there is none, no channel that `get_wakeup_time` looks into has something to yield (`Stuck`) |
| `Noted`, `PausesThrottled` | a notification is of a row that exists; only throttled channels have a pause |

`Asleep` is `NoMissedWakeup` made inductive: it speaks of all times to come, and gives the
reason why a channel cannot yield (it is paused, or what is delayed is not due yet and what is
ready waits), while a full channel and all below it are left out, because only a notification makes room.
`SettledSleep` gets it from `RoundOK` when the round ends.  In a round, a channel that
yields to its parent or gives up leaves the served ones settled, since those are its children or elsewhere in
the tree (`YieldedElsewhere`, `GiveUpSettles`); in the rounds that follow without a notification nothing yields
(`AsleepNoYield`), and giving up keeps everything stuck (`GiveUpKeepsStuck`, `HiddenKeepsStuck`).
`OnePlace` counts the four marks of a job in a
channel; `Placed` has the same facts without cardinalities and is kept by each
operation of the channels (`RemoveRenews`, `PutHome`, `SetPendingRenews`, `SetRunningRenews`,
`SetFailedRenews`, `MovedPlaced`), because each begins with taking the job out of the whole path.

### Capacity

`JobRunnerProofs` proves for every tree of channels, every capacity, every set of jobs,
dependencies, workers, users and faults:

* `TypeCorrect`;
* `MemoryCorrect`: `Spec => []RunnerKnowsBusy`;
* `CapacityCorrect`: `Spec => []BusyWithinCapacity`, from the same invariant.

That no channel has more busy rows than its capacity is not inductive: it is the memory that is
compared with the capacity, while workers and users change the rows.  The invariant `IInv`
says, while the runner is up, that every busy row is marked running on its whole path (a row
becomes busy only through `SendJob`, which takes a job that has been marked all the way
down), that no channel has more marked than its capacity, and that a queued job is
marked in every channel it has passed, which is why taking it from the root completes the path; while
the runner is down it says that no more rows are busy than the capacities allow,
which is what a restart begins with.  The steps that shrink the memory (`Notify` of a row that is
no longer busy) are right because the row is read when the notification is processed.

### Jobs

`JobRunnerProofs` goes on to prove three things about jobs, on top of `IInv`.

* `DependenciesFirst` (`Spec => []ParentsFirst`): a row that is pending, enqueued, started or in
the memory's queues has had all its parents done once, because the only ways out of
`wait_dependencies` are `Released` and `PendingState`, and both looked at the parents, be it when
the request of a job postponed later was taken; a user's
transaction that began earlier saw them in a state of its own past, which is why the
invariant is about `wasDone` and also covers `tx.seen`.
* `OneWorkerCorrect` (`Spec => []OneWorker`), whatever is lost, late, repeated or restarted.  The
invariant `WInv` follows a job from the queue to the worker: a job in a queue is not marked running there or
further up (`Apart`), so it waits in one queue only and the runner sends it once; its row
is neither enqueued nor started, and no worker has it (`QueuedFree`); a worker takes a job only
when its row is enqueued, which it is for no job in hand (`HandRow`).  Each of these excepts jobs that a
user has changed while a worker had them (`meddled`), and only those.
* `Resolved` (`DependenciesResolved`), when no worker is killed and users at most cancel.  The worker
that finishes the last parent sees the others done, because releasing reads the rows after the commit.
The invariant `Undisturbed` says what the hypotheses give: no job in hand was changed by a user, what
was done is done, what is queued is not, and every worker remembers the parents of its job as done,
so that no retry goes back to `wait_dependencies`.
Both hypotheses are needed: a worker that dies between its two commits releases nobody, and
a user who sets a parent to done by hand while another worker finishes another one may see it unfinished
while the worker sees the user's unfinished (section 5).

### Graphs of jobs

`JobGraphProofs` proves, for every set of delayables, chains and groups:

* `TypeCorrect`, with chains nested in any way: links are between jobs, the counts of
`topological_sort` never go below zero, and no job is queued that has been executed;
* `JobsInOrder` (`PerformedInOrder`) under `NestChains = FALSE`, that is, when no chain begins or ends
with another chain, be it within a group.  Without the hypothesis it is false (`chain_in_chain`, section 3).

What a node begins and ends with (`Ends`) and what `_head` and `_tail` find (`Found`) are recursive
functions over the nested nodes, and a proof by induction over the nesting is out of reach.  It is not needed: the
caller makes one node at a time, from nodes made before.  A recursive function is what its
equation says as soon as the equation has exactly one solution, and the invariant carries that
(`EndsAre`, `FoundAre`).  A new composite asks only for nodes that were there, so the solution is extended by
one value and stays the only one (`SolutionExtends`); an edge that `on_done` adds changes no
members.  In the same way `Inv` carries that what is found for a made node are jobs (`JobsOnly`) and,
under the hypothesis, that head and tail are what the node begins and ends with (`Agrees`): a chain asks
its first member for the tail, which is right only for a member that begins with what it ends with.
The rest of `Inv` is about delay() and what follows: the links are those of `LinksOf`
(`Delayed`), a job done has the ones it is linked behind done (`InOrder`), and each count of the sort is
the number of links whose first job is still to be executed (`Sorted`), so that a job is queued when that number reaches zero, and one linked with itself never is.
`JobsInOrder` follows because what is required is among the links (`RequiredIsLinked`).

### Samples

`SamplesProofs` proves for every set of materials and documents, every bill of material and stock:

* `HangsTogether` (`ConfirmedHangsOnConfirmed`) and `TypeCorrect`, also with users who edit confirmed
stock-ins.  The inductive invariant `IInv` adds `RowsOK`, the types of the rows.  It has one lemma per group of
handlers (`ApplyStep`, `OrderStep`, `PickStep`, `InStep`): documents are only made under a confirmed
order, an order leaves 'done' in no way at all, and the undo of the application takes the
order only while that is a draft and so has no documents.
* `BooksCorrect` (`BooksAgree`) and `WithinOrder` (`WithinTheOrder`) without such edits.  `BInv` says that each
confirmed sheet has one move with its present quantities, that the counters are the totals of the moves, and
that a picking asks for nothing of a material it has no line for, without which its confirmation would book what it
has not checked.  The manual documents have an invariant of their own, `StockInv`, that every step of the
sample leaves alone: a confirmed document has exactly one done move, whatever drafts it has
collected.

In the model of samples every form shows the present state of its row, so the theorems need not say it.

### What is not proved

Assumed are the assumptions of the modules (sizes and types of the constants, the shape of the tree,
distinct keys), and the hypotheses of each theorem as it states them.  Only model-checked are:

* `NeverStuck` of `JobGraph`: it speaks of ENABLED, and that a graph without cycles has a job that
depends on none is an induction over the graph, whose closure is a fold besides;
* liveness (`EventuallySettled` of `jobs_live`), which is out of the prover's reach.

## 5. Not modelled, and why

* Adding and removing order lines, the duplicate menu (a duplicated confirmed delivery
  is a done document without history), negative quantities (which some handlers reject), and clearing the
  warehouse of a line.
* Binary floating point: quantities are exact multiples of 1/Unit.  Only the rounding
  that the handlers ask for is modelled.
* The deletion of a sales order by the undo of its application, and the engineering and
  production rows that the undo of an order also removes: orders no longer create them
  (`create_mes_plm` is commented out).
* Two transactions that read each other's data and both commit (two orders that
  take the same stock): each handler is one step, on a stock that other documents change between steps.
* Production: adding material lines, the refill of the lines from the bill of material when
  the user changes the product (a form event), several warehouses per line, users who enter
  the program's counters (neck_qty, done_qty, refund_qty) by hand.  Refunds are not bounded by
  what was picked once a picking is undone; the code nowhere says they should be.
* Samples: adding and removing lines of a draft order, orders made by hand (they have no quantity),
  duplicates, and the form event that refills the lines, whose fields the form keeps read-only.
* The job queue: parsing of the channel configuration, channels made on the fly and several
  databases in one runner; autovacuum and rows deleted by hand; `ignore_retry` and the retry
  pattern (a retry comes later, when is not said); time in `JobRunner` (a timeout may
  strike at any moment, which is more than the code can do); messages and followers.
* Identity keys outside `delay()`: `job_record_with_same_identity_key` reads and `store` writes
  without a lock, so two callers may both create the job.  Within `delay()` only the outcome
  matters to the graph: stored, or nothing stored ("existing").
* `_enqueue_dependent_jobs` retries an UPDATE in a transaction that has failed, which PostgreSQL
  refuses until it is rolled back: the retry does not help.  The models have the release
  succeed or the worker die.
* Set to done by hand while another parent of the same child is finishing: the user's transaction
  may not see the other parent done and the worker may not see the user's; the child then
  waits for a user.  In `jobs_live` users only cancel, for that reason; in `job_runner` they do
  everything, for safety.
* A parent that is requeued and done again while its child runs: when the request was taken in between, the
  child remembers an unfinished parent, its retry writes `wait_dependencies`, and nobody is left to release it.
  `job_runner` has these steps; no run states it, as `jobs_live` has no users who requeue.
* Jobs left `started` by a worker that was killed stay so until a user requeues them
  (`requeue_stuck_jobs` looks at enqueued jobs only), as the caveat of `runner.py` says;
  `jobs_live` has no deaths, `job_runner` has.
* The statement of USAGE.rst that a failed job and its dependents can be cancelled: the
  wizard filters out jobs that wait for dependencies.
* Groups without members.  They have no head and no tail, so an edge to or from one
  vanishes, and what comes before an empty group in a chain is not ordered with what comes after it.
* Empty rows of `jl.move` that `create_warehousing` leaves behind: nothing reads them.
* Amounts, prices, names, chatter, attachments, reports, access rights: data no property tells apart.
* The components marked `not_modelled` in PROJECT.json, with the reason given there.

## 6. Plan

Done: the document modules and the job queue from `ChannelQueue` to `JobRunner` and `JobGraph`,
with refinement and liveness, and proofs of every safety property they check but `NeverStuck`.
Left, in this order:

1. The ledger with two concurrent transactions under snapshot isolation.
2. Identity keys and the cron jobs that use them.
3. Tokens, price strategies, applications, if they earn it.
