# A verification development of cmo_generic

`cmo_generic` is a collection of some ninety Odoo 8 addons: generic accounting,
expense, sale, purchase and stock extensions, and a copy of the Odoo connector
with its job queue.  This directory holds TLA+ modules translated from the
source of these addons, the TLC configurations that check them on small
instances, and proofs, checked by TLAPS, of what holds for all instances.

The part with the hardest behaviour is the connector: several processes and
threads share the table `queue_job`, follow each other through PostgreSQL
notifications and HTTP requests that time out after a second, and crash.  Both
ways to execute jobs are modelled, and the locks, registries and mappings that
jobs use.  The business addons run inside single database transactions; what is
hard there is the order of the transactions, on documents several addons
and several clients write.  Eight groups of them are modelled.

## 1. Inventory

### 1.1 The job queue of the connector (modelled)

| part | code | state | operations |
|---|---|---|---|
| job channels | `connector/jobrunner/channels.py` | per channel: the queue, the running and the failed sets; per job: channel, priority, eta, creation order | `notify`, `remove_job`, `remove_db`, `get_jobs_to_run` of `ChannelManager`, and below them `remove`, `set_done`, `set_pending`, `set_running`, `set_failed`, `get_jobs_to_run` of `Channel` |
| job runner | `connector/jobrunner/runner.py` | its channels, its connection with the notifications received, the threads of its requests | `initialize_databases`, `process_notifications`, `run_jobs`, `close_databases`, `_async_http_get` |
| execution of jobs | `connector/controllers/main.py`, `connector/queue/job.py` | a `Job` object loaded from a row | `runjob`: load, check, `set_started`, `perform`, `set_done`, `postpone`, `cancel`, `set_failed`, `store` |
| jobs in the database | `connector/queue/model.py` | the table `queue_job`: state, retry, eta, active, date_done | `delay`, `button_done`, `requeue`, `autovacuum` |

How they interact.  A transaction that creates or changes a job fires the
trigger `queue_job_notify`; PostgreSQL delivers the notification to the
runner's connection.  The runner's one thread alternates between
`process_notifications`, which reads the rows that were notified and tells the
channels, and `run_jobs`, which asks the channels for jobs to run, sets each
one to enqueued and sends `/connector/runjob` from a thread of its own.  The
server loads the job, checks that it is still enqueued, sets it to started,
performs it and stores the outcome, in separate transactions.  The thread waits
one second for the answer; on a timeout or an error it sets the job back to
pending if it still is enqueued.  Users and crons write the same rows at any
time.

What is hard here: a started job in the runner's view may be pending in the
table and the reverse; a request that timed out goes on in the server, so that
one job may be executed by two requests; a job object loaded in one
transaction is stored in another; PostgreSQL fails a transaction whose row was
written meanwhile; the loop restarts after an exception; a server crash leaves
jobs behind.

What makes it correct: each job is in one place of the tree of channels;
capacities are kept; the runner's view catches up with the table; no job stays
enqueued or started with nobody behind it; and a pending job is sent in the end.

### 1.2 The rest of the connector

| part | code | state and operations | correct when |
|---|---|---|---|
| legacy workers | `queue/worker.py`, `queue/queue.py`, `queue/model.py` | per worker a queue in memory and a thread, a watcher and a cron; the tables `queue_job` and `queue_worker`; assign, enqueue, run, notify alive, purge | a job belongs to one worker, its work is committed once, and it ends |
| binder and lock | `connector.py` | bindings of external records; `advisory_lock_or_retry`, `to_openerp`, `bind` in the transactions of jobs | one external record is bound once, and imports end |
| backends | `backend.py` | the classes registered for each version of a backend, and what they replace | what is usable is found, and not next to its replacement |
| mappers | `unit/mapper.py` | definitions of mappings, inherited and merged by a metaclass | a changed field calls the mappings that declare it |
| events, synchronizers, sessions, checkpoints | `event.py`, `unit/*.py`, `session.py`, `checkpoint/` | lists of consumers, abstract classes, contexts | no behaviour shared between actors |

### 1.3 Business addons

| part | code | state and operations | correct when |
|---|---|---|---|
| expenses, advances | `hr_expense_auto_invoice`, `hr_expense_advance_clearing` | expenses and their invoices; advances with a stored balance, clearings and returns | an expense has one living invoice; no more is cleared than was advanced |
| bank payments, receipts | `account_bank_payment`, `account_bank_receipt`, `account_cancel_reversal` | payment: draft, done, cancel; its entry, the reconciliation of its in-transit lines; validate, cancel, back to draft, unlink | an in-transit line is paid once, and a cancelled payment leaves nothing booked |
| sale invoice plans | `sale_invoice_plan` | rows of a plan with their invoice; the wizard, edit, invoice, cancel, invoice again | the installments add up to the order and the advance is deducted once |
| purchase invoice plans | `purchase_invoice_plan` | the same with bills; an advance deducted by parts or a deposit deducted from the last bill | the bills add up to the order, less what was billed first |
| assets | `account_asset_management` | the depreciation board over posted lines; compute, post, unpost, modify, remove | depreciation adds up to the value, and a closed asset has nothing left |
| undue VAT, tax registers, certificates | `l10n_th_account`, `l10n_th_account_tax_detail`, `account_voucher_*` | payments, their entries and reversals, tax details with numbers; post, recognize, certify, cancel, draft again | what is declared is what is booked; numbers run on |
| amounts of payments | `l10n_th_account`, `l10n_th_account_deduction`, the hooks of `account_voucher` in it | a draft with its lines, and tables of taxes which writes compute anew; register, change, deduct, post | the entry writes off what the form showed, and VAT follows what was paid |
| personal income tax | `l10n_th_account_pit` | lines of payments, a register per supplier and year; post, post again, cancel by mirrors | the tax withheld is the tax of the year |
| billing | `account_billing`, `account_supplier_billing`, `l10n_th_account_billing` | billing: draft, billed, cancel; `billing_id` of invoices and move lines | an invoice is in one billing at a time |
| stock | `stock_no_negative` | quantities; check before and after `action_done` | no location goes below zero |
| sale revisions | `sale_order_revision` | revision number, active revision | one active revision, distinct numbers |
| sessions | `inactive_session_timeout` | modification time of the session file | an idle session ends, an active one does not |
| audit log | `auditlog` | methods patched in each process; rules | what is subscribed is logged |
| operating units, hooks, cancel reasons, reports, web widgets | the other addons | fields, record rules, extension points, queries, layout | no behaviour of their own |

The addons meet in the documents of the accounting: an invoice of an expense
moves the workflow of the expense; a bank payment reconciles lines of vouchers
that may be canceled by themselves; canceling any of them deletes an entry or
reverses it, by whether `account_cancel_reversal` is installed.

Their hard behaviours are stale reads (an amount computed when a document is
made, and used when it is validated), forms and wizards that are out of date when
their button is pressed while the method does not look at the state of the
document, and documents canceled and made again in any order.  Each is in the
list of hazards in `PROJECT.json`, at its line.

## 2. The modules

| module | what it is |
|---|---|
| `Channels` | class `Channel` as operators on one value, the content of the tree; no variables |
| `JobPool` | abstract specification: what the channel manager promises, without channels |
| `ConnectorChannels` | class `ChannelManager`: the state machine over `Channels`, under arbitrary notifications |
| `JobRunner` | composition: the runner with its channels, the requests, the server, users, crons, crashes |
| `WorkerQueue` | the legacy workers: their tables, queues, threads, watchers, crons, users, crashes |
| `Imports` | jobs that import records under advisory locks and snapshots |
| `Backends`, `Mappers` | the registries that classes are declared in |
| `Expenses` | expenses, advances, clearings, returns and their invoices |
| `BankPayments` | bank payments over in-transit lines, with the forms that are open |
| `SaleInvoicePlan`, `PurchaseInvoicePlan` | orders invoiced by installments |
| `DepreciationTable`, `Assets` | the algorithm of the depreciation table; an asset and its board |
| `UndueVat` | payments that make VAT due, the registers of their tax invoices, their certificates |
| `IncomeTax` | the income tax withheld from payments |
| `PaymentAmounts` | the amounts of a payment: lines, withheld tax, VAT, retention, deduction, difference |
| `MCConnectorChannels`, `MCJobRunner`, `MCWorkerQueue`, `MCFramework`, `MCBusiness` | instances for TLC |
| `Channels_proofs` | lemmas about `Channels` |
| `ConnectorChannels_proofs`, `JobRunner_proofs`, `WorkerQueue_proofs` | theorems about the module each is named after |
| `Framework_proofs` | theorems about `Imports`, `Mappers`, `Backends` and their composition `MCFramework` |
| `Invoices_proofs` | theorems about `Expenses`, `SaleInvoicePlan`, `PurchaseInvoicePlan` and `Assets`, a part for each |
| `Payments_proofs` | theorems about `BankPayments`, `UndueVat`, `PaymentAmounts` and `IncomeTax`, a part for each, and about the composition `MCBusiness` |
| `Sums_proofs` | lemmas about sums over finite sets and ranks of numbers; with them, what the table of `DepreciationTable` adds up to |

`MCFramework` and `MCBusiness` put modules that share no state side by side: a
variable, chosen in the initial state, says which of them moves, so that their
states add up instead of multiplying.

`PROJECT.json` maps every definition to the lines it models.  Definitions whose
comment starts with "As a bug would have it" are not part of the model: each is
a plausible mistake in the code next to which it stands, and shows that some
property notices it.

### 2.1 Channels, ConnectorChannels, JobPool

A tree's content is `[queue, running, failed]`, each a function from channels
to sets of jobs: the fields `_queue`, `_running` and `_failed` of each `Channel`
object.  The methods that recurse into the parent become one step: `Remove`
empties the path to the root, `SetPending` and `SetFailed` change nothing when
the job is already there, `SetRunning` climbs and stops where it finds the job
running.  `Path` is the recursion up the tree; it is defined as a least set, so
that it can be used in proofs without induction.

`ConnectorChannels` adds per job the attributes of its `ChannelJob` (`info`), the
clock, and where an iteration of the generator `get_jobs_to_run` is: a
channel's loop comes after those of its children (`AtLoop`), pops the first due
job (`First`, from `__cmp__` and `ChannelQueue.pop`) while there is room
(`MayPull`), and ends (`Finish`).  `Notify` removes the job first when its
attributes have changed.  `RemoveDb` may come in the middle of an iteration:
an exception in the runner's loop body abandons the generator.

Abstracted: the heap with lazy deletion (`PriorityQueue`) is the set of its
live elements and their order; the configuration string is the constants it
parses to; sub-channels created on first use are channels without limit; the
weak dictionary of jobs keeps `info` of jobs that are nowhere, which no operation
reads.  A job belongs to one database (the code asserts it).  A sequential
channel stops at a failed job only: that a job whose eta is postponed is
overtaken by the next one is what the code does, and no property excludes it.

`JobPool` knows of each job only whether it is waiting, handed out, failed or
absent.  `ConnectorChannels` implements it under the mapping `Status`.  One
clause of it is weaker than one would expect: a job told to be running while it
waits may go on waiting.  See finding 4.

### 2.2 JobRunner

The steps are committed transactions or steps of the runner's thread in memory.

| variable | code |
|---|---|
| `row` | the columns of `queue_job` that decide something |
| `later` | the jobs whose eta is in the future |
| `runner` | down; listening but not loaded; processing notifications; in `run_jobs` |
| `tree`, `changed` | the channel manager; the jobs whose eta in it is not the one in the table |
| `notified` | notifications on the runner's connection (a set: for a row that is read again, a second one changes nothing) |
| `dispatching` | the job between the generator's yield and `_async_http_get` |
| `req` | requests: what the server is at, whether the thread waits, the `Job` object loaded |
| `stale` | history: rows a crash left enqueued or started |

- *Transactions.*  Loading, `set_started`, `set_job_enqueued`, `set_job_pending`
  and what users do are single short writes and are taken as serial.  Performing
  a job is long: `fresh` says whether nobody else wrote the row since, and a
  store with `~ fresh` fails as REPEATABLE READ makes it (`Conflict`,
  `HandlerFails`).
- *Timeout.*  The second is not measured: `GiveUp` may come at any time, before
  or after any step of the server.
- *Retries.*  The try counts up to `MaxRetries` and stays there, which changes
  nothing as it is only compared with that bound.
- *Time.*  An eta is later or not; `date_done` is recent or more than 30 days
  old, and no request lasts that long.
- *Crashes.*  `RunnerFails` is an exception in the loop; `KillWorker` a server
  process that dies or refuses; `ServerCrash` everything at once.  A row that is
  left enqueued or started then is in `stale` until somebody writes it: the
  runner's own documentation lists this as a caveat, and the properties except
  it and nothing else.

Not in the model: several databases and their detection, a failing
`set_job_pending` (the exception ends the thread and the job stays enqueued),
legacy workers beside the runner, other priorities than the
order of `ConnectorChannels` (any due job may be popped first), related actions
and messages.

### 2.3 WorkerQueue

A worker is one incarnation of a process: a restarted process has a worker with
a new uuid.  `row` and `heard` are the tables `queue_job` and `queue_worker`;
`queue`, `listed`, `putting` and `thread` are in the memory of a worker.
`AssignJobs`, `ListAssigned`, `EnqueueStore` and `EnqueuePut` are the cron, whose
transactions are short; the thread takes a job (`Load`), starts it
(`SetStarted`), performs it in one long transaction that fails if another wrote
the row meanwhile, and stores an outcome.  `Purge` deletes the rows of workers
not heard of for too long, which empties the worker of their jobs (a foreign
key), and a worker that was only late goes on executing them: this is what
`disturbed` records.  The order of the two writes in `enqueue_job_uuid` and the
put back of `retry_postpone` are what `Served` depends on.

Not in the model: a worker that shuts down because its own row is gone
(`worker_lost`), deletion of jobs, several databases.  A queue gives its jobs in
any order, while the code gives them by priority and eta.

### 2.4 The business addons

In all of them a step is a transaction, and a form or a wizard that may be out of
date is state of its own: `form` in `BankPayments` keeps what a client saw,
`wizard`, `planWizard`, `purchaseWizard`, `removal` and `pendingDialog` say what
is open.  The `history` variables record what the code lets happen and a property
excepts by name; they guard nothing.

- *Expenses.*  An invoice's cancellation, payment and deletion call back into
  its expense (`ActionCancel` and the workflow in `ExpenseStep`), and write what
  the stored balance of an advance depends on (`DependOn` recomputes it).  The
  accounting that pays, undoes, resets and deletes invoices is external.  Not in
  the model: lines and their details, partners, sequences.
- *BankPayments.*  `ValidateBankPayment` and `CancelBankPayment` look at no state;
  what the reconciliation refuses undoes the transaction.  With `reversal` an
  entry is reversed instead of deleted.  Not in the model: currencies, missing
  accounts, sequences.  Bank receipts are the same code with debit and credit
  exchanged, which the model does not tell apart.
- *SaleInvoicePlan*, *PurchaseInvoicePlan.*  Rows, the invoices that bill them and
  what these deduct.  Amounts are hundredths and rounded where the code rounds.
  The two addons look alike and differ in what matters: a sale's invoices drive
  the workflow of the order, a purchase's do not; a sale deducts its advance from
  every invoice, a purchase a part of it by the ratio of the bill, or a deposit
  from the last one; a purchase compares the total at the first creation only.
  A row of a sale may be moved to another installment (`Renumber`), zero included,
  and also when it is invoiced, as a misspelled keyword (`tates`,
  `sale_invoice_plan.py:43`) leaves the field editable.  The row of an order
  line in installment 0 may state an advance, too, and which row of it comes first is
  a matter of their sequence: both are left open (`Advancing`).  To change the
  order line of a row is to delete it and to write another one.  Deleting an invoice
  of a sale cancels it first, in the module `sale`.  Not in the model: dates,
  copies, orders without a plan, retention, lines of a draft invoice edited by
  hand, and rows of a sale without order line but the one of the advance, of which
  the constraint allows any number: a second advance is another one to deduct.  The
  row of the advance stays in installment 0.
- *DepreciationTable*, *Assets.*  The table is a function from an asset to amounts
  by year and period, for the methods linear, linear with a limit, degressive,
  degressive to linear and degressive with a limit; the board corrects it by what
  was posted.  Several lines may have one type and date, so lines have a number, too.
  Not in the model: negative values, `days_calc`, durations given
  as numbers, merged entries, assets made from invoices, edits of dates, and a
  dialog of `modify` left open until the asset is closed or removed: the method
  itself looks at no state.
- *UndueVat.*  A payment's entry books the VAT or leaves it to the wizard, by the
  company's setting.  A tax invoice gets a number in the register of a period, and
  a certificate in another.  `pendingDialog` is a dialog left open: its method
  does not look at the state.  Amounts are in `PaymentAmounts`.  Not in the model:
  sales, several tax invoices of one payment, the window of dates in days.
- *IncomeTax.*  The progressive tax of the year's income, computed from the
  register, less what was withheld; canceling posts mirrors.  The ranges are
  assumed to ascend and to end above zero; `_check_rate_ids` compares only where
  each one starts with where the last one ended.  The form of a supplier lists its
  lines and lets one that is not posted change its income and its payment, whatever
  the states of both (`EditInSupplierForm`); `write` then computes one register
  anew.  Not in the model: several tables of rates, the report, rounding (the code
  has none), lines marked as manual, which no form creates (`create="0"`), and
  the numbers of posted lines: a line that joins a payment in part posted comes
  after all of it.
- *PaymentAmounts.*  A payment to a supplier while it is a draft, `draft`: the
  lines that the form shows, and the rows of `account_voucher_tax` (`vat`,
  `undue`, `wht`), which every write computes anew (`ResetTaxes`) but for the row
  that is marked manual.  The two come from different functions with different
  rounding: that they agree is what the module is about.  `PostPaymentDraft` makes
  the entry from the rows and writes off what it lacks, or the deduction and the
  difference of the form.  What is odd about a draft (`Odd`) is derived from it,
  and `Misleading` names the oddities that the properties except.  Bills are of
  something, and what is withheld and retained is no more than the bill
  (`BillsAssumption`).  Amounts are whole cents.  Not in the model:
  currencies other than the company's, several withholding taxes or deductions,
  receipts, base and tax code amounts of the rows, and writes from a context
  without `type`.

What the models show of the code beyond their properties, and the properties
except by name:

- Two clearings that are pending at a time may clear more than the advance; an
  advance's invoice that is canceled and made again smaller leaves its clearings
  above it; a canceled invoice reset to draft is a second living invoice.
- Payments written by a form that is out of date may be back in draft with a live
  entry, or list lines they did not pay (`outdated`).
- The row of an order line in installment 0 of a sale's plan counts when the amounts
  are compared and is not billed, since installment 0 is taken for the advance: the
  order is in progress and that line is billed short (`unbilled`).  The box that
  ignores a mismatch does the same openly (`ignored`).
- A line of income tax that is moved to a posted payment in the form of its supplier is
  in no register until that payment is posted once more (`joined`).
- Deleting rows of a plan under an invoice, making a plan anew after invoices, or
  moving a row beyond the last installment bills twice or deducts twice; a
  purchase's installment of zero takes the whole advance (`or 1.0`).
- Undoing a removal closes the asset whatever is left; the methods with a limit
  never close by themselves, as the salvage value stays in the residual.  An early
  removal whose first line has the date of the asset itself divides by zero
  (`account_asset_remove.py:265`), which undoes it.
- A payment canceled from a second dialog is reversed twice; one whose company
  changed its setting between two steps books its VAT twice or declares it
  without booking; the entry of a recognition that is deleted leaves the number.
- The taxes of a payment are computed when it is written, not when it is created.
  `_get_amount_wht`, behind the change of a line, takes no notice of the
  threshold, which `_get_amount_wht_ex` and the rows do.  The one row of a withheld
  tax belongs to the first bill it is withheld from, so that a tax typed in the
  line of another bill is not booked; a typed one stays when amounts change.
- A tax typed for a refund, or a retention on it, is booked with the sign of a bill.
  A deduction equal to what the entry lacks is taken for the whole difference, as
  the comparison mixes two signs.  In two steps, the difference of a VAT
  typed by hand is booked although the VAT is not.
- A payment with income tax can be canceled only where no tax falls due, as the
  mirror's tax is compared with the amount shown for the original.

### 2.5 The framework of the connector

`Imports` has one transaction per job, at REPEATABLE READ: `seen` is what its
snapshot shows, `changed` the rows written elsewhere since, which make its writes
fail.  `Acquired` is `pg_try_advisory_xact_lock`, which takes the lock or not and
no snapshot.  The order in which a job imports its dependencies is that of
`Needs`.  `Backends` keeps the entries of each backend in order, with what each
replaces; `GetClasses` follows the replacements down to what is usable, then the
parent, one level of which is all that the two backends of the model have.  `Mappers` is the metaclass: a class without a declaration of its own
shares the set of its first base, and a class with several bases changes that set
in place (`merged`).

## 3. What TLC checks

| run | instance | what it shows |
|---|---|---|
| `channels` | root (2), an unlimited channel, a sequential leaf; four jobs of two databases, with changing attributes and an unknown channel name; two instants | `TypeOK`, `FlowInv`, `CapacityHonoured`, `RoundIsComplete`, `PoolSpec` under every sequence of calls |
| `runner` | root (1) over a channel (2), two jobs, two requests; return, conflict, error | `NoLostNotification`, `StartedIsExecuted` when jobs compete for a slot |
| `runner_one_job` | one job, two requests; all outcomes, two retries, autovacuum | `NoOrphanEnqueued` when one job is executed twice at a time |
| `runner_live` | one job, two requests, fairness | `EnqueuedEnds`, `StartedEnds`, `PendingIsSent` |
| `done_is_final`, `autovacuum_only_done`, `canceled_never_performed`, `marked_running_in_parents` | one or two jobs | a statement of the code's documentation that the code does not keep (section 4) |
| `workers` | two incarnations of a worker; one job with a user or a late worker, or two jobs | `Served`, `EffectsOnce`, `EndIsFinal`, `EveryJobEnds` |
| `business` | one of eight addons in each behaviour, see the bounds | the properties of the business addons below |
| `framework` | three jobs over three records; two backends and three classes; four mappers and two fields | `TypeOK`, `ImportedOnce`, `ReplacedNotChosen`, `ChangedFieldIsMapped`, `EveryImportEnds` |
| `no_duplicate` | the same | `NoDuplicate` is violated (section 4) |

The types of `JobRunner` and `WorkerQueue` are proved (section 5) and not checked
again in a run.

- `FlowInv`: a job is only on the path of its own channel, running in a channel
  exactly when the parent has it queued or running, never in two parts of one
  channel, failed in its own channel only.
- `CapacityHonoured`: of the jobs the channels let in, never more than the
  capacity.  Jobs the database says are running already may exceed it.
- `RoundIsComplete`: when an iteration of `get_jobs_to_run` ends, no channel
  with room holds a due job.
- `NoLostNotification`: when the channels disagree with a row, a notification
  for it is on its way or the runner is about to write it.
- `NoOrphanEnqueued`, `StartedIsExecuted`: an enqueued job has a thread that
  waits for it, a started one a request that executes it, crashes excepted.
- `EnqueuedEnds`, `StartedEnds`, `PendingIsSent`: their counterparts in time.
- `Served`: the tables of the legacy workers never run ahead of the memory they
  describe.  `EffectsOnce`, `EndIsFinal`: a job's work is committed once, and a
  job that ended stays so, users and workers declared dead alive excepted.
  `EveryJobEnds`: also what a dead worker held is executed.
- `ImportedOnce`: a record is created once unless a job's snapshot is older than
  the creator's commit and its request of the lock later.  `EveryImportEnds`:
  retries without a count end.  `ReplacedNotChosen`: a class is not found next to
  one that replaces it.  `ChangedFieldIsMapped`: a field that a class or one of
  its bases declares calls the mapping when it changes.
- `Backed`, `InvoicedOnce`: an expense that waits for payment has an invoice, and
  one only.  `BalanceUpToDate`, `NotOverCleared`: the stored balance of an advance.
- `PaidOnce`, `DoneIsPosted`, `CanceledFreesLines`: lines in transit are paid by
  one living entry, and are free again when it is undone.
- `RowInvoicedOnce`, `BilledInFull`, `AdvanceDeductedOnce`, and
  `BilledOnceWithFirst` for purchases: however often invoices are canceled and
  made again, each row is billed once and the deductions add up.
- `BoardAddsUp`, `ClosedIsDepreciated`: a computed board depreciates what it
  should to the cent, and a closed asset has nothing left.
- `DeclaredAsBooked`: the VAT of a payment is in the books once exactly when its
  tax invoice counts in the register.  `NumbersRunOn`: no number of a register is
  given twice or lost.
- `YearlyTax`: what was withheld in a year is the progressive tax of the income.
- `WriteoffAsShown`: the entry of a payment balances and writes off what its form
  showed, but for the cents.  `VatFollowsPayment`: after any number of payments the
  VAT that is due is the share of what was paid.  `RegisteredPaysInFull`: the
  amount that is proposed for a bill pays it.  The first two except by name
  (`Misleading`) the cases listed in section 2.4.

**Bounds.**  Three channels are needed for a channel with both a parent and a
child, and for the three kinds of capacity.  Four jobs are one more than the
capacities let in.  In `JobRunner`, two requests let a timed-out execution overlap
with a second one of the same job, and two jobs let one wait for the other; a
third would only repeat either.  A capacity of 2 below a root of 1 makes a job
wait in a queue that is not its own channel's.  Two retries have a first, a
middle and a last try.  Jobs and requests are interchangeable, hence symmetry in
the safety runs of `JobRunner`; there is none in `runner_live`.

In `workers`, a third worker or job would only repeat what two do, and the run
leaves out only steps that no fairness asks for.  In `framework`, two jobs share a
dependency and a third imports it alone, so that it is locked, created and
updated in every order; a chain of three replacements needs three classes; four
mappers make a class with two bases of one ancestor.

The documents of `business` are the fewest where the hazards happen, and
`CONSTRAINT Small` cuts what repeats:

- expenses: an advance and a clearing, three invoices, amounts up to 2; one sort
  of accident in a behaviour, and not all of them with three invoices.
- bank payments: two payments, two lines, two forms, with and without reversal;
  two payments compete for a line, and one form of a payment is out of date when
  the other is used; nothing follows what a form wrote that it may not.
- sale plan: one order line of three hundredths with a unit of two, so that
  rounding matters, two installments, four invoices: each installment and the
  advance once, and one of them again; a plan made anew under one invoice at most;
  two invoices at most with an ignored mismatch or the row of an order line in
  installment 0, which is enough to invoice, cancel, move or edit and invoice again.
- purchase plan: one line of 10.00, two installments, an advance or deposit of
  2.00, rows of 0 and 4.96, five bills; accidents end a behaviour.
- assets: two periods a year, one or two years, a value of 7 with a salvage
  of 2, so that every method rounds; one line edited by hand.
- VAT: a payment with everything and a second one that competes for numbers, two
  periods, two numbers; one sort of accident.
- income tax: two payments to one supplier in two years, three rates, incomes of 1
  and 2, four lines; accidents end a behaviour, but for a line moved to a posted
  payment, after which there is one line less.
- amounts of payments: two bills and a refund, one line below the threshold, two
  payments of each bill, amounts of a few cents so that every function rounds;
  a tax withheld of three tenths, so that a wrong one differs by more than the
  cents that rounding explains.

**Fairness.**  The runner's loop goes on (weak fairness of each of its phases;
the exception handler restarts it), a process of the server continues what it
began, `requests.get` ends with an answer or a timeout, and eta passes.  A
notification that arrives too late for one turn of the loop is polled in the
next, hence strong fairness of `ProcessNotification`, whose phase comes again and
again.  Users, outcomes and crashes owe nothing.  `PendingIsSent` also assumes
that the runner and the server stop crashing from some time on; requests may
go on being refused and timing out.

The threads of a living worker go on: its cron, its watcher's sign of life and
its thread (weak fairness).  `Purge` is strongly fair, since the watcher purges
right after each sign of life; `Ends` is, since a job that is retried for ever
reaches `max_retries`.  Users, crashes and lost connections owe nothing.  A job
that a user or a purge disturbed is excepted from `EveryJobEnds`: two workers may
pass it back and forth, each resetting what the other one has in its queue.  In
`Imports`, each job's step is weakly fair, as the runner sends every pending job
(`PendingIsSent`); that the external system fails is not.

## 4. Where the code and its documentation disagree

1. `DoneIsFinal`.  "The final state is done" (`queue/job.py:320`), but
   `set_job_enqueued` compares only the uuid: a job set to done after the runner
   was last notified becomes enqueued and is executed.
2. `AutovacuumOnlyDone`.  "Delete all jobs (active or not) done since more than
   `_removal_interval` days" (`queue/model.py:204`), but only `date_done` is
   compared and `set_pending` does not reset it: a job once done, requeued, and
   pending or failed is deleted.
3. `CanceledNeverPerformed`.  `perform` asserts that the job is not canceled
   (`queue/job.py:507`), but the runner does not look at `active`: a canceled
   job that becomes pending again fails on the assertion.
4. `MarkedRunningInParents`.  `set_running` "also marks the job as running in
   parent channels" (`channels.py:412`), but not when the job is already running
   in its own channel and queued above: it stays there and is dispatched again
   while it executes.  `FlowInv` holds all the same, the lemma
   `ClimbedIsAllOrNothing` says why: climbing reaches the root or does nothing.
5. `NoDuplicate`.  "Job 2 is retried later, and when it is retried, it sees the
   category X created by Job 1" (`connector.py:540`), but the lock is tried
   inside a REPEATABLE READ transaction: a job whose snapshot is older than the
   commit of Job 1, and that asks for the lock after it, gets the lock, does not
   see the category and creates a second one.  `ImportedOnce` says this is the
   only way.

## 5. What is proved

For every tree of channels, every finite set of jobs and all attributes:

| theorem | of `ConnectorChannels` |
|---|---|
| `TypeCorrect` | `Spec => []TypeOK` |
| `JobsFlow` | `Spec => []FlowInv` |
| `CapacityTheorem` | `Spec => []CapacityHonoured` |
| `RoundsAreComplete` | `Spec => RoundIsComplete` |
| `ChannelsImplementPool` | `Spec => PoolSpec`, the refinement of `JobPool` |

| theorem | of `JobRunner` |
|---|---|
| `TypeCorrect` | `Spec => []TypeOK` |
| `JobsFlow` | `Spec => []FlowInv` |
| `EnqueuedAreAwaited` | `Spec => []NoOrphanEnqueued` |
| `StartedAreExecuted` | `Spec => []StartedIsExecuted` |
| `NothingIsMissed` | `Spec => []NoLostNotification` |

For any workers, jobs, records, backends and classes:

| theorem | states |
|---|---|
| `WorkerQueue_proofs!TypeCorrect`, `ServedHolds`, `EffectsOnceHolds`, `EndIsFinalHolds` | `Spec => []TypeOK`, `[]Served`, `[]EffectsOnce`, `EndIsFinal` |
| `Framework_proofs!ImportedOnceHolds` | `ImportsSpec => []ImportedOnce` |
| `Framework_proofs!ChangedFieldIsMappedAlways` | `MappersSpec => []ChangedFieldIsMapped` |
| `Framework_proofs!ReplacedNotChosenHolds` | `BackendsSpec => []ReplacedNotChosen` |
| `Framework_proofs!FrameworkTypeCorrect`, `FrameworkSafe` | `MCSpec => []TypeOK` and the three above of `MCSpec`, where the three stand side by side |

For any expenses, payments, lines, forms, orders, installments, bills, suppliers,
years, rates, durations and amounts:

| theorem | states |
|---|---|
| `Invoices_proofs!ExpensesTypeCorrect`, `BackedHolds`, `InvoicedOnceHolds` | `ExpensesSpec => []ExpensesTypeOK`, `[]Backed`, `[]InvoicedOnce` |
| `Invoices_proofs!BalanceUpToDateHolds`, `NotOverClearedHolds` | `ExpensesSpec => []BalanceUpToDate`, `[]NotOverCleared` |
| `Payments_proofs!PaidOnceHolds`, `DoneIsPostedHolds`, `CanceledFreesLinesHolds` | `BankSpec => []PaidOnce`, `[]DoneIsPosted`, `CanceledFreesLines` |
| `Payments_proofs!VatTypeCorrect`, `NumbersRunOnAlways`, `DeclaredAsBookedAlways` | `VatSpec => []VatTypeOK`, `[]NumbersRunOn`, `[]DeclaredAsBooked` |
| `Invoices_proofs!PlanTypeCorrect`, `RowInvoicedOnceAlways`, `AdvanceDeductedOnceAlways`, `BilledInFullAlways` | `PlanSpec => []PlanTypeOK`, `[]RowInvoicedOnce`, `[]AdvanceDeductedOnce`, `[]BilledInFull` |
| `Invoices_proofs!PurchasePlanTypeCorrect`, `BilledOnceWithFirstAlways` | `PurchasePlanSpec => []PurchasePlanTypeOK`, `[]BilledOnceWithFirst` |
| `Payments_proofs!AmountsTypeCorrect`, `WriteoffAsShownHolds`, `VatFollowsPaymentHolds`, `RegisteredPaysInFullHolds` | `AmountsSpec => []AmountsTypeOK`, `[]WriteoffAsShown`, `[]VatFollowsPayment`, `[]RegisteredPaysInFull` |
| `Payments_proofs!PitTypeCorrect`, `YearlyTaxHolds` | `PitSpec => []PitTypeOK`, `[]YearlyTax` |
| `Invoices_proofs!AssetTypeCorrect`, `BoardAddsUpAlways`, `ClosedIsDepreciatedAlways` | `AssetSpec => []AssetTypeOK`, `[]BoardAddsUp`, `[]ClosedIsDepreciated` |
| `Payments_proofs!BusinessImplementsAddons` | `MCSpec =>` each of the eight specifications above |
| `Payments_proofs!BusinessTypeCorrect`, `BusinessInvoicesSafe`, `BusinessPaymentsSafe` | `MCSpec => []TypeOK`, and all properties above of `MCSpec` |

For every asset, in any state, with an amount to be depreciated and a duration:

| theorem | states |
|---|---|
| `Sums_proofs!TableAddsUp` | the amounts of `DepreciationTable(a)` add up to `Depreciable(a)`, and each line leaves what the one before leaves less its amount |
| `Invoices_proofs!BoardFollowsTable` | a board that starts anew, or goes on where its posted lines agree with the table, has the amounts of the table |

Assumptions: `TreeAssumption` (every channel leads to the root: channels are
created from the root down), `ConfigAssumption` (what `configure` accepts),
`FiniteAssumption` (finitely many jobs), `JobsAssumption` and
`RunnerAssumption` (the constants' types).  `WorkerAssumption`,
`ImportsAssumption`, `BackendsAssumption`, `MappersAssumption`,
`BankPaymentsAssumption`, `ExpensesAssumption`, `PlanAssumption`,
`PurchasePlanAssumption` and `UndueVatAssumption` say that the null values are none of the things they stand
for, and what sort of numbers the amounts and bounds are.
`PaymentAmountsAssumption` and `BillsAssumption` are the types of bills, rates and
prices, and what section 2.4 says of bills; `IncomeTaxAssumption`, that the ranges
of the rates ascend; `DepreciationAssumption` and `AssetsAssumption`, that a year has
periods, a factor is positive, and the amounts of an asset are whole and not negative.  TLC evaluates all of them in the runs.

The argument.  The inductive invariant is `Inv == TypeOK /\ FlowInv`.  Neither
`CapacityHonoured` nor the refinement is inductive without `FlowInv`: that a job
pulled from a queue leaves nothing behind, and that one of a job's notifications
clears all channels above, depends on the job being on one path.
`Channels_proofs` shows for each operation that it keeps `FlowOf` for the job it
works on; all other jobs keep their place (`SamePlaceFlows`).  The tree needs
facts that look like inductions, that a path is a chain, that it has no cycle,
that the parent is injective on it; they follow from `Path` being the *least* set
closed upwards, by exhibiting a closed set (`PathLeast`).  `RoundsAreComplete`
needs `FinishedInv`: a channel whose loop is over stays exhausted until the
iteration ends, as pulls further up only take from it what was already counted.
`CapacityTheorem` follows the jobs let in: only `Pull` adds one, and `MayPull`
compared before.

The argument for `JobRunner`.  Again the types and `FlowInv` are proved first, with
what the types do not say: a request that is not idle is about a job.  The
proofs rest on two shapes.  Every way out of `runjob` once the job is
loaded (seven actions) is an
`Ends` step: it stores a state that is not a running one, or nothing at all, and
that only when another transaction wrote the row since.  Every user's step but
the autovacuum cron is a `UserWrites` step.

- `StartedIsExecuted` is not inductive: the request that executes a started job
  may end without storing.  `TableInv` is: whoever wrote "started" last has not
  begun to perform the job, or has begun and nobody wrote the row since, so that
  its store succeeds.  Crashes are what `stale` excepts.
- `NoLostNotification` needs to know of the job the runner is about to send that
  it was not deleted without a notification (`ViewInv`); otherwise its write
  would touch no row, notify nobody, and leave the job counted as running for
  ever.  The rest is that others notify every state they write, but for the
  deletion of done jobs, which are in no channel.

The arguments for the other modules.

- `WorkerQueue`: `EffectsOnce` needs to know where the job is.  `OnePlace` says
  that a job nobody disturbed is in one queue or one pair of hands only; then who
  commits it is who the row names, and once it has ended nobody has it
  (`Ended`).  `ServedBy` is `Served` with the thread's phase.  A purge takes jobs
  from a dead worker, whose queue and thread are gone (`Empty`), or disturbs them.
- `Imports`: `Alone` says that a record some running job has created and not yet
  committed is locked by it, and in no row unless it was late; then no commit
  adds a second row.
- `BankPayments`: `Held` ties the lines a live entry debits to their
  reconciliation, and `DoneLive` the state to the entry.  That a line is paid
  once then is that it is reconciled with one thing.
- `Mappers`: what a class declares is in its own set and in the one of the
  definition it uses (`Gathered`).  Sets that are shared only grow, and the set of a
  class that declares nothing stays empty unless it is merged.
- `Backends`: an entry is replaced by later ones only, so that the
  candidates, which the code finds by recursion, can be found from the last entry
  on.  Where an entry of a class is replaced by a usable one, its candidates are
  other classes; only a second registration of the class brings it back.
- `Expenses`: first without amounts.  `Live` says that an invoice of an expense
  that is not canceled is the one the expense points to, unless a canceled one was
  revived; `Linked` and `Sorted` that pointers agree and returns are not confused
  with invoices of expenses.  The balance then is a sum over the invoices that
  count, and each step changes one term of it or recomputes it.  `NotOverCleared`
  needs `Pledged`: what is cleared together with what the one pending document will
  clear was paid, and the stored balance promises no more than is left.
- `UndueVat`: `Fits` ties the rows of a register to its next number, each number
  below it being that of one row, or withdrawn, not both.  `AllBooked` says which
  rows and entries the state and the setting of a payment call for.
- `SaleInvoicePlan`: a living invoice is that of its rows, and of one row of each order
  line at most (`PlanFollowed`, `InvoiceShape`), which moving rows between
  installments keeps although the rows of an invoice need not stay in one.  As
  long as nothing but the advance was invoiced in installment 0 (`Billable`), what is
  billed of a line is therefore the sum of its rows, which the code compares with
  the line before it makes invoices.  No row is in two living invoices, whatever
  was billed (`Regular`).  An invoice deducts the
  advances that are living or are made with it, and there is one of them
  (`OneAdvance`).
- `PurchaseInvoicePlan`: as long as nothing happened that the property excepts, a
  living bill is the first one or that of a whole installment, with the amounts
  that its rows have now and the deduction that falls to it (`Follows`).  That
  is an invariant although a plan is edited between two creations: what is billed
  is not edited, and the last installment stays the last, as only deleting or
  moving rows could change it.  Once all rows are billed (`BillsOnceAllBilled`)
  sums over bills are sums over rows.  The part of the advance in each bill is its
  proportion to half a hundredth (`AdvancePartIs`), the rows of each line make
  the line to the unit of comparison, and the two errors together are the margin
  that the property states.  A plan without installments deducts nothing, and
  a bill of nothing the whole advance, which the property therefore excepts.
- `PaymentAmounts`: what is written off is a matter of rounding.  Each amount that a
  line shows is a part of its bill rounded to cents, hence off by at most half a
  cent; a sum of such is off by half a cent for each of its terms (`SumsNear`).
  `AmountsInd` says of each line of a draft what part of its bill it is, and of the
  rows that they are computed from those lines, or which oddity explains that they
  are not.  The entry then lacks what the form shows within the number of
  roundings, and the bounds in the properties count just these.
- `IncomeTax`: the registers are exact (`Exact`), which posting keeps line by line
  since each line is taxed on the register as the one before left it.  The posted
  lines of a payment that is not posted have no tax and their incomes cancel
  (`Undone`).  That is not obvious: a mirror has the reversed income and the tax that
  was shown, and is posted only if that is the tax of the reversed income.  Since
  the tax grows with the income (`TaxGrows`), it has the sign of the income, so both
  can only be zero.  Deleting a payment, which the registers do not hear of, is
  therefore harmless.  Posting once more is harmless because the tax computed anew
  must again be the one shown, which is what was withheld (`AsShown`).  A line that
  joins a posted payment is not posted, and the register counts none of these; it is
  therefore exact about the posted lines of posted payments (`AllShown`), which are
  all of their lines as long as none joined (`AllPosted`).
- `Assets`: that a board adds up is first a fact about the table.  For every method
  it has a line, its lines are dated one period after the other and no later than
  the end of their years (`ProperTable`), and its amounts add up
  (`TableAddsUp`, below).  The board takes them from the next line on, corrects
  that one by what the posted lines lack of the table or exceed it, and
  leaves the rest to the last: its amounts again are the steps of a sum that ends
  at `Depreciable` (`BoardAmountsAddUp`), provided there is a next line, which
  `Reaches` gives (`NextLineIs`).  Where the posted lines agree with the table
  (`Agrees`), or there are none, both corrections are zero
  (`BoardFollowsTable`).  The invariant
  (`AssetInv`) then needs to know that lines are told apart by type, date and number
  (`ProperLines`), or else a new line might be one that is there, and that
  there is no line of a removal but in a removed asset (`RemovedOnce`), whose
  amount would count twice; a wizard that was out of date breaks just that.  An early
  removal leaves lines that all count as depreciated (`CutOffIs`), so that what it
  writes off is what they lack.
- `DepreciationTable`: what a line leaves is the number that the amounts are the
  steps of (`Runs`), within a year (`LinesRun`), from one year to the next
  (`YearAdded`), over all years (`AllLines`) and where the lines before the
  asset's first period in use become one (`TableIsProper`).  What is left is the end value: the last year takes what
  the year before it left (`LastResidual`), and where a year leaves nothing the table
  ends with it (`LastYearOf`).  Not claimed: that no amount is negative, or that no
  line leaves less than the end value.
- `MCBusiness` and `MCFramework`: no module assigns to the variables of another, so
  that each step of the whole is, for each part, one of its steps or a stutter
  (`EachAddonSteps`, `EachPartSteps`).  What is proved of the part is then true of
  the whole.

Sums.  `SumFunctionOnSet` of the community modules is defined by a recursive
function over subsets.  `Sums_proofs` shows that there is such a function, that it
has one value, and from that how sums split, reindex, group and compare, for any
finite set.  All these are inductions, but over numbers that are named: the set of
the sizes where the claim fails has a least element (`LeastNat`), and that one is
refuted.  The recursive functions of the models (the candidates of `Backends`, the
lines posted in order of `IncomeTax`, the residuals and lines of `DepreciationTable`)
are shown to exist in the same way.  Only the
theorems of the library that take an operator as a parameter cannot be used.

Only model-checked: the five liveness properties (`EnqueuedEnds`, `StartedEnds`,
`PendingIsSent`, `EveryJobEnds`, `EveryImportEnds`) and the five disagreements.  Every
invariant and every action property that a passing run checks is a theorem.  Out
of the reach of the prover: liveness under fairness, `ENABLED`, and anything that meets a
`RECURSIVE` operator; there is none here.

## 6. Not modelled, and the plan

Not modelled, because nothing in it is shared between actors or survives a call:
events and synchronizers, reports in all formats, web widgets, operating units,
hooks, wizards that record the reason of a cancellation, document types,
addresses, amounts in words.  Not modelled because the behaviour is that of a
module outside this repository: `stock_no_negative` (quants), mass editing (the
ORM's views).  Guarded by a constraint of the database in one transaction:
revisions of sales orders, sequences of a fiscal year.

Next, in this order: billing and supplier billing, the amounts of a payment in two
currencies (`l10n_th_account`), the audit log (methods patched in several processes), salaries and
petty cash, the children and options of mappers; the heap with lazy deletion of
`PriorityQueue` against the set of its live elements, as a refinement.
