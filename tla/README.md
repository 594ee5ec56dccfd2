# FactoryNerve (DPR.ai): verification of the backend's approvals, jobs, billing, alerts and mails

FactoryNerve is a FastAPI and SQLAlchemy backend (`src/backend`, about 93,000
lines of Python), a Next.js client (`src/web`) and a vendored gateway
(`src/free-claude-code`). The backend's own logic is a set of request handlers
over one SQL database, with threads of the web process and rq worker processes
that sweep the same tables. What is hard about it is not one algorithm but
handlers, sweeps and callbacks that read, decide and commit in several
transactions while others do the same.

This directory holds TLA+ modules of that logic, TLC configurations and
TLAPS proofs. `PROJECT.json` maps every definition to the lines it models.

## 1. Inventory

| component | state it keeps | operations | what is hard | what makes it correct |
|---|---|---|---|---|
| Approval engine (`services/approval_service.py`, `routers/approvals.py`) | table `approval_instances`: status, stage, who asked, who signed, when decided | initiate (pending or bypass), complete, advance (approve, reject, L1), expire, purge | locked and unlocked readers of one row; commit before callback | maker and checker are two people; a decision is taken once and stands; bypasses are audited; decisions have effects; overdue rows are closed |
| Expiry sweeps (`services/approval_expiry_service.py`, `workers/approval_expiry.py`) | none of their own | SELECT overdue rows, UPDATE, commit, callbacks | reads without lock, runs in two kinds of process | as above; no row pending for ever |
| Stock reconciliation (`routers/steel.py` 2125-2538, `services/approval_callbacks.py` 67-149) | `steel_stock_reconciliations`, adjustments in `steel_inventory_transactions` | count, approve, reject, callback | stale reads, ORM writes back changed columns only, two paths post the same variance | no counter signs off his own count; approved variances are posted, once; postings have an instance |
| User administration (`routers/settings.py`) | users, roles, memberships | invite, role change, (de)activate | change committed together with the request for approval; rank checks on stale roles | roles change when approved; nobody grants above his rank |
| Stock reservation (`services/reservation_service.py`, no caller at present) and dispatch (`routers/steel.py`) | reservations, ledger balance | reserve, confirm, release, stale release | a lock that locks nothing on an empty item; release against confirm | never more reserved than in stock; each reservation ends once |
| Background jobs (`services/background_jobs.py`, `routers/jobs.py`) | job records in memory and Redis, the queue of a thread pool | create, submit, run, progress, cancel, retry | records written field by field without a lock by callers and pool threads; the queue is lost with the process, the records are not | a job runs at most once; a cancel that was answered in time is kept; a finished job stays finished; nobody waits for ever |
| OCR job queue (`ocr_jobs.py`, no caller at present) | queue, job table, retry timers, breaker, snapshot on disk | enqueue, work, retry, evict, recover | queue before registration, several savers of one file | a queued job is run; attempts are bounded |
| Billing (`routers/billing.py`, `services/billing_manager.py`, `dependencies/subscription.py`) | orders, webhook events, subscriptions, invoices | create order, webhook, manual sync, status and maintenance calls | events repeated and reordered, a sync without the locks the webhook takes, stale copies of the subscription | one invoice per order; a paid order is not activated again; a stored payment was applied; a paid plan is lost only after the days of grace |
| Idempotency (`middleware/idempotency.py`) | stored answers by key | check, process, store | three sessions | one key is processed once |
| Email queue (`email_utils.py`, `services/email_queue_processor.py`, `workers/email_queue_worker.py`, `routers/cron.py`) | rows of `email_queue`: status, attempts, next retry | store and send at once, mark; select a batch, send, store the outcomes | processors and requests that take no lock, copies as old as a batch, a crash between sending and storing | a row that says sent is true; sent once unless sessions met or an answer was lost; not given up too early; the queue comes to rest |
| Operational alerts (`services/ops_alerts/`, `services/whatsapp_sender.py`, `routers/whatsapp_webhook.py`) | `ops_alert_events`: a root row per alert, a row per recipient; a queue and a cache in memory | emit, dispatch, send with one retry, report, recover after a restart | reports late, out of order and repeated; threads without locks; timeouts of unknown outcome; restarts | one message per recipient; a report is not taken back, also not by a restart that gives up messages; the root sums up its recipients |
| Authentication (`services/auth_service.py`, `auth_security/`, `services/otp_service.py`) | sessions, counters, codes | login, refresh, lock out, verify | counters without a lock | a threshold holds under concurrent attempts |
| Attendance (`routers/attendance.py` and its sweeps) | punches, days, reviews | punch, auto close, absence | sweeps against punches | a day is closed once |
| OCR pipeline, AI and analytics; authorization; migrations; web client; vendored code | - | - | I/O, data, or read-only | not modelled, see section 8 |

How the parts interact: routers call `initiate_approval` before a change. If it
answers "no approval required" they make the change, commit, and call
`complete_approval`; if it answers "approval required" they return early. A
checker later calls `advance_approval`, or the sweep closes the row. All three
ends commit the decision first and then run the callback registered for the
workflow key, which makes the change and is committed separately.

## 2. Modules

```
ApprovalRules      tables and pure rules
  ApprovalEngine     the table, requests and sweeps       ApprovalLedger   abstract promise
    ApprovalProperties  properties, refinement mapping, inductive invariant
      MCApproval          TLC instances
      ApprovalProofs      TLAPS proofs
    Reconciliation     composes the engine with a client  StockReview   abstract promise
      ReconciliationProperties
        MCReconciliation      TLC instances
        ReconciliationProofs  TLAPS proofs
BackgroundJobs     records, callers, thread pool          JobRuns   abstract runs
  JobProperties      properties, refinement mapping, inductive invariant
    MCJobs             TLC instances
    JobProofs          TLAPS proofs
Billing            orders, webhook, sync, subscription    PaidPlans   abstract promise
  BillingProperties    MCBilling, BillingProofs
OpsAlerts          emission, dispatcher, sender, reports, recovery
                                                          DeliveryNotices   abstract promise
  OpsAlertsProperties  MCOpsAlerts, OpsAlertsProofs
EmailQueue         requests that send, processors of the queue
  EmailProperties      MCEmail, EmailProofs
```

`MC...` modules hold TLC instances, `...Proofs` modules TLAPS proofs.
`ReconciliationProofs` extends `ApprovalProofs`, whose lemmas on the engine's
steps it uses.

### ApprovalEngine

| in the model | in the code |
|---|---|
| `inst[i]`, a `Row` | a committed row of `approval_instances` |
| `overdue` | rows whose `expires_at` has passed; times are abstracted to this and to `completed` |
| `Requests` | HTTP requests, each with its own session from `get_db` |
| `Daemons` | the scheduler thread of a web process |
| `Workers` | rq processes, which run the same sweep and register no callbacks |
| `pc`, `work`, `moving` | where a session stands between two of its commits, the rows it holds, and what a sweep saw of them |
| `audit`, `applied` | committed `APPROVAL_BYPASS` rows, committed callbacks |
| `lost`, `skipped`, `acked` | history: effects owed by a session that died; rows closed where no callback is registered; L1 approvals a checker was told of |
| `InitiatePending`, `InitiateBypass` | the two outcomes of `initiate_approval` |
| `Complete` | `complete_approval` up to its first commit |
| `Approve`, `Reject`, `ApproveL1` | the three outcomes of `advance_approval` |
| `CallbackCommit` | `_fire_callback` and the second commit |
| `Dies` | a failed change, an exception in a callback, the end of a process |
| `Expire`, `SweepRead`, `SweepCommit` | the clock, and the two halves of `update_expired_instances` |
| `Purge` | `purge_old_instances` |

An action is one transaction: the code takes the row with `FOR UPDATE`, changes
it and commits. `ApproveL1` changes nothing but history because the code only
flushes there and the session is closed without a commit. `SweepCommit` writes
the columns the sweep assigned into what the table holds now, because the ORM
does. `InitiateBypass` makes the row visible at once; in the code that happens
with the router's commit, and no one else knows the id before.

Assumptions: `Purge` does not take a row that a session is working on
(retention is days, a request is seconds). Roles are three: owner, admin, and
any other. Permissions (`PDP`) only remove users from those who may try. A
user's role does not change in the engine.

### ApprovalLedger

What clients rely on: a request is opened once, decided once, its effect is
durable only after the decision, and only decided requests are forgotten.
`ImplementsLedger` maps a row to a phase by `completed_at`, not by status,
since a sweep that read a row before it was decided may put its status back to
pending. That is what the code guarantees, and no more.

### Reconciliation

`rec` and `posted` are the committed rows and the number of adjustments that
refer to each; `target` is an instance's `resource_id`; `task` and `seen` are
what a router call is doing and what its transaction has read. `Count`,
`ReviewRead`, `ReviewSubmit`, `ReviewCommit` and `ReviewFails` are the routers;
`CallbackRead` and `CallbackWrite` are `_on_reconciliation_completed`. Reading
and writing are two steps because neither path locks the row; `Flushed` is the
UPDATE of the columns that changed since the read. Quantities are abstracted to
a variance that is none, under the threshold or above it. The callback is handed
the instance as it was when the callback started (`instance.to_dict()`), the model
takes status and signers at its commit; no property depends on the difference.

### StockReview

One reconciliation: it is counted, then approved or rejected, perhaps again, and never
pending again; a variance reaches the ledger in the step that approves it, and there is no
approval without it. `ImplementsStockReview` says that each row with its adjustments
takes only such steps. It is stated as one action property over all of them, since
a sweep writes several rows in one commit and TLC does not quantify over
specifications; `EachStockReview` proves the quantified form. A posted variance may be rejected
afterwards, and `Post` may happen twice (`reconciliation_twice`).

### BackgroundJobs

| in the model | in the code |
|---|---|
| `job` | `_jobs`, the records all threads of the web process share |
| `saved` | the copies in Redis, written by `_persist_record` |
| `queue` | work submitted to `_executor` and not taken by a thread |
| `pc`, `on` | where a thread is in `run()` and a caller in its request, and the job in hand |
| `half` | actors between `record.status = ...` and the end of `update_job` |
| `answered`, `kept`, `barred` | history: cancels answered to a user; of these, before the run's last, and before its first, look at the flag |
| `Create`, `Retry`, `Submit`, `SubmitFails` | `create_job`, `retry_job` and its handler, `start_job`, a request that fails before it |
| `CancelRead`, `WriteStatus`, `CancelAnswer` | `cancel_job`: the decision, and the two steps of its update |
| `Take`, `Check`, `Work`, `WriteStatus`, `Settle` | `run()`: taken by a thread, each look at the flag, the worker function, the two steps of each update |
| `Restart` | the end of the process; records come back by `_get_record` |

`update_job` is two steps because status is assigned first and
`cancel_requested` last, and a thread can be switched between them. Result and
flag are written in one step: nobody looks at the result to decide on anything.
The record is persisted in the same step; a process that ends between the
assignment and the write to Redis leaves what one that ends before the
assignment does.

Assumptions: one web process (`run.py`, one uvicorn worker); Redis is there and
takes every write (without it a restart forgets all jobs, which is less to go
wrong); records do not expire while a job is about; worker functions do not
swallow `JobCancelledError` (those in `routers/` and `services/intelligence` raise it
again). After a restart two requests may each load their own copy of an orphaned
record; the model gives them one, since no thread works on it any more.

### JobRuns

A run is created, waits, runs and is over, in this order and once; only a
created one may be given up before it waits; each run has a thread of its own;
after the end of the process nothing that had not ended runs again.
`ImplementsRuns` maps a job to its stage by where it is: with its creator, in the
queue, at a thread, or nowhere.

### Billing

| in the model | in the code |
|---|---|
| `order`, `key` | `payment_orders.status` and `.idempotency_key`, no row is `None` |
| `sub` | the organisation's row in `subscriptions`: plan, status, end of the period, end of the grace, pending plan and its date |
| `events`, `invoices` | `webhook_events` by the day they were stored, number of invoices |
| `call` | what a session has in hand: the copies it loaded, the locks it took |
| `prov`, `out`, `Pay`, `PayFails` | the payment provider: what it knows of each order, and its events, which it may send at any time and any number of times |
| `LookUpKey`, `CreateOrder` | the two halves of `create_order` |
| `ReceiveEvent`, `StoreEvent` | `razorpay_webhook`: the check for duplicates, the event's row and the locked read of a payment's order |
| `MarkFailed`, `CommitFailed` | its branch of `payment.failed`: the order's row is written, then the subscription's with the commit |
| `SyncLoad`, `SyncFetch` | `sync_order_status`, which reads the order before it asks the provider |
| `LockSub`, `WriteOrg`, `Commit` | `_activate_paid_order` and `apply_plan_change`: the subscription is locked, the flush writes the organisation, then order and subscription with the commit |
| `LoadSub`, `StoreOrg`, `StoreSub`, `Maintained` | due downgrades (which write the organisation first), `normalize_subscription_record` and the check of a lapsed grace |
| `LocksOrder`, `LocksSub`, `LocksOrg` | the rows a session has locked, by a read `FOR UPDATE` or a write |
| `Fail`, `WaitsFor`, `BreakDeadlock` | a session that is rolled back; waiting; one of two that wait for each other |

An action is what a session does up to a point where another can step in. Row
locks are kept to the end of the transaction, and three rows are locked in
different orders. `autoflush` is off (`database.py:69`), so a flush writes the
changed rows of a session together, `organizations` before `payment_orders` before
`subscriptions`:

| session | order of its locks |
|---|---|
| webhook of a payment | order (`FOR UPDATE`), subscription (`FOR UPDATE`), organisation |
| webhook of a failure | order, subscription (one flush, `billing.py:1382`) |
| sync of a payment | subscription (`FOR UPDATE`), organisation, order |
| due downgrade | organisation, subscription (`billing_manager.py:343-347`, `460`) |
| other maintenance | subscription |

So a webhook of either kind and a sync of one order can wait for each other, and so
can a due downgrade and any activation; the database ends one of the two. `OnlyTwoDeadlocks`
says there is no third way. An organisation's row that keeps its values is neither
written nor locked; the model always locks it, which only adds waiting. The row of
`user_plans` is written by the same sessions as the organisation's and is left out, and so
is maintenance of several organisations in one transaction, which locks one row
after the other.

`create_order`, `sync_order_status` and `razorpay_webhook` are `async def` and do their
database work without awaiting: within one process they interleave with each other only at
their awaits, and freely with handlers that run in the thread pool (the status call, the
gate of `dependencies/subscription.py`); processes interleave freely with
each other. The model lets any two sessions interleave anywhere, which includes all of
this.

The organisation has its row in `subscriptions`. The code allows that it has none
(`billing_manager.py:318`, `348-354`, `390`): an activation then locks nothing and adds the
row, and what stops a second one, and a second invoice, are unique indexes. That case is
not modelled.

What the model shows and no property forbids: a sync that loaded the order
before its payment may write an older status over `paid`; a sync answers
"Payment confirmed and billing updated." though activation is skipped while a period
runs; a checkout whose row is refused by the unique key answers an order that
is not in the table; a success in a running period leaves the pending
downgrade of an earlier failure; a `payment.failed` that is stored after the payment
marks the paid order `failed`, and a later sync then buys a period with it again.
The downgrade a user asks for waits for an approval whose callback does nothing,
and is left out.

### PaidPlans

The plan is bought with a captured order, for a whole period from that day, and the
order then has one invoice; the plan is lost when a failed payment was stored for the
days of grace; nothing else moves the plan, the end of the period or the invoices.
`ImplementsPaidPlans` maps `captured` to the orders the provider was paid for and
`failures` to the days of the stored `payment.failed` events; plan and end are the
columns of the subscription, whatever order its sessions commit in. `Buy` may take one
order twice, as the paragraph above says. What the promise excludes is a period
bought without a capture, one that is cut short or lengthened by a stale copy, and a
plan taken away by anything but a stored failure.

### OpsAlerts

| in the model | in the code |
|---|---|
| `alert`, `recording` | where an alert is: the queue, a dispatcher thread, done; `record_queued` comes after the queue has it |
| `stage`, `result` | `_deliver_to_target` for each recipient: marked, sent, recorded |
| `accepted`, `reports`, `Report` | the message provider: messages it took, reports it makes |
| `root`, `row` | the root row and the recipients' rows of `ops_alert_events` |
| `seen` | `_WEBHOOK_EVENT_CACHE` |
| `handler`, `Load`, `Commit`, `Fail` | a webhook thread between reading the rows and its commit |
| `Enqueue`, `RecordQueued`, `Refuse`, `Take`, `GiveUp` | emission and the worker loop |
| `Mark`, `Send`, `Record`, `Finish` | the dispatcher's transactions about an alert |
| `GivenUp`, `RootsGivenUp` | the recovery that runs first, `recover_stale_dispatching_events` of `billing_manager.py` |
| `Reset`, `RootsReset` | the alert service's own recovery of that name, when the service starts |
| `Restart`, `StartAlerts` | the end of the process and the start of the next (`lifespan` in `main.py`) |

A process that starts recovers twice. First `main.py:239` sets every row that has been in
dispatch for more than ten minutes to `failed`, root rows (also those of a partial failure)
and recipients' rows alike, with `failed_at` set to now, and sums nothing up;
`tests/billing/test_phase5_failures.py:272-303` asserts it. This happens in
one transaction with the maintenance of subscriptions, whose failure is logged and
forgotten. Then `OpsAlertService.start` puts rows that are still in dispatch at a configured
age (`ALERT_DISPATCHING_STALE_SECONDS`, 900 by default, 60 at least) back to `pending` and sums
their alerts up. With the defaults it finds work only when the first recovery
failed, and with less than ten minutes also rows the first one left. The model lets
either be skipped and has both ages as constants. A message the provider took and has not
reported on is thus shown as failed after a restart; a report stamped after
the restart corrects it, and one stamped before it is refused as older.

Rate limits, cooldowns, the size of the queue, the number of threads and which
recipients an alert has are free choices. `_persist_result` of the root, which
loads and commits, is one step; the second root row that two such calls could
add (the unique constraint does not bind a NULL phone) is not modelled. Quota refunds,
the daily summary, the detectors, the age of cache entries and reports without a
timestamp are left out. A provider that answers an error took nothing; one that
times out may have.

What the model shows and no property forbids: a report that arrives before the
dispatcher stored the provider's id is lost (`Unmatched`); a report stamped in
the second of the dispatch is refused as older; a root is `queued` when one recipient
was suppressed and the others delivered; the second recovery leaves rows `pending` that
nobody takes again, and when the next process gives up their root (it still says
`dispatching`), the root is `failed` though no recipient's row is: `SumsUp` allows a
failed root with a pending recipient for this reason; a report made before a restart that
gave its message up is refused; `record_queued` may overwrite what a worker wrote.
`RootSumsUp` leaves out the alerts on which two transactions met: about those the code
promises nothing until the next report.

### DeliveryNotices

The provider takes a message once. What a recipient's row shows of it is something the
provider has said of it, or that it failed, when it was given up before anything was shown;
only something the provider said replaces what is shown, and it never goes back to showing
nothing. `ImplementsNotices` maps `told` to the statuses the provider reported and
`shown` to the row's status once the row has the provider's id and the status is one of
those a report can give (`Tells`). Steps of the dispatcher must then be deliveries
or stutters, and a restart gives up messages of which nothing was shown: neither may touch
a row that shows something.

### EmailQueue

| in the model | in the code |
|---|---|
| `row` | a committed row of `email_queue`; `retry` abstracts `next_retry_at` to none, to come, over |
| `load`, `said` | the copies a processor loaded, and what the provider answered for each |
| `call` | where a request is in `queue_and_send_email` |
| `taken`, `counted`, `disturbed` | history: how often the provider took a mail; sends whose outcome was stored; mails two sessions had in hand at a time, or whose sending got no answer or left no trace |
| `Daemons`, `Jobs` | the thread of `start_email_processor`; calls of `/cron/process-email-queue` and rq jobs, which run the same batch |
| `Select`, `Deliver`, `Commit` | `_process_batch`: the query, `_deliver_one` for one mail, the commit of all of them |
| `Persist`, `SendNow`, `MarkLoad`, `MarkCommit` | `queue_and_send_email` and `_mark_sent` |
| `BatchFails`, `RequestFails` | a commit that is refused, a process that ends |
| `RetryDue` | the clock passes `next_retry_at` |

`Deliver` is a step of its own because a send takes as long as a mail server
likes, and everything else goes on meanwhile. `Written` is the UPDATE of the
columns that changed since the row was loaded, and it is what decides the
races: an outcome "failed" written from a copy that was "failed" already does
not touch a status another session set to "sent", and one written from a
"pending" copy does. `Sent` gives a call of `send_email` the transports it tries one
after another: several of them may have taken a mail that the last one
acknowledged, or none did.

Left out: a mail whose row could not be stored, which is sent all the same and has
no row to be about; a dry run, which marks as sent what no provider has seen;
`enqueue_email_only`, which has no caller; the branch "No valid recipients", which a
stored row never takes. `_mark_sent` leaves `next_retry_at` as it is.

What the model shows and no property forbids, because nothing in the code or its
comments promises otherwise: the row of a new mail is due at once, so a
processor may send it while the request does; a row that says `sent` may be turned
back to `failed` by a processor with an older copy, and the mail goes out again.

## 3. Runs

| run | shows | bounds |
|---|---|---|
| `approval` | type, separation of duties, bypass audit, decisions stand, refinement, and the two liveness properties | 3 users of 3 roles, 3 workflows (escalating two-stage, one-stage IP-4, auto-rejecting IP-5), 1 instance, 2 requests, 1 daemon, 1 worker |
| `approval_l1_lost` | finding | as above |
| `reconciliation` | type, no counter signs off, approved is posted, postings have an instance, a second posting comes from an outdated copy, refinement of `StockReview` | 2 users, 1 reconciliation, 2 instances, 2 requests, 1 daemon |
| `reconciliation_settles` | a decided review is settled | 2 users, 1 reconciliation, 1 instance, 1 request, 1 daemon, 1 worker |
| `reconciliation_rejected`, `reconciliation_twice` | findings | as `reconciliation` |
| `jobs` | type, cancels in time are kept and keep a job from starting, finished stays finished, refinement of `JobRuns`, the queue moves on, a cancel stops an endless worker | 2 jobs, 1 thread, 2 callers, any number of restarts |
| `jobs_cancel_late` | finding, without restarts | as `jobs` |
| `billing` | type, one invoice per order, one order per key, a webhook does not activate a paid order, a stored payment was applied, the days of grace, two kinds of deadlock, refinement of `PaidPlans` | 2 orders, 2 sessions, 1 failed attempt to pay, any number of sessions that fail, days 0 to 1, period and grace of 1 day |
| `billing_grace` | finding, by a trace of one session at a time in which none fails | 2 orders, days 0 to 2 |
| `ops_alerts` | type, one message per recipient, the root sums up, reports are not taken back, refinement of `DeliveryNotices` | 1 alert, 2 recipients, 2 webhook threads, 2 reports, 1 restart, instants 0 and 1, a dispatch is given up after, and stuck at, an age of one tick |
| `email` | type, sent is true, sent once, not given up early, outcomes add up, the queue comes to rest | 2 mails, 1 request, the daemon, 1 job, 2 retries, batches of 2, 1 failure |

Why these bounds are enough: instances interact only through a session that
holds several of them (a sweep), and the proofs cover any number. For the races
on one row, two requests and two sweeps give every pair of readers and
writers. The three workflows are one of each branch of the sweep and of each
set of approver roles; a bypass needs `inventory.reconciliation.approve` under its
threshold. Two instances of one reconciliation are what two routers, or a
router and a callback, need to meet on it. Deadlock is not checked: a state in
which every row is decided and no user asks for anything is a legal end.

For billing, every race is between two sessions, and two orders are what a
repeated checkout, or a payment after a failed one, needs; one day of period and
grace lets each end within the bound of the clock. For the alerts, two recipients
make the root differ from its rows, and two threads with two reports give every
pair of transactions about a row; alerts share nothing but the process. As either
recovery may be skipped, one tick of age is enough for both. With one restart, a process
never starts on what an earlier one recovered, so a failed root with a pending recipient
is out of the run's reach; `RootsSumUp` is proved for any number of restarts. For the
mails, a batch of two gives a mail that was sent and is not yet stored while
another is on its way, a request, the daemon and a job give three writers of a
row, and two retries give a mail that fails, is tried again, and is given up.

For the jobs, no two threads ever have one job, so one thread with two callers
gives every race on a record, and two jobs make one wait for the other and let a
retry create one. The proofs cover any number of each.

## 4. Fairness

Users owe the system nothing: opening, advancing and counting are unfair, and
so are death and retention. A request that has started goes on: weak fairness
of `Complete` and of the callback, which a session takes without waiting for
anyone. The daemon's loop runs for ever (`_loop`), so `SweepRead` is weakly fair;
`SweepCommit` is strongly fair, since a sweep may die between its read and its
commit, is tried again with the next poll, and a database that let none of
them commit would be down. Workers get no fairness for sweeping: their sweep is
enqueued once at startup.

`OverdueIsClosed` needs the strong fairness: under weak fairness a sweep could
die each time. `DecisionIsApplied` excepts `lost` and `skipped`: the code commits the
decision first (the comments call it the Bug #39 fix), and nobody takes up a
callback that a dead session owed.

Threads of the pool are weakly fair, and a worker function does something, if
only to report progress for ever. `CancelTakesEffect` holds under this alone.
`EveryJobIsTaken` has a premise, `WorkersEnd`: no pool can start a job while every
thread is in a worker function that never returns. Requests that have started an
update or are about to submit go on; users owe nothing.

The email daemon's loop runs for ever: its steps are weakly fair together, since
nothing but its own failure keeps it from the next one, and the number of
failures is bounded (`MaxFaults`). The clock is fair. Requests, cron calls and
rq jobs owe nothing: `QueueComesToRest` says that the daemon alone empties the
queue of whatever they leave in it, including rows they keep overwriting.
`Billing` and `OpsAlerts` have no liveness property: the provider may never
send an event again, and an alert in the queue of a process that ends is lost.

## 5. Findings

* The L1 step of a two-stage approval is answered and rolled back (`approval_l1_lost`).
* The callback of a rejected or expired reconciliation approves it (`reconciliation_rejected`).
* Two sessions post one variance twice (`reconciliation_twice`).
* A cancel that was answered may be lost, or turn a finished job to `canceling` for
  good (`jobs_cancel_late`). `CancelIsKept` says up to which point it is not.
* A subscription renewed in its days of grace keeps the end of that grace, and is
  suspended the moment its next period ends (`billing_grace`).

A sweep that overwrites a decision taken after its read is part of the model
and is named in `DecisionsStand` instead of being excluded. So are the rows that the
rq worker closes: `run_expiry_sweep` runs in a process where
`register_all_callbacks` was never called, so their callbacks never run, although
`approval_service.py:845` says they do. They are the history variable `skipped`, and
`DecisionIsApplied` excepts them.

## 6. Proofs

`ApprovalProofs` proves for every value of the constants, from `NoneAssumption`
and `EngineAssumption` only:

* `TypeCorrect`: `Spec => []TypeOK`.
* `Invariance`: `Spec => []IInv`. Separation of duties is not inductive by
  itself: a step of a sweep or of `Complete` writes a row somebody else may have
  changed, so one must know what sessions may still rely on. `IInv` adds that every
  row is consistent in itself (`RowOK`: an absent or purged row carries nothing, a
  closed row has `completed_at`, signatures are legal), that a session's row is
  still in the state its next step needs (`SessionOK`), and that a bypassed row has
  one finisher (`OneFinisher`), without which a second `Complete` could leave a
  completed row unaudited.
* `SeparationOfDutiesHolds`, `BypassAuditHolds`: parts of `IInv`.
* `DecisionsStandHolds`: the action property, from `IInv` and type correctness.
* `Refinement`: `Spec => ImplementsLedger`. `LedgerMoves` and `LedgerStutters` say what a
  step of the ledger is in terms of rows; a sweep decides exactly the rows that
  end and were not decided before (`SweepDecides`).

`JobProofs` proves from `JobsAssumption` only:

* `JobInvariance`: `Spec => []JobInv`. That a cancel is kept is not inductive: one has
  to know that no second thread has the job (`OnePlace`), that a record does not look
  finished before its run wrote so (`NotYet`), and that the flag is set and stays set,
  in Redis too, since a restart brings that copy back (`Flagged`). `Busy` ties program
  counters to jobs in hand, `Present` ties places to records.
* `CancelIsKeptHolds`, `CanceledNeverStartsHolds`: from `Flagged`.
* `FinishedStaysFinishedHolds`: from `NotYet`; no thread but the one that wrote the end
  can write again, and callers only cancel.
* `JobRefinement`: `Spec => ImplementsRuns`. `StageOf` says what the stage of a run means
  under the invariant; one lemma per action shows the step of `JobRuns` it takes, and
  `RunsFit` finds each run its thread.

`ReconciliationProofs` proves from `NoneAssumption`, `EngineAssumption` and
`RecAssumption`:

* `ReconciliationUsesEngine`: `RecSpec => Spec`. Every step of the composition is one
  of the engine or leaves it alone, so what is proved of the engine, `IInv` included,
  holds with this client.
* `ReconciliationInvariance`: `RecSpec => []RecInv`. Who counted and how much never
  changes after the count (`Counted`, `CountsKept`); an instance is about a count
  its actor did not make (`AboutACount`), so whoever the callback takes for the
  decider is not the counter; and what a session has read is an older state of the
  tables (`ReadIsOld`, `Transaction`), so that a stale copy written back column by
  column can mix signatures, but never bring in the counter's.
* `ReconciliationTypes`, `CountersNeverSignOff`, `ApprovalsArePosted`,
  `PostingsAreAccountedFor`: parts of `RecInv`.
* `SettledReviewsStay`: `SettledStays` and `CopiesArePosted`, inductive over `RecInv`. The UPDATE
  names only columns that changed: a callback that had read the row as settled may leave
  the status alone, and it is then settled in the table too, because what a session has
  read as settled is.
* `SecondPostingsAreStale`: the bound on the finding `reconciliation_twice`. A review reads
  a pending row while a posted variance is settled, and a callback posts only what it
  found missing; so a second posting comes from a copy that is out of date, and
  sessions that do not overlap post a variance once, in any order.
* `StockReviewRefinement`, `EachStockReview`: `RecSpec => ImplementsStockReview`. The hard case
  is a callback that posts and leaves the status column alone, because its copy
  said approved: a copy that says approved was read with the adjustment
  (`CopiesArePosted`), so then it does not post. `StockMoves` is the step of
  `StockReview` in terms of rows.
* `ReconciliationKeepsEngine`: what `ApprovalProofs` shows of duties, decisions and the
  ledger, for the composition.

`BillingProofs` proves from `BillingAssumption` only:

* `BillingIsInvariant`: `Spec => []BillInv`. What a session knows at each of its steps is
  sound (`Knows`), what it has read under a lock is still so (`Locked`), no two sessions
  have one row (`Apart`), and the provider has every order the tables name (`Known`).
* `BillingIsTyped`, `OrdersAreInvoicedOnce`, `KeysAreUnique`: parts of it.
* `PaymentsAreActivatedOnce`, `StoredPaymentsAreApplied`: action properties from
  `Locked` and `Apart`.
* `PaidPlanHasItsGrace`: from `GraceInv`, which adds that every date of a downgrade,
  in the table or in a copy, is the grace after a failure that was stored
  (`DueIsDeferred`), and that no two sessions store one event (`StoredByOne`).
* `PlansArePaidFor`, `PlansRefinement`: `Spec => ImplementsPaidPlans`. Besides `GraceInv` it
  needs that a session about to activate an order does so for one the provider captured
  (`PaysForCaptured`). An activation writes plan and end under the subscription's
  lock. Maintenance writes back an older copy, but a column it did not change keeps what
  the table holds: the end of the period never changes (`WrittenEnd`), and the plan only
  to free, after its grace (`PlanIsLostAfterGrace`).
* `DeadlocksAreOfTwoKinds`: `Spec => []OnlyTwoDeadlocks`. `Waits(c)` collects what can hold
  a session up: locks of others, and an event somebody else is inserting. ENABLED is out
  of the prover's reach, so `Waits` is stated in terms of the state; on the instance of
  the run, TLC found it equal to the negation of `ENABLED Session(c)` for every busy
  session that does not talk to the provider. No two sessions hold one order
  (`OneLocker`); when everybody waits, the session that has the subscription waits for one
  that has its order or the organisation and waits for the subscription
  (`ActivationWaits`); and when nobody has the subscription somebody can go on
  (`SomebodyGoesOn`). How the database finds a cycle is no part of this.

`OpsAlertsProofs` proves from `OpsAlertsAssumption` only:

* `AlertInvariant`: `Spec => []AlertInv`. How far a message is agrees with its row
  and with what the provider took (`OneMessage`, `ResultsKept`); a webhook thread
  works on a row that has the provider's id (`Loaded`) and, if it met no other
  transaction, on what the table holds (`Undisturbed`).
* `AlertTypes`, `EveryMessageIsSentOnce`, `RootsSumUp`: parts of it. `ReportsStay`: the
  action property, from the rule `_should_reject_delivery_update` and `OneMessage`.
  For a restart `RootSumsUp` is shown of each recovery apart: giving up turns the rows in
  dispatch and the root together (`GivenUpSays`, which is why `SumsUp` says that the root
  is in dispatch or a partial failure while any row is in dispatch), and putting back sums
  up (`ResetSays`).
* `NoticesRefinement`: `Spec => ImplementsNotices`, one lemma for each kind of step. A
  report in a thread's hands was made (`HandledWasMade`), a row that gets the
  provider's id shows no report yet (`IdComesUnreported`), and a restart changes only rows
  that show nothing (`RestartImplements`).

`EmailProofs` proves from `EmailAssumption` and `NoneIsNoRow` only:

* `EmailInvariance`: `Spec => []EmailInv`. That a mail is sent once is not inductive:
  a mail outside `disturbed` must be in one hand (`Alone`), whose copy is the row and
  who knows whether it left (`Undisturbed`). That no mail is given up early needs that
  no copy of a row, however old, counts more sends than were stored
  (`RowsKept`, `CopiesKept`, `CallsKept`).
* `EmailTypes`, `SentMailsHaveLeft`, `MailsAreSentOnce`, `MailsAreTriedLongEnough`: from it.
* `OutcomesAreAddedUp`: the action property. The copy of a mail in one hand is the row,
  and was due when it was selected; so no outcome is lost, stored twice or stored
  before its turn.

Model-checked only: the liveness properties (`OverdueIsClosed`,
`DecisionIsApplied`, `DecidedReviewIsSettled`, `EveryJobIsTaken`,
`CancelTakesEffect`, `QueueComesToRest`), which are out of the prover's reach.
Every other property of a passing run is a theorem.

## 7. Plan

1. Approval rules, engine, ledger, proofs; reconciliation (done).
2. Background jobs, abstract runs, refinement, proofs (done).
3. User administration (`routers/settings.py`) over `ApprovalLedger` as the abstract
   engine, with roles and memberships as state: `update_user_role` assigns the role
   before `initiate_approval`, whose commit commits it; `deactivate_user` checks for
   another owner or admin without a lock; memberships race with role changes.
   Abstract promise: owners change only by transfer, nobody grants above his rank.
4. `Billing` with proofs (done); `OpsAlerts` with proofs (done); `EmailQueue` with
   proofs (done); proofs about `Reconciliation` (done); an abstract promise for each but
   the mails, with the refinement proved (done). The mails have none: a stale copy may take
   back any of their columns, and `OutcomesAddUp` says of which mails that is not so.
5. Authentication counters and sessions, attendance sweeps.
6. Stock reservations and the OCR job queue only if they get a caller: no router of the
   repository uses them at present.

## 8. Not modelled

* OCR image processing, AI prompts, analytics and report generation are functions on
  data without a protocol. They, the web client and the vendored gateway are most of
  the repository's lines, so the modelled part is small by that measure.
* The permission table and migrations keep no state the modelled parts depend on.
* The idempotency middleware stores an answer only when the response has a body, and
  what `call_next` returns is a stream that has none: rows are stored and never found
  again. A model of it would show one fact.
* User administration: `update_user_role` assigns the role before `initiate_approval`,
  whose commit of the pending instance puts it in force, and the callback that follows
  does nothing. `deactivate`, `reactivate` and `invite` are workflows that are
  always bypassed. What is left to check needs roles of several factories (plan, 3).
* Dispatch sums the ledger with `SELECT SUM(...) FOR UPDATE`, which PostgreSQL refuses;
  the reservation service and `ocr_jobs.py` have no caller; `services/billing/lifecycle.py`
  is mounted nowhere.
* The lockout counter is one read and one write; login and session handling come with
  the plan's fifth step.
* Two counts of one item against the same balance (`routers/steel.py:2145`) need
  quantities of several reconciliations; the model has one variance per row.
* Within the modelled parts: texts, notes, reasons, request contexts, notifications,
  listing queries and tenant filters.

## 9. Running

```
tlc -workers 2 -config MCApproval.cfg MCApproval
tlc -workers 2 -config MCReconciliation.cfg MCReconciliation
tlc -workers 2 -config MCReconciliationSettles.cfg MCReconciliation
tlc -workers 2 -config MCJobs.cfg MCJobs
tlc -workers 2 -config MCBilling.cfg MCBilling
tlc -workers 2 -config MCOpsAlerts.cfg MCOpsAlerts
tlc -workers 2 -config MCEmail.cfg MCEmail
for m in Approval Reconciliation Job Billing OpsAlerts Email; do tlapm ${m}Proofs.tla; done
```
