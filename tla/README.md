# InvoiceIQ: a TLA+ model of the backend

The specifications in this directory describe the coordination logic of the
backend under `src/backend/app`: the parts in which several workers, requests or
people act on the same rows. TLC checks them on small instances, and TLAPS
proves the most important properties of the job queue, of payments, of review,
of issued invoices and their cash, of rules, mails, webhooks and captures, of
vendors and of billing for every instance.
`PROJECT.json` maps each definition to the lines it models.

## 1. Inventory of the system

The system is a FastAPI application and any number of worker processes over one
PostgreSQL database. Requests and workers share no memory; they interact through
rows, in READ COMMITTED transactions (`core/database.py`: `autoflush=False`,
`expire_on_commit=False`, no version column in the ORM). Work that must not hold
up a request becomes a row of the `jobs` table, inserted with the business
transaction.

| Part | State | Operations | Hard behaviour | What makes it correct |
|---|---|---|---|---|
| Job queue (`services/jobs.py`, `worker.py`) | `jobs` rows: status, attempts, lease, run_after | enqueue, claim, renew, complete, fail, sweep of stale leases, manual retry | worker death, lost leases, late writers, load-then-flush races, poison jobs | one runner per job; bounded attempts; success is final; every job comes to rest |
| Payment runs, AP ledger (`services/payment_run.py`, `ap_payments.py`) | runs, invoices' link, state and `amount_paid`, ledger entries | create, approve, pay, cancel, export; record one payment | pay/cancel races, disputes and rework after settlement, stale cumulative amounts | maker ≠ checker ≠ payer; settle once; nothing stranded; cache = ledger |
| Invoice review (`api/routes/invoice_review.py`, `approval_policy.py`, `invoice_workflow.py`) | workflow state, version, submitter, lock, approval steps | edit, submit, approve, reject, return, reassign, transition | stale views, chains across returns and reopenings | decisions on what was seen; segregation of duties; order of the chain |
| Issued invoices, numbering, recurring invoices (`api/routes/issued.py`, `services/issued_*.py`, `issuer.py`, `recurring.py`) | `issued_invoices`, the issuer's counters, a schedule's next date | draft, create, edit, approve, issue, duplicate, cancel, dispute, write off; daily sweep of due periods | concurrent numbering, sweeps that read before they lock, unlocked lifecycle routes | no gap, no duplicate; an issued invoice is immutable; a retried command has one effect |
| AR cash (`services/receipts.py`, `payments.py`, `payment_commands.py`, `reconciliation.py`) | receipts, signed payment entries, `amount_paid`, `credited_total`, bank lines | pay, reverse, allocate, deallocate, credit, void, match, unmatch, ignore | rows locked on one side only, caps computed from sums | no receipt over-allocated; cache = ledger; nothing overpaid; one line per target |
| Automation (`services/automation*.py`) | rules, frozen runs with their children | sweep, retry, publish and disable | overlapping sweeps, siblings that finish at once | fires once; direct actions once; the run tells the truth |
| Mail (`automation_actions.py`, `invoice_delivery.py`, `mailer.py`) | `email_messages`: queued, sending, sent, unknown, blocked, failed; `sent_at` of the invoice | queue, deliver, record | death, deadline or lost lease around the send | at most one send; an unknown outcome is not resent; nothing waits for ever |
| Webhooks (`services/webhooks.py`) | deliveries | emit, deliver, retry | duplicate callers, duplicate executions | one delivery per key; no failure taken for a delivery |
| Capture (`services/extraction.py`, `api/routes/invoices.py`) | capture row, attempt number, draft, field rows, stage | upload, extract, retry, correct, save | late results of superseded attempts, a retry racing a correction | published once, by the current attempt; corrections never dropped in silence |
| Expenses and reimbursement (`api/routes/expenses.py`, `services/expense_*.py`, `reimbursement.py`) | reports, entries, bank transactions, approval steps, payout batches | create, edit, match, submit, decide, withdraw, reassign, batch, pay, cancel, export | unlocked withdrawal and edits, pay/cancel races | a transaction claimed once; one decision per version; paid once, as approved |
| Scheduler (`services/scheduler.py`, `worker.py`) | dated idempotency keys, an in-memory date per worker | enqueue_daily | several workers at midnight, failure or death after the lock was taken | no day passed over, no job queued twice a day |
| Billing (`services/billing.py`, `billing_usage.py`, `billing_provider.py`, `api/routes/billing.py`) | the tenant's plan, status and due date, `billing_payments`, `processed_stripe_events`, usage counters | report usage, charge a renewal, start and confirm a checkout, receive and apply an event, change plan | lost answers of a provider, repeated jobs, events out of order, unlocked rows read before a call and written after it | a unit and a due date billed once; a payment applied once; the newest event wins |
| Audit chain (`services/audit.py`) | hash-linked entries | record | concurrent appends | one chain without forks |
| Vendors (`services/vendors.py`) | the vendor's protected fields, change requests | create, update, approve, reject | nothing is locked; a change filed while a run is open | four eyes; a request tells the truth; a pending change blocks a payment |
| VAT refund claims (`services/transport/claim*.py`, `lock.py`, `freeze.py`, `fee.py`, `decision.py`, `close.py` and their gates) | claims, their lines, `vat_claimed_invoices` (the locks), fee rates, waivers, note overrides, activations | open, build lines, close a month, submit, decide, pay, withdraw; set rate, waiver, override | a rebuild or the monthly close racing a submission; figures fixed months before they are used | a filed claim keeps what it filed; nothing is claimed twice |
| Deletion (`services/invoices.py`, `retention.py`, `archive.py`) | `deleted_at` of invoices, policies, legal holds, archive rows with their expiry | delete, restore, hold; daily purges and notices | daily jobs that read a batch and destroy it later, next to people who restore, hold and extend | nothing destroyed live, early or without a copy |
| Others: identity, transport analytics, FX/VAT/analytics, email intake, storage, frontend | | | mostly CRUD, arithmetic, I/O | |

They meet in five places: requests enqueue jobs (webhooks, mail, capture, events
of a provider) in their own transaction, and the scheduler those of the day; the
workers run all handlers; the review hands an
*approved* invoice to payment; vendors block a payment by a pending change; claims
rest on supplier invoices, whose deletion they block. The
hazards this code is exposed to, each at its line, are listed in `PROJECT.json`.

## 2. Plan

| Module | Models | State |
|---|---|---|
| `JobContract` | what the queue promises, without rows and leases | done |
| `JobQueue` | the queue; refines `JobContract` | done |
| `JobQueueProofs` | type correctness, one runner, bounded attempts, final success; `JobQueue` implements `JobContract` | done |
| `InvoiceWorkflow` | the lifecycle graph, shared by the next two | done |
| `PaymentRun` | runs, single payments, ledger | done |
| `PaymentRunProofs` | type correctness, `MakerChecker`, `SettledOnce`, `NoneStranded`, `RunIsFinal` for any overlap; `LedgerMatches`, `SettlementTraceable` when requests do not overlap | done |
| `InvoiceReview` | version gate, approval chain | done |
| `IssuedInvoices` | drafts, lifecycle, numbering, the recurring sweep | done |
| `Receivables` | extends it: payments, receipts, credit notes, voiding, bank matches | done |
| `Worker` | executions of handlers over the queue's contract, with their faults | done |
| `SendOnce` | what a durable outbox promises about a mail | done |
| `Outbox` | the mails a worker sends; refines `SendOnce` | done |
| `Automation`, `InvoiceMail`, `Capture`, `Webhooks` | the handlers, and the requests that feed them | done |
| `Background` | the composition of queue, workers, relay and handlers | done |
| `ExpenseReports`, `Reimbursement` | claims, approval chain, payout batches | done |
| `Vendors` | protected fields and their change requests | done |
| `Scheduler` | the daily sweep in the loop of the workers | done |
| `Metering`, `Renewals`, `Subscriptions` | usage reports; hosted payments and monthly charges; checkouts and events | done |
| `Billing` | the composition of the three with queue, workers and sweep | done |
| `RefundClaims` | refund claims, their lines, locks, base and fee | done |
| `Deletion` | extends it: bin, archive, retention, holds | done |
| `BackgroundProofs` | the mails of `Background` implement `SendOnce`; `RunSound`, `StampedOnce`, `EventsKept`, `CaptureSound`, `DiscardsOnRecord`, `WaitingHasJob` | done |
| `BillingProofs` | `DayIsScheduled`, `MeteredOnce`, `ChargedOnce`, `NewestWins` | done |
| `VendorsProofs` | `TwoPeople`, `RequestTellsTruth` | done |
| `InvoiceReviewProofs` | `VersionIsSnapshot`, `ChainSound`, when requests do not overlap | done |
| `ReceivablesProofs` | `Numbering`, `IssuedIsImmutable`, `LedgerSound`, `NeverOverpaid`, `VoidStaysUnpaid`, `OneLinePerTarget` | done |
| `ExpensesProofs` | `RetryFindsOutcome`, `EntriesSound`, `DecisionsSound`, `DecidedStaysDecided`, `BatchesSound` | done |
| `DeletionProofs` | `NothingLost`, whose argument is that a job's batch carries its day | open |

Not taken up: a composition of review and payment over one invoice, the
audit chain and dunning.

## 3. How the models are built

**Atomicity.** A statement with its condition in the WHERE clause (the claim,
the renewal) is one step. A row that is loaded, inspected and flushed is two
steps, a *load* that evaluates every check of the handler and a *commit* (a
*flush*, for the queue) that writes. The ORM writes only the attributes whose
value differs from the loaded one, and by primary key, whatever the row has
become: this is the operator `Flush` of each module. A request refused by a
check has no effect and is no step. `SELECT ... FOR UPDATE` is the guard `Free`.

**Where the models are finer or coarser than the code.** Within one request the
invoice and its approval steps, or a run and its invoices, are loaded by several
statements; the model loads them at one moment. With `Overlap = FALSE` (and
without `"overlap"` in `Env`) a request runs between no other request's load and
commit. This is the assumption under which the passing review and ledger runs
and the queue theorems hold; section 6 says what happens without it.

### JobQueue

| TLA+ | Code |
|---|---|
| `job[j]` | the row: `status`, `attempts`, `locked_at` (`lease`: none, fresh, stale), `locked_by` (`by`), `run_after <= now` (`due`) |
| `pc`, `on`, `beating` | the place of a worker in `run_forever`/`run_once`, its job, its heartbeat task |
| `seen[p]` | the rows process p has loaded and not flushed |
| `Enqueue` | `enqueue_with_outcome` |
| `ClaimRead`, `ClaimWin`, `ClaimLose` | `claim` |
| `Renew` | `_heartbeat_loop`, `_renew_lease` |
| `Complete`, `CompleteUnheard`, `Raise`, `FailWrite`, `Misconfigured` | `run_once`, `_run_handler`, `_complete`, `_fail` |
| `ReclaimRead`, `ReclaimWrite` | `reclaim_stale` |
| `RetryRead`, `RetryWrite`, `RetryFail` | the retry route and `retry` |
| `Crash`, `Killed`, `Restart` | a worker process dies, at any point or by its handler, and is started again |
| `LeaseExpires`, `BackoffElapses` | the clock |

`Env` selects the disturbances of an instance: `crash`; `stall` (a live worker
misses its renewals for `STALE_LEASE_SECONDS`); `overlap` (two load-then-flush
transactions on one row overlap); `ackloss` (a commit is applied and reported as
failed). Every job has an idempotency key, so its row is created once; rows
without a key behave alike, each being its own job. `FAILED` is declared in
`models/job.py` and never assigned, so no row has it.

`JobContract` has no rows, leases or workers' loops: a phase, a runner and a
number of tries per job. `JobQueue` implements it with the runner taken as the
worker that is inside the handler or its failure path.

### PaymentRun

| TLA+ | Code |
|---|---|
| `inv[i]` | `workflow_state`, `total`, `amount_paid`, `payment_run_id` |
| `run[r]` | `status`, `created_by_id`, `approved_by_id`, `export_count`; `payer` and `override` stand for the audit entries of payment and override |
| `ledger[i]` | the `supplier_payments` of an invoice: their sum, and how many came from each run and from single payments |
| `held` | invoices whose vendor has a pending bank-detail change |
| `req[s]` | a request in flight: the rows it loaded and what it will write |
| `LoadCreate`, `LoadApprove`, `LoadPay`, `LoadCancel`, `LoadExport` | the routes of `payment_runs.py` and the services they call |
| `LoadRecord` | `record_supplier_payment` |
| `LoadMove`, `LoadEdit` | `/transition`, `PUT .../lines` |
| `Commit`, `Rollback` | the end of the transaction; `set_cumulative` adds its entry there |

The run's `version`, which approve and pay check, moves exactly with `status`,
so a stale version is a wrong status and needs no variable of its own.
`confirm_provisional` and `acknowledge_skipped` are the client's choice and only
refuse requests. CSV and SEPA exports differ in their content alone. Users are
identified by id; the e-mail fallback for old rows is not modelled.

### InvoiceReview

| TLA+ | Code |
|---|---|
| `inv` | `workflow_state`, `version`, `submitted_by`, the lock; `rev` names the revision of header and lines |
| `chain` | the `approval_steps` rows; `gen` counts their replacement, because a step deleted by another request cannot be updated |
| `view[u]` | what user u last read: the version, and whether everything it showed is still so |
| `LoadEdit`, `LoadSubmit`, `LoadApprove`, `LoadReject`, `LoadReturn`, `LoadReassign`, `LoadTransition` | the routes of `invoice_review.py` |
| `Read` | `get_review` |

`view[u].current` is a history variable: it decides nothing. `Chains` holds the
chains that policies may prescribe, so selecting the policy (`evaluate`) is a
nondeterministic choice. The reconciliation checks of `submit` only refuse.

### InvoiceWorkflow

`TRANSITIONS`, `_CANCELLABLE`, `allowed_targets` and the sets of states that
routes test for, as constant operators.

### IssuedInvoices and Receivables

| TLA+ | Code |
|---|---|
| `row[d]` | an `issued_invoices` row: `lifecycle`, `number`, `total`, `amount_paid`, `credited_total`, `voided_at`, `recurring_period`, `create_command_key` |
| `row[Issuer]`, `row[Schedule]` | the issuer's `next_invoice_number` and `next_credit_note_number`; a schedule's `next_run_date` and `active` |
| `row[l]` | a `bank_lines` row: status and match |
| `ledger`, `notes` | the `payments` entries and the credit notes, in the order of their commits |
| `today` | the period that fell due last |
| `req[s]` | a request in flight: its locks, the rows it loaded, what it will write and append |
| `raced` | history: the operations that committed a row from a read no longer current |
| `work` | the workload: which operations, row ids and keys a behaviour uses |
| `LoadDraft`, `LoadCreate`, `LoadEdit`, `LoadMove`, `LoadIssue`, `LoadDuplicate` | the routes of `issued.py` |
| `Tick`, `LoadSweep`, `Generate`, `LoadReschedule` | time; the two halves of `generate_due`, before and after the issuer's lock; `update_schedule` |
| `LoadAppend`, `LoadRecord`, `LoadReverse`, `LoadAllocate`, `LoadDeallocate`, `LoadCredit`, `LoadVoid` | the cash routes and their services |
| `LoadMatch`, `LoadUnmatch`, `LoadIgnore` | bank reconciliation |
| `Commit`, `Rollback` | the end of the transaction; unique constraints leave only the rollback |

The lock sets are operators of their own (`IssueLocks`, `CashLocks`,
`AllocateLocks`, `MatchLocks`), because they are what the properties rest on. A
route that loads its row *without* a lock can overwrite a column that moved
meanwhile. The code does so in `approve`, `cancel`, `edit`, `void`, `deallocate`
and on bank lines, and the properties hold only where this has not happened to
the row: `raced` names the operation and the row, and a property is excused for
exactly the operations it lists. None of these exceptions is idle: dropped, each
of `GapFree`, `IssuedIsImmutable`, `CashMatchesLedger`, `VoidStaysUnpaid` and
`OneLinePerTarget` is violated. `VoidStaysUnpaid` has two: the void itself, and a
deallocation that overwrote the paid figure which the void then trusts.

`allocate` asks what is outstanding and not whether the invoice is void, and
voiding leaves the lifecycle at `issued`; so a void invoice can be paid from a
receipt, although the docstring of `void_invoice` says that it "refuses payment"
(`api/routes/issued.py:1179-1180`). `VoidStaysUnpaid` therefore speaks of direct
payments and credit notes.

### Worker, Outbox and the handlers

| TLA+ | Code |
|---|---|
| `phase`, `runner`, `tries` | the `jobs` rows as `JobContract` has them; a job is its kind and idempotency key |
| `exec[w]` | the job a worker is at and how far its handler got (`begin`, `smtp`, `accepted`, `uncertain`, `parsing`, `answered`, `failing`, `refused`, `done`) |
| `tx[a]` | the open transaction of a worker or a request: its locks and what it will commit |
| `Take`, `Finish`, `Raise`, `Refuse`, `Reclaim`, `Revive` | claim and dispatch, `_complete`, `_fail`, `PermanentJobError`, `reclaim_stale`, `retry` |
| `Crash`, `LoseLease`, `Break` | a worker dies; its lease runs out while it goes on; the deadline cancels the handler, but not a thread it waits for |
| `msg[m]`, `sends[m]`, `adrift` | `email_messages.status`; history: what the relay accepted; mails whose SMTP thread outlived the handler |
| `SmtpAccept`, `SmtpError`, `Land` | `_smtp_send`: accepted and heard, accepted and not heard, refused; the thread left behind ends |
| `Toggle`, `SetStatus`, `Reclassify`, `Switch` | SMTP or the recipient changes; the rule is disabled or published; the invoice's lifecycle; the endpoint |
| `run[r]` | an `automation_runs` row with the children in `detail_json` |
| `Sweep`, `Retry`, `Attempt`, `Record` | `sweep`/`evaluate_rule`/`begin`, `retry`, the two transactions of `automation_actions.deliver` |
| `Send`, `Deliver`, `Conclude`, `stamp` | `queue`, the two transactions of `invoice_delivery.deliver`; `sent_at` |
| `unsent`, `rivals` | the workers whose session loaded the invoice without `sent_at`; history: the mails a worker was at when the invoice was stamped |
| `capture` | the `extraction_runs` row, its field rows per attempt, its stage |
| `Admit`, `Extract`, `Progress`, `Publish`, `Skip`, `Reread`, `Correct`, `SaveInvoice` | admission, the worker, `retry_upload`, `review_capture_fields`, `persist_invoice` with `link_to_invoice` |
| `Emit`, `Post`, `Delivered`, `Failed`, `Drop` | `webhooks.emit` and `deliver` |

`Worker` uses the queue through its contract and adds one thing the contract
forbids: `_complete` and `_fail` write by primary key whoever runs the job by
then (`Report`), as `JobQueue` shows in `queue_live`. So the handlers are checked
against a queue that may run a job twice at a time, and requeue one that is done.

`SendOnce` is the abstract outbox: commit the intent, let the relay accept at
most once, and call *sent* only what it accepted. `ImplementsSendOnce` maps a
row's status to its stage. `Background` composes the four handlers with the queue
and the faults; a behaviour exercises one handler (`work`), since they share no
rows, only workers, queue and relay.

An invoice is loaded without a lock before its mail leaves, and locked when the outcome
is recorded; that select does not refresh what the session holds. So the stamp is set by
what was loaded, and of two deliveries that overlap each may set it. `StampedOnce`
excepts these (`rivals`): a mail that no worker was at when the invoice was stamped does
not move the stamp.

### ExpenseReports and Reimbursement

| TLA+ | Code |
|---|---|
| `row[r]` | an `expense_reports` row: `status`, `deleted_at`, `total`, `total_eur`, `version`, batch, and the key of the command that created it |
| `row[i]`, `row[t]` | an entry with its `bank_reference`; a transaction with the entry it is assigned to |
| `row[<<r, n>>]` | the n-th `expense_approval_steps` row; `gen` tells the rows of successive chains apart |
| `row[b]` | a `reimbursement_batches` row |
| `payouts`, `decided` | history: payments of a report, decisions on it |
| `LoadCreate`, `LoadAdd`, `LoadEdit`, `LoadReplace`, `LoadFromTxn`, `LoadMatch`, `LoadUnmatch`, `LoadRemove`, `LoadDelete` | the routes and commands on reports, entries and transactions |
| `LoadSubmit`, `ReadForSubmit` | `submit_report`: the report is loaded and gated; after the waits for policies and exchange rates the chain is read and replaced (`delete_chain`, `build_chain`) |
| `LoadWithdraw`, `ReadForWithdraw` | `withdraw_report`, the same with a chain that is only deleted |
| `LoadDecide`, `LoadProgress`, `LoadReassign` | decisions and the routing of the approval chain |
| `LoadBatch`, `LoadPay`, `LoadCancel`, `LoadExport` | the payout batches |

Requests, locks, `raced` and workloads are as in `Receivables`. An UPDATE of a row
another request has removed, and an INSERT of a step at a place that is taken, leave
only the rollback (`Conflict`). A DELETE of a step that is gone does not: the models
have no version column, so the ORM only warns, the request commits, and the chain
that is there now stays (`Missed`). The report of a submission or a withdrawal is as
old as its load, its chain as the later read. The policy a report is routed by is a choice from `Policies`. The
approvers of `Approver` are not the employee, whose own decision the route
refuses; who handles batches is taken from the same set.

### Vendors

| TLA+ | Code |
|---|---|
| `vendor` | a `vendors` row: its protected fields, `version`, `verification_status` |
| `change[f]` | the `vendor_change_requests` of a field, in their order |
| `trail[f]` | history: every write of a field, with the request and the approver it came from |
| `raced` | history: the fields and requests that were written from a stale read |
| `Create` | `create_vendor` and `get_or_create_vendor`; the unique name makes it one step |
| `LoadUpdate`, `Update` | `update_vendor`: first captures are written, changes of an established value become requests |
| `LoadApprove`, `LoadReject`, `Decide` | `approve_change`, `reject_change` |

One vendor, because no operation looks at two. A workload says which fields the
patches set. Nothing is locked in these functions: what two transactions can do to
each other is excepted by name, as in `Receivables`.

### Scheduler and Billing

| TLA+ | Code |
|---|---|
| `today`, `marked[w]`, `sweep` | the date; `last_scheduled` in the loop of a worker; the worker inside `enqueue_daily` |
| `BeginSweep`, `EndSweep`, `FailSweep`, `Die` | the comparison of dates and the tried advisory lock; the one commit; an exception; the death of a process |
| `counter[m]` | a `usage_counters` row: `count`, `reported`, `reporting_target` |
| `Use`, `Freeze`, `CallProvider`, `Acknowledge` | `record_usage`; `report_org_usage` up to its commit, the call, the compare-and-set after it |
| `segments`, `billed` | the provider: the identifiers it has seen, the units it has taken |
| `org`, `ledger`, `payment` | the tenant, `processed_stripe_events`, `billing_payments` at the provider that only takes payments |
| `Claim`, `Charge`, `LoseAnswer`, `Settle` | `charge_renewal` up to its commit, the call answered or not, and after it |
| `StartCheckout`, `Pay`, `Verify`, `Confirm`, `Downgrade` | a hosted payment: opened, paid, looked up at the provider, applied (`confirm_redirect_payment`); `change_plan` |
| `tenant`, `processed`, `marker`, `aged` | the same rows at the provider that keeps subscriptions; the markers past `CHECKOUT_TTL_SECONDS` |
| `LoadCheckout`, `SaveCheckout`, `Complete`, `Expire`, `Change` | `start_checkout`, and what the customer and the provider do |
| `Webhook`, `LoadEvent`, `ApplyEvent`, `FailEvent` | `stripe_webhook`; the job of an event, `apply_subscription_event` |

`Scheduler` extends `Worker` by the loop around the jobs. Which kinds are due is
its parameter. A provider forgets identifiers after a while; the model's does not,
because a replay comes at the next run of the job. `Confirm` and
`Settle` write back what differs from the row that was loaded: a column which had its
new value then keeps what another transaction has written since. `Verify` loads the
tenant in the moment of the provider's answer, as `confirm_redirect_payment` does right after it.
`Billing` composes the three like `Background` does: they share workers, queue and
sweep, and a behaviour exercises one of them (`work`), because a tenant is at one
provider and usage has rows of its own.

### RefundClaims and Deletion

| TLA+ | Code |
|---|---|
| `claim[c]` | a `vat_refund_claims` row: status, status code, VAT base in cents, the frozen rate and fee |
| `lines` | the `vat_claim_lines`: their claim, ref, linked bill, transactions, `frozen_at`, `rejected_at`; `build` tells the rows of two builds apart |
| `lock[k]` | `vat_claimed_invoices`, by supplier and number |
| `waived`, `note`, `rate`, `party`, `ended` | waivers, note overrides, the three rungs of fee rates, activation of customer and country, the calendar |
| `shelf[b]`, `papers` | an invoice: not there, live, in the bin, destroyed; whether it has a vaulted document |
| `req[s]` | a transaction that has loaded its claims: the lines it found and inserts, or what its gates and its freeze have read |
| `raced`, `shifted` | history: the claims written from a stale read; those whose lines were rebuilt between the gates and the commit of their submission |
| `Open`, `Withdraw`, `DecideWhole`, `DecidePartly`, `Pay`, `SetStatusCode` | the routes of `transport/claims.py` |
| `LoadClose`, `Rebuild`, `Build` | `run_close`; `build_claim_lines` up to its DELETE, and its inserts and commit |
| `Screen`, `PassGates`, `Freeze`, `Submit` | `submit_claim` up to `enforce_no_synthetic_lines`, up to `enforce_document_presence`, with `freeze_claim_lines`, and from its flush on |
| `Match`, `NewLines`, `ToLock`, `Fee`, `Resolved` | `resolve_invoice_ref`, `build_claim_lines`, the mop-up, `compute_fee`, `resolve_fee_rate` |
| `SetWaiver`, `RemoveWaiver`, `SetNoteOverride`, `SetRate`, `MoveParty`, `Register`, `EndPeriod` | what else people do, and time |
| `day`, `born`, `binned`, `whole` | the date; `created_at`, `deleted_at` of an invoice; those with their line items |
| `archive`, `tier`, `policy`, `hold` | `archived_invoices` with `expires_at` and the expiry last announced; the years of plan and override; `retention_policies`; `legal_holds` |
| `DeleteOne`, `RestoreOne`, `ToggleHold`, `SetPolicy`, `ChangeTier`, `Replan` | the routes |
| `LoadRetention` to `CommitNotice` | the four daily jobs, between what they read and what they commit |
| `promised` | history: the latest expiry a copy ever had |

A claim is loaded without a lock and written at the commit. A submission reads the
lines three times - for the synthetic-line gate, for the documents, and to freeze
them - and each read may see another rebuild's rows. The flush of a submission updates the rows it froze by
id: an update of a single row that is gone raises, one of several rows is sent as a
batch whose row counts are not looked at, so that the claim is submitted with its base
and the rows that are left. An insert that loses against a unique constraint, or names a bill that is
gone, ends in `Rollback`. A rebuild deletes the rows its DELETE found, unless they have been frozen
since; rows another rebuild inserts meanwhile stay, and the claim has both. PostgreSQL
makes the second writer of a row wait for the first, which changes the order and not
the outcome. A day stands for the clock of all windows, so an archive year is
two days and a window of the bin one.

Two transactions that write the *same claim*
overlap without any lock, and their effect on it is excepted by `raced`: two
decisions, a decision and a withdrawal, or two submissions may write over each
other. A rebuild that commits between the gates and the commit of a submission may have unmatched
lines frozen or leave a base without lines: `shifted` excepts the base and the match of that claim,
while its locks, its fee and everything after its submission stay under the
property (findings, below). A rebuild that commits after the submission is not excepted.
`_archive_batch` may copy an invoice that is restored meanwhile; the copy
is then one of a live invoice.

## 4. What TLC checks

| Run | Instance | Shows |
|---|---|---|
| `queue` | 3 jobs (one without a handler), 2 workers of which one drains one kind only, 1 client, 2 attempts, 1 retry, crashes | `OneRunner`, `AttemptsBounded`, `SucceededIsFinal`, and that the queue implements `JobContract` |
| `queue_live` | 2 jobs, 2 workers, 1 client, 1 attempt, 1 retry, every disturbance | `Settles`: a queued job ends for good as succeeded or dead, and the extra attempts lost leases can cause are fewer than the workers |
| `runs` | 1 invoice, 2 runs, 3 people (one administrator), 2 overlapping requests | `MakerChecker`, `SettledOnce`, `NoneStranded`, `RunIsFinal` |
| `ledger` | 2 invoices, 2 runs, amounts 1 and 2, every operation, rework through dispute and draft, one request at a time | `LedgerMatches`, `SettlementTraceable` |
| `review` | 3 people, chains of one and two steps, every transition, versions up to 5, one request at a time | `VersionIsSnapshot`, `ChainSound` |
| `review_finance` | a chain of three steps | *violated*: the second approval is refused (finding 1) |
| `receivables` | 3 invoices, 2 receipts, 2 bank lines, 2 keys, amounts 1 and 2, 2 periods, 2 overlapping requests, in nine workloads | numbers and keys (`Numbering`, `IssuedIsImmutable`), cash (`LedgerSound`, `NeverOverpaid`, `VoidStaysUnpaid`), bank matches (`OneLinePerTarget`) |
| `background` | 2 workers, 2 clients, 2 attempts; a rule with two mails or a mail and a note, 2 runs; 2 mails of an invoice; 1 capture with 2 attempts; 1 event; 2 faults of any kind | the refinement `ImplementsSendOnce`, and with it at most one send; rules (`RunSound`), invoice mails (`StampedOnce`), captures (`CaptureSound`, `DiscardsOnRecord`), webhooks (`EventsKept`); `WaitingHasJob` and `Decided`: nothing waits for ever |
| `expenses` | 2 reports, 3 entries, 2 transactions, 2 batches, 2 approvers (one an administrator), chains of one and two steps, 2 overlapping requests, in fourteen workloads | `RetryFindsOutcome`, `EntriesSound`, `DecisionsSound`, `DecidedStaysDecided`, `BatchesSound` |
| `vendors` | 1 vendor, 2 fields, 2 values, 2 people, 2 overlapping transactions, up to 2 change requests of a field | `TwoPeople`, `RequestTellsTruth` |
| `billing` | 2 workers, 2 attempts; usage of 2 units, over 2 days with 2 faults and over a month's end without; renewals with a hosted payment over 2 days with 2 requests or with a request and a fault, and within a day with both; 2 checkouts, 3 events and a fault | `DayIsScheduled`, `MeteredOnce`, `ChargedOnce`, `NewestWins` |
| `claims` | a quarterly and an annual claim over 2 transactions and 2 invoices of one supplier, 2 rates, 2 overlapping transactions; 5 days, a bin of 1 day, retention of 2 or 3, the four daily jobs; in twelve workloads | `FilingStands`, `NothingLost` |

Where a property is a conjunction of named parts, the parts are stated one by one
in the module, each with its own comment:

| Property | Parts |
|---|---|
| `Settles` | `AttemptsOverrun`, and that every queued job comes to rest |
| `ChainSound` | `TypeOK`, `ChainInOrder`, `DecisionsSegregated` |
| `Numbering` | `NeverCollides`, `GapFree`, `OneEffectPerKey` |
| `LedgerSound` | `TypeOK`, `ReceiptNotOverdrawn`, `ReversedOnce`, `CashMatchesLedger`, `CreditsMatchNotes` |
| `WaitingHasJob` | `TypeOK`, `QueuedHasJob`, `WaitingIsPending` |
| `RunSound` | `FiresOnce`, `DirectOnce`, `RunTellsTruth` |
| `CaptureSound` | `PublishedOnce`, `OneProvenance`, `SavedOnce` |
| `EventsKept` | `OneDeliveryPerKey`, `NothingLost` |
| `EntriesSound` | `OneEntryPerTransaction`, `TotalMatchesItems` |
| `DecisionsSound` | `StatusFollowsChain`, `OneDecisionPerVersion` |
| `BatchesSound` | `TypeOK`, `PaidOnce`, `PaidAsApproved`, `NoneStranded` |
| `FilingStands` | `LockedWhileFiled`, `FiguresKept` |
| `NothingLost` (of `Deletion`) | `ArchivedWhileOwed`, `BinnedBeforeGone` |

**Bounds and why they are enough.** Two workers, or two requests, are what a race
needs, and the code treats all further ones alike. `MaxAttempts = 2` gives a first
attempt, a requeue and a last attempt; `MaxAttempts = 1` in the liveness run makes
every claim the last one, where a lost row would hide. `MaxRetries` bounds manual
retries, which the code does not: liveness is claimed for finitely many retries.
One invoice is enough for the races of `runs`, because requests interfere on a run
or on a single invoice; two in `ledger` let a run hold one settled and one open
invoice. `MaxRecords` and `MaxExports` bound what may be repeated for ever, and
`MaxVersion = 5` allows four changes: submit, return, resubmit and a decision. In the payment
runs symmetry is over identities no definition tells apart; it is never used with
liveness.

**Workloads.** `Receivables` and `Reimbursement` have some twenty operations each, and
all of them over two slots is more than TLC can explore. Init therefore chooses
a workload: a set of operations that touch the same columns, with just the row
ids they need. Every operation is in at least one workload, and those that write
the same column, or read it for a check, meet in one: numbering, copying and
sweeping; settling, resolving, allocating, voiding, matching and ignoring; claiming,
editing, filing, approving, routing, revising, recalling, settling, batching,
discarding and exporting. `Deletion` does the same: filing (a rebuild, a close and a submission of one claim), registering
(bills that arrive meanwhile), deciding, contending (two claims for the locks), closing, rating, opening,
resolving, admitting, binning, archiving, and resting (claims on bills that are deleted); two
transactions overlap in the first four and in admitting, where the lines of a claim can
be built already. `MaxEntries = 4` admits two payments and their reversals,
`MaxVersion = 4` and `MaxSteps = 2` a chain of two steps and a mark, `MaxGen = 4`
the chain in the table, the one each of two requests has read, and a new one. `receivables` and `expenses` stop where the ids and
entries are used up, hence `CHECK_DEADLOCK FALSE`. Symmetry is over slots, row ids and the like:
the set of workloads is closed under it, and no liveness is checked in these two runs.

**Faults.** `MaxFaults = 2` lets one lost lease start a second execution and a
second fault hit either of them; the rule with two mails meets one fault.
`MaxAttempts = 2` gives a first and a last attempt, `MaxGen = 1` and
`MaxSeq = 1` one retry of a mail and of a capture. When everything is decided the
system rests, hence `CHECK_DEADLOCK FALSE` in `background`. In `billing` a workload has
its own days, overlapping requests and faults: two faults let an answer be lost and a
worker die on the way to the same segment, and one is what a second charge or an
event's retry takes. `MaxCount = 2` puts usage before and after a freeze, two days put a
second run into the same month, and the third day is in the next one. With
`Length = 1` the next period is due on the next day. Three events are a subscription, its
checkout and one change. In `vendors` two versions or change requests after the first
value make a change, and a change of it. The days, versions and ids of these runs are
used up in the end, hence `CHECK_DEADLOCK FALSE`. In `claims` five days let a bill be
deleted on the first, purged on the third and its copy expire on the fifth, with an
extension by one day before it; the run stops there.

**Fairness.** `queue_live` and `background` use it. In `queue_live`: Workers are restarted by their
supervisor and poll for ever (`run_forever` catches every exception), a handler
is ended by its deadline (`_run_handler`), a request ends, and time passes: weak
fairness for `Turn`, `Answer` and `Clock`. A worker may crash between two of its
steps again and again without being killed for ever before the same one, so
`Look` (poll and sweep) and `Land` (commit what it loaded) have strong fairness.
Both workers of the run drain every lane: a job in a lane nobody drains waits for
ever in the code too. In `background` weak fairness is enough, for a worker's poll and
handler steps, for the end of a request and for the sweep: whoever holds a row lets go
of it, and the faults are finitely many. `Decided` excuses a job that is dead, which an
operator may retry; the code does not retry it by itself.

## 5. What TLAPS proves

Every theorem holds for all values of the constants: any numbers of rows, people,
workers, requests, keys and amounts, under the assumptions that the modules name
and TLC evaluates on each run. A property of the stored rows is never inductive
here, since a request is checked at its load and writes at its commit; what each
invariant adds is what a request or an execution in flight is still worth.

### JobQueueProofs

* `TypeCorrect`: `TypeOK`, in every environment.
* `OneRunnerCorrect`, `AttemptsCorrect`, `SuccessCorrect`: `OneRunner`,
  `AttemptsBounded` and `SucceededIsFinal` when `Env` is at most crashes
  (`Orderly`). Overlap must be excluded (section 6, two retries), and a
  stalled worker may be overtaken by the sweep by design.
* `ContractCorrect`: the queue implements `JobContract`, again when `Orderly`.

They follow from `Inv`, the conjunction of

1. `LeaseInv`: a worker inside a job holds its row on a fresh lease it renews, so
   neither the sweep nor the clock can take it;
2. `LoadInv`: a row is between load and flush in one process at most;
3. `WorkerLoadInv` and `ClientLoadInv`: what a process has loaded still agrees
   with the row where it matters, so a flush by primary key cannot resurrect a
   row, which is what makes the delayed writes of `_fail`, `reclaim_stale` and
   `retry` safe;
4. `RowInv`: exactly the running rows are locked, and a queued row has attempts
   left.

`OneRunner` follows from `LeaseInv` alone (two runners would both be
`locked_by`), `AttemptsBounded` is part of `RowInv`, and `SucceededIsFinal`
follows from the load invariants action by action. For the refinement, the
contract's runner of a job is the worker inside its handler or its failure path,
its phase and tries are columns of the row. With `Inv` each action of the queue is
one action of the contract or a stutter: a load, a renewal and a lost claim change
nothing the contract sees; a crash, or a deadline missed, is `Abandon`; the sweep
is `Recover` of just the rows it loaded, since `WorkerLoadInv` says that they are
still as they were loaded and `LeaseInv` that nobody runs them.

### PaymentRunProofs

* `PaymentTypeCorrect`, `MakerCheckerCorrect`, `SettledOnceCorrect`,
  `NoneStrandedCorrect`, `RunIsFinalCorrect`: `TypeOK` and the four properties of
  the run `runs`, whether requests overlap or not.
* `LedgerMatchesCorrect`, `SettlementTraceableCorrect`: the two properties of the
  run `ledger`, when requests do not overlap (`Serial`). With overlapping
  recordings `LedgerMatches` is violated (section 6).

`Inv` is the conjunction of

1. `LockInv`: at most one request in flight is on a run (`FOR UPDATE` in `_load`);
2. `ReqInv`: each request in flight is sound for the tables *as they are now*. The
   row change it holds is one of the five moves of a run (`RunStep`); it moves
   amounts only with the payment of an approved run, and only of invoices linked
   to it; it sets links only with a creation and clears them only with a
   cancellation, which has loaded *every* invoice now linked to its run;
3. `RowInv`: maker, checker and payer, row by row, and no bank file before the
   approval;
4. `SettledOnce` and `NoneStranded` themselves.

Every Load action issues a sound request (`Loads`, one lemma per action). A commit
keeps the other requests sound because of `LockInv`: it changes another run's row,
and links only to or from its own. A race between a creation and a cancellation, or
between a payment and a cancellation, is therefore harmless on the run's side even
though invoices carry no lock. `SerialInv` adds that the one request in flight has
loaded what is in the tables, from which the two ledger properties follow.

### InvoiceReviewProofs

`VersionIsSnapshotCorrect` and `ChainSoundCorrect`, for any people, chains and
transitions, when requests do not overlap (`Serial`; section 6 says what two edits
do otherwise). In `Inv`, `ReqInv` says that the one request in flight has loaded
what is stored, will leave the next version and a chain that is sound *for the
submitter it leaves* (`Outcome`, `SoundSteps`); `ViewInv` that nobody has read a
version that is still to come, nor the current one in an older shape. `SoundSteps`
is stronger than the properties: a later step is decided only after every earlier
one is approved, and a pending step excludes a rejected or skipped one, without
which a return or a rejection could leave a chain the next decision breaks.

### ReceivablesProofs

`NumberingCorrect`, `ImmutableCorrect`, `LedgerCorrect` (with `TypeOK`),
`NeverOverpaidCorrect`, `VoidCorrect` and `OneLineCorrect`: the six properties of
the run `receivables`, for any overlap of requests. The proof is in layers, each
inductive relative to the ones before.

1. *Requests* (`Inv`, `RequestsSound`). Each request in flight is of one family
   (`InsertReq`, `CreateReq`, `IssueReq`, `MoveReq`, `EditReq`, `ScheduleReq`,
   `SweepReq`, `PayReq`, `CreditReq`, `VoidReq`, `LineReq`), which says what it may
   leave of the rows it loaded; a row it locked is still as it loaded it, and stays
   so (`ReqInv`); and two requests share no lock and no new row (`Apart`). Lemma
   `NotOvertaken`: unless the commit adds the operation and the row to `raced`, the
   row it writes is the row it loaded, locked or not.
2. *The series* (`SeriesInv`). `NumbersInv` says that numbers are below the
   counter and distinct, that a numbered invoice has been issued, and that every
   number below the counter is held, the last two where no approval or
   cancellation overtook the issue (`Calm`). Only who holds the issuer draws, so a
   commit draws the next numbers for rows that had none (`Draws`). `PeriodsInv`:
   a sweep in flight holds a free period, because the generation re-reads under the
   same lock.
3. *The ledger* (`LedgerInv`). `LedgerRules` says that a correction takes back one
   entry of the same invoice and receipt, whole and once. What is left after the
   corrections, `LiveIn`, has then the same sum as all entries, and not only on the
   whole ledger but on every class of invoices and receipts (`Balanced`): it is this
   generality that survives one more entry. An open request that spends or takes
   back still may (`Due`), because it holds its receipt or its invoice.
4. *The figures* (`PaidInv`, `VoidInv`, `NotesInv`). The two cached columns are the
   sums, except where the named operation wrote over them. A void invoice has no
   live direct payment: together with `Balanced` their sum is nothing.
5. *Bank lines* (`LinesInv`): nobody else has, or is about to take, the target of a
   match in flight, which holds it under its lock.

Sums are folds (`MapThenSumSet`), a recursive function over the subsets of a finite
set that picks an element by CHOOSE. Structural induction is out of reach, but a
least counterexample is not: the subsets of a finite set are well founded
(`MinimalSet`), so two such tables agree where they overlap (`TablesAgree`), a table
exists (`TableExists`), and a sum loses exactly what is taken out of the set
(`SumRemove`), whichever element the fold had chosen first.

### ExpensesProofs

`RetriesCorrect`, `EntriesCorrect`, `DecisionsCorrect`, `DecidedCorrect` and
`BatchesCorrect` (with `TypeOK`): the five properties of the run `expenses`, for any
overlap of requests and for every workload at once: a workload only restricts which
operations and rows a behaviour uses and what it starts from. The inductive invariant
`IInv` (`InvariantHolds`) is the conjunction of

1. `RowsSound`. Each row a request in flight will write is a legal successor of the row
   it loaded (`Part`: `ReportPart`, `ItemPart`, `TxnPart`, `StepPart`, `BatchPart`), what
   it locked is still as it loaded it (`Current`), and two requests share no lock and no
   row to be inserted (`Apart`). The version of a report counts its decisions because
   every decision holds the report.
2. `KeysReserved`. A creation in flight holds the employee's membership, and no report
   has its key: so the look-up of `lookup`, made under that lock, stays right until the
   commit.
3. `Chains`. `Fits` says what a report's state tells of the steps of its chain. A
   submission or a withdrawal reads the steps without a lock, and at its commit may meet
   a chain that is no longer the one it read: `SameChain` and `WholeChain` say that as
   long as one step is still of that chain, all of them are. So a submission replaces
   the whole of it or fails (`Conflict`), and a withdrawal deletes the whole of it or
   nothing (`Missed`); in the second case the report is named in `raced`, and so
   excepted as `Recalled`. A decision keeps the chain as it found it (`DecideChain`),
   because a submission or a withdrawal must update a report that the decision has
   locked. The numbers of chains tell those of two requests apart (`GensApart`).
4. `Entries`. A request that rebuilds the total knows the sum of the entries it loaded
   (`ContentRequest`); an unmatch in flight knows which transaction the entry has.
5. `BatchesInv`. A payment or cancellation in flight finds every report where the batch
   put it, the amount as it was stamped, and a cancellation knows all the reports of its
   batch (`BatchRequest`); what is binned was a draft or submitted, unless a deletion or
   a withdrawal was overtaken.

The step has two cases: a load adds one request and changes no row (`BeginStep`), and a
commit writes the rows of one request (`CommitStep`), where what the other requests knew
follows from their locks. The lemmas on sums are those of `ReceivablesProofs`,
here for the entries of a report; TLC's own `@@` and `:>` are declared without a definition
the prover could use, so that the model writes `Over` and `Only`. The proof showed that two
arms of the `CASE` in `ChainState` overlapped, with different values: a chain with a
rejected and a pending step, which no route leaves behind. The definition has the order of
the returns of `chain_state` now.

### VendorsProofs

`TwoPeopleCorrect` and `RequestTellsTruthCorrect`, for overlapping transactions
without any lock. `StoredInv`: the last write in the trail is the stored value.
`ReqInv`: what a transaction in flight loaded, and that an approver is not the
maker. `FieldInv`: of the requests for a field at most one is open (the partial unique
index) and none asks for what it finds; a write that came through a request has the
value and the two people of that request; a first capture found the field empty,
or was written from a stale read and is named in `raced`.

### BackgroundProofs

`SendOnceCorrect`: the mails of rules and invoices implement `SendOnce`, for any
workers, clients, retries and faults of any kind. The status of a mail alone does not
say whether it may still reach the relay; the inductive invariant does, as the
conjunction of

1. `ExecInv`, `JobInv`: executions are of jobs, and a mail's job exists only after
   its run, or its attachment, was committed;
2. `MailInv`: a mail that was never marked *sending* was never accepted; one that is
   with an execution or a stray SMTP thread has exactly one such holder, and is
   marked *sending* or *unknown*;
3. `HolderInv`: a worker's open transaction belongs to its execution;
4. `RulesInv`, `MailsInv`: what an open transaction will store - of a run, the
   statuses of all its mails, written whole - is still a legal move from what is
   stored (`WorkerWrites`, `ClientWrites`), because no two transactions are open on
   one run or one mail.

So a reclaimed job that meets a *sending* mail can only turn it to *unknown*; that
is where at most one send comes from. On top of it:

* `RunSoundCorrect`, from `RunInv`. What an open transaction will store of a run
  agrees with the messages it stores with it (`Agrees`), performs the direct action
  exactly if the run has not performed it, and leaves a run that is through as it
  is (`Tells`). An open sweep has found nothing that keeps the rule from firing, and
  that stays so, since a sweep holds the lock of the rule (`_rule`): hence
  one firing.
* `StampedOnceCorrect`, from `StampInv`: a worker between its load and its report holds the
  invoice without a stamp only if there is none, or if the stamp was set while it was at
  its mail, and holds it with one only if there is one (`SessionOK`); and the report of an
  accepted mail does what that tells (`StampTx`).
* `EventsKeptCorrect`, from `HookInv`: an open `emit` holds the key, which has no row
  yet; a job is of a row that was committed with it; and who is past the call, or
  has dropped it for an inactive endpoint, is so on record (`Told`). `Around` says
  what everything else that happens - faults, claims, reclaims, reports - can do to
  executions and jobs.
* `CaptureSoundCorrect`, `DiscardsOnRecordCorrect`: an attempt the row still waits
  for, or that is to come, has not published (`NoneYet`); an open transaction holds
  the row lock alone and what it read is still so (`LockInv`, `TxInv`); before the
  admission there is no job (`QueueInv`). A late result is then fenced because
  `Current` is read again under the lock that `Reread` also takes.
* `WaitingHasJobCorrect`, from `Typed` and `WaitInv`. That a waiting mail has a job that
  did not succeed is not inductive: an execution may be about to report it. `Alive` says
  that none is. For the mails of a run it rests on the generations: a job of a later
  generation than the row's was never queued, so the key that a sweep or a retry takes is
  new; what an open transaction leaves queued waits already under the same key, or gets
  such a job (`LeavesWaiting`); and a handler that is about to be through leaves its own
  mail decided (`Requeues`). For the mail of an invoice it rests on the attachment, which
  is frozen with its only job, so a mail without one has no job yet (`MailsWait`). For
  a capture it rests on the attempts: those to come have no job, and an execution
  that is through works at an attempt the row does not wait for (`CapturesWait`).

### BillingProofs

The four safety properties of `billing`, for its whole specification: what a behaviour
exercises keeps its own invariant, and what it does not exercise stands still.

* `EveryDayIsScheduled`, from `SweepInv`: a worker inside the sweep
  has not marked that day yet, so when it fails or dies somebody is left who will sweep;
  and no job goes back to the time before it was queued (`JobsStay`). It needs one worker.
* `UsageIsBilledOnce`, from `MeteringInv`: the provider has taken the
  units up to the last segment it has seen, which is the last one acknowledged or the one
  in flight (`CounterInv`); and a run that asks for a segment the provider has not seen
  asks for the one in flight, with the quantity that ends where the bill would (`AskInv`).
  Two overlapping runs may both ask, but for the same identifier.
* `DueDatesAreChargedOnce`, from `RenewalsInv`: what was charged was claimed before, a
  handler that asks the provider holds a claim nobody else holds and has charged nothing
  yet (`CallsInv`), and a hosted payment is applied with its ledger row (`PaymentInv`).
* `NewestEventWins`, from `EventsInv`: jobs are those of events that arrived, and one that
  is through was applied, or a newer event of its subscription is known (`Handled`); who
  is about to apply an event has seen no newer one of its subscription go through
  (`ApplyInv`); and as long as no application raced, the newest event applied is what the
  tenant reflects (`LatestHolds`).

What all of this rests on, the loop of a worker, is `Steady`: whatever the
sweep, the queue and the machines do, nobody comes to stand in a call except from where
he stood before.

### Assumptions

They say that things the code tells apart are different values (an id is no key, a
worker no client, the "none" values no rows: `NoRowAssumption`, `PaymentAssumption`,
`ReviewAssumption`, `VendorsAssumption`, `ActorAssumption`, `CaptureAssumption`,
`IssuedAssumption`, `ReceivablesAssumption`, `ExpensesAssumption`, `TablesAssumption`), that
bounds are natural numbers, and that
the parameters fit together: the mails of a rule's runs are mails and, like those of
invoices, have their jobs, one for each generation (`HandlerAssumption`), the extraction
jobs are those of the attempts, each event and delivery has its job (`WebhooksAssumption`, `EventJobAssumption`: an idempotency key is
computed from their ids), a workload's keys and invoices are keys and distinct
invoices (`WorkloadAssumption`), a chain of approvers has a first one and reports
start with entries of their own (`WorkloadsAssumption`). A payment is named by its position in the ledger and a
bank line by its id, so `ReceivablesAssumption` keeps the lines apart from the numbers.

### Only model-checked

Liveness (`Settles`, `Decided`), which is out of the prover's reach; the
refund claims and deletion (`FilingStands`, `NothingLost`). `TypeOK`
of the queue and of the payment runs is proved and therefore in no configuration.

## 6. Findings

1. **A chain of three or more steps cannot be approved** (`invoice_review.py:488`):
   the second approval needs a move from `partially_approved` to itself, which the
   lifecycle graph lacks.

The following disagreements of the code with its own words have no run of their own.
Each one is reproduced by naming the property in the configuration, changed as told.

| What the code does | Property | Configuration |
|---|---|---|
| Two retries of one dead job pass the check on a loaded row and flush without a guard, over a claim made in between (`jobs.py:570`): two workers run it, which `jobs.py:559-562` and `worker.py:8-9` exclude | `OneRunner` | `MCJobQueue`, `Env <- OverlapOnly`, `Job`, `Handled <- OneJob`, `Lane <- AllLanes`, `Client <- TwoClients`, `MaxRetries = 2` |
| Two recordings of a payment on one invoice compute their entries from the same old amount (`invoices.py:1101`); `ap_payments.py:6-8` says that sum and cache always agree | `LedgerMatches` | `MCPaymentLedger`, `Overlap = TRUE`, `Slot <- TwoSlots` |
| Two edits with one version both pass the gate and both write the next one (`invoice_review.py:105`); `invoice_workflow.py:118-120` says they cannot overwrite each other silently | `VersionIsSnapshot` | `MCInvoiceReview`, `Overlap = TRUE`, `Slot <- TwoSlots` |
| Of two first captures of a bank detail the second writes over the first, which is established by then (`vendors.py:355`); `vendors.py:311-312` excludes it | `NeverOverwritten` | `MCVendors` |
| An approval and a rejection overlap: the request is rejected, and its value stored (`vendors.py:521`); `vendors.py:512` says the stored value stays untouched | `RejectedUntouched` | `MCVendors` |
| Two deliveries of an invoice both load it without `sent_at`, and the one recorded last stamps it again, because the locking select does not refresh the loaded row (`invoice_delivery.py:189-194`); `issued_invoice.py:216-217` says it records the first delivery | `StampKept` | `MCBackground` |
| A renewal job that runs again after its last commit reads the advanced date and charges the next period early (`billing.py:300`); `billing.py:277-279` says the current period | `ChargedWhenDue` | `MCBilling` |
| A declined period stays claimed and the date unadvanced, so every later job answers duplicate (`billing.py:304`); `billing.py:280-281` promises a retry | `DeclinedIsRetried` | `MCBilling` |
| An older event is applied while the cancellation's job has applied its own but is not *succeeded* yet (`job_handlers.py:138`), which puts the tenant back on its plan; `job_handlers.py:117-121` excludes it | `CanceledStays` | `MCBilling` |
| The plan is in the metadata of the subscription only (`billing_provider.py:202`); when the job of the checkout's completion succeeds first, the event with the plan is superseded, and `billing.py:148-149` is not met | `PlanArrives` | `MCBilling` |
| Two checkouts look for an open one before either has saved its own (`routes/billing.py:253`); `routes/billing.py:239-240` says another one is refused | `OneCheckout` | `MCBilling`, `requests |-> 2` for the subscriptions |
| The annual mop-up leaves out of its locks what a quarter has locked, and the list of the client is compared with no line (`lock.py:132-182`), while base and fee are of all unfrozen lines: the quarter's VAT is in both bases; `freeze.py:23-25` says the lines are the claim set | `ClaimedOnce`, `BaseIsLockedSet` | `MCDeletion` |
| A rebuild between the gates of a submission and its freeze has lines frozen that no gate saw (`lock.py:317`, `freeze.py:132`); `lock.py:313-315` says the gate scans exactly what the freeze would stamp | `OnlyScreenedFiled` | `MCDeletion` |
| A rebuild between the freeze and the flush deletes the lines: with two or more of them nobody counts the updated rows, and the claim is filed with a base and no lines (`lock.py:408`); `freeze.py:122-124` says the base is of exactly those lines | `BaseOfFrozen` | `MCDeletion` |
| A withdrawal or a submission loads the report without a lock and writes its status over a decision made since (`routes/expenses.py:917`, `:694`); `expense_state.py:35` says no further transition is possible from a terminal state | `TerminalIsFinal` | `MCExpenses` |
| A withdrawal whose chain was replaced since it read it deletes nothing and commits, and leaves a draft with the pending chain of the newer submission (`expense_approval.py:162-165`); `routes/expenses.py:922` says the chain is discarded | `DraftHasNoChain` | `MCExpenses` |
| The DELETE of a rebuild does not see the lines another one is inserting (`claim_lines.py:243-247`), and both are filed; `claim_lines.py:135-137` says one row per invoice and product group | `CountedOnce` | `MCDeletion` |
| After a partial decision the filing pack totals the rejected lines too and refuses with `claim_totals_drift` (`claim_pack.py:262-281`); `claim_pack.py:41-44` says the artifacts stay reproducible | `PackRenders` | `MCDeletion` |
| An invoice a claim's draft lines name is deleted before the submission, or a retention policy, which does not ask the claims (`retention.py:303`), bins it after; `invoices.py:153-175` says deletion is refused while the claim stands | `EvidenceStays` | `MCDeletion` |
| An invoice restored while the purge holds its batch loses line items and links, and has an archive copy (`invoices.py:537-564`); `invoices.py:565-572` is about the invoice only | `RestoredWhole` | `MCDeletion` |
| A notice that was computed before an extension stamps the extended row (`archive.py:530-540`); `archive.py:462-465` says a fresh notice precedes the new expiry | `ToldOfExpiry` | `MCDeletion` |
| The archive purge does not ask for a notice, so a copy nobody could be told of is destroyed (`archive.py:387-393`); `archive.py:58-60` says the owner is told first | `ToldFirst` | `MCDeletion` |

A segment of usage whose call fails in the last run of a month is never replayed, because
later runs look at the new month only (`billing_usage.py:71`); `billing_usage.py:62-63`
promises a replay by the next run. `Freeze` shows it; no property states it. The
operator's patch of a tenant's plan re-stamps no archive row (`Replan`,
`routes/platform.py:96-103`), and the generic bin is emptied under a legal hold
(`job_handlers.py:193`), which `archive.py:312-314` says stops every destruction path;
a hold placed after a purge has looked stops nothing (`LoadJob`).

## 7. Not modelled

Parts without a protocol between actors (identity, reports, arithmetic, transport
analytics, storage, the frontend) are left to their tests. The audit chain (one critical section)
is not modelled. Inside the modelled parts, these are left out:

* payloads, error texts, the amounts of backoff, notifications, comments and
  attachments, the policy selection, the approver inbox, and
  database constraints that only reject malformed rows;
* issued invoices: several issuers, the partner gate, dates and terms, end dates of
  schedules, sent and viewed marks, penalty and subscription invoices, the issue
  key (the invoice's own lock decides there) and the `expected_*` checks, which
  only refuse more;
* cash: tolerances and dates in matching, statement import, the match kinds for
  reimbursements and payment runs, the correction of ledgers older than the ledger
  itself;
* automation: matchers and conditions, cooldown, the cap per sweep, legacy runs,
  rule editing; dunning reminders, which are sent without an outbox;
* webhooks: events without a key, `Retry-After`, the attempts counter, and the
  pending row of a caller that rolled back to its savepoint;
* captures: the parser, failure codes, page previews, vendor memory, duplicate
  detection, intake by e-mail;
* expenses: currencies, policy and compliance checks, receipts, statement import,
  restoring from the bin, batch totals and files;
* vendors: `confirm_provisional`, formats, source documents, hints on shared accounts,
  vendor memory;
* billing: add-on modules and retention that follow the plan, seats and limits, the
  portal, the billing of the platform's own tenants, tokens of cards;
* refund claims: several claimants and countries, product groups, currencies and local
  amounts, the minimum amount (which an override admits), checklists, stages, the
  figures of tie-out and rebate that may halt a close, the pack's rendering;
* deletion: the generic bin, other categories of retention, document bytes and their
  collection, exports, the guards on bulk selections, who may delete.

PostgreSQL's isolation is modelled as commits of whole transactions; SQLite, where
writers exclude each other, allows a subset.
