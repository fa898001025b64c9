# sub2api: TLA+ models of its money and coordination paths

sub2api is a gateway that sells access to upstream AI providers.  A Go backend
(`src/backend`) forwards requests with the credentials of pooled upstream
accounts, meters them and charges the user's balance or subscription; users
recharge through payment providers; several instances of the backend share
Postgres and Redis.  What is hard to get right in it is not the forwarding but
the bookkeeping around it: the same order, key, account or lock is handled by
overlapping requests, webhooks, sweeps and instances, each made of several
statements that are not one transaction, each able to die between two of them.

This directory models those parts, checks them with TLC on small instances and
proves the main results with TLAPS for every instance.  The code is read at one
commit; `PROJECT.json` maps every definition to the lines it models.

## 1. Inventory

| Component | State it keeps | Operations | What is hard | What makes it correct |
|---|---|---|---|---|
| Payment order lifecycle (`payment_order.go`, `payment_order_lifecycle.go`, `payment_order_expiry_service.go`) | row of `payment_orders`: status, paid_at, trade number, updated_at, expires_at | create, cancel (user, admin), expire, reconcile, verify | creation in two transactions around a provider call; a cancel races a webhook; the provider cannot be queried | a paid order is never taken back; no order waits for ever |
| Payment fulfilment (`payment_fulfillment.go`) | the same row, redeem code, audit rows, balance, subscription, rebate | webhook, toPaid, lease, redeem or assign, rebate, complete, fail, retry | duplicated webhooks, a lease by timestamp, crashes between delivery and its record | delivered at most once, only if paid, and always in the end |
| Payment refund (`payment_refund.go`) | status, refund amount, audit rows, balance | request, prepare, execute, roll back, query, finalize | deduction, provider call and status are separate; a promised refund is finalized later from an audit row | never deducted twice; nothing held without a refund; refunded means returned |
| Idempotency coordinator (`idempotency.go`, `idempotency_repo.go`) | `idempotency_records` | create, look up, reclaim, execute, mark, clean up | insert races, retries, expiry, a crash after the write | the write is executed once per key; a replay answers the same payload |
| System operation lock (`system_operation_lock_service.go`) | one record of the same table, used as a lease | acquire, renew, release | the lease is renewed by a goroutine; the record changes hands | one update, rollback or restart at a time |
| OAuth token refresh (`oauth_refresh_api.go`, `token_refresh_service.go`, `claude_token_provider.go`) | account credentials and status, local mutex, Redis lock, token cache | refresh if needed, recover from invalid_grant, disable, re-authorize | a lock without owner and with a TTL, a refresh without it when Redis fails, administrators who refresh or authorize beside it | one refresher at a time; a usable refresh token is not lost; a healthy account is not disabled; a due token is refreshed |
| Batch image jobs (`batch_image_*.go`) | job row, balance and frozen balance, claims, ready/delayed/active queue, job lock, provider job | submit, poll, index, settle, cancel, recover | hold, capture and release are deduplicated by request id; leases of the queue run out; retries run out | every hold ends in one capture or one release, charged means completed, a queued job ends |
| Concurrency slots (`concurrency_service.go`, `concurrency_cache.go`) | Redis sorted sets per account and user, wait counters, active index, ingress leases | acquire, wait, release, clean up at start, reconcile | slots expire under long requests; a starting process removes others' slots | the limits hold; all is given back; what a crash leaves behind goes |
| Usage billing (`usage_billing_repo.go`, `usage_record_worker_pool.go`, `billing_cache_service.go`) | dedup rows, balance, quotas, caches, queue | apply, archive, enqueue, drop | replays of a charge, a full queue, stale caches | charged once per request |
| Scheduler snapshot and outbox (`scheduler_snapshot_service.go`) | events, watermark, bucket snapshots | poll, rebuild, clean up | ids commit out of order, rebuilds overlap | snapshots converge to the accounts |
| Auth cache invalidation outbox, user message queue, leader lock, quota flusher | Redis and Postgres rows with leases | claim, retry, release, flush | leases that expire, fail-open paths | events are processed, locks exclude |
| OpenAI WebSocket pool, security audit | connections, a queue of prompts | acquire, release; enqueue, scan | lifetime of shared connections | not examined yet |
| Gateway conversion, payment provider clients, HTTP layer, frontend, ent | - | - | data and I/O | not modelled |

How they interact: fulfilment, lifecycle and refund share the order row and
the user's balance, and only conditional UPDATEs (`WHERE status IN ...`)
serialise them.  The idempotency coordinator wraps admin and user writes, among
them refunds and the system operations; those take the system operation lock
inside the coordinator's `execute`, and both keep their state in
`idempotency_records`.  Usage billing charges the balance that refunds deduct
from (the action `Spend` of PaymentRefund), and the same repository keeps the
claims and the frozen balance of batch image jobs (BalanceHold).

`PROJECT.json` lists the hazards, each at its line, with the properties that
would catch it, or the reason why none does yet.

## 2. Modules

| Module | Models |
|---|---|
| PaymentFulfillment | creation, cancel, expiry, reconciliation, notification, lease, delivery, rebate, completion |
| PaymentPromise | the abstract promise: receive, deliver once, complete |
| PaymentFulfillmentLiveness | the same system with finitely many faults and fairness |
| PaymentFulfillmentProofs | theorems about PaymentFulfillment, and the refinement |
| PaymentRefund, PaymentRefundProofs | refunds of a balance order |
| IdempotencyStore | the SQL statements on one record, shared by the next two |
| Idempotency, IdempotencyProofs | the coordinator's `Execute` for one key |
| SystemOperationLock, SystemOperationLockProofs | `Acquire`, the renew loop and `Release` |
| BalanceHold | reserve, capture and release of one hold, deduplicated by claims |
| BatchImageQueue | the Redis queue of jobs and the job lock |
| BatchImageJob, BatchImageProofs | the composition of the two with submission, cancellation, recovery, workers, settlement and the provider's job |
| OAuthRefresh, OAuthRefreshProofs | the refresh of one account by background refreshers and requests, the token cache, administrators who authorize or refresh it |
| ConcurrencySlots, ConcurrencySlotsProofs | the slots, wait counter and active index of one user |
| MC... | symmetry sets, refinement instances |

Conventions.  A process (worker, admin, request, operation) is one run of a
handler; `pc` names the call it makes next and a record holds the Go locals it
carries from call to call.  One database statement or transaction, or one call
of a provider, is one action; what a handler does between two of them is part
of the first.  A definition whose comment begins "Variant with a defect" is not
part of any specification: it is a plausible bug that a property has to catch,
and `PROJECT.json` says which.

### PaymentFulfillment

- `status`, `paidAt`, `tradeNo` are columns.  `updated_at` is what the lease and
  the grace period compare: `stale[o]` says it is five minutes old (both
  durations are five minutes in the code), `holders[o]` is the set of workers
  whose lease version equals it.  Every UPDATE refreshes it (`Touch`).
- `code` is the redeem code derived from the order id, `assigned` and `rebate`
  the audit rows that record a subscription assignment and the rebate.
  `deliveries` and `rebates` count what was really handed out.
- `gateway` is the order at the provider; `mismatch` is a payment with the wrong
  amount, currency or merchant.
- Creation is three steps: `CreateOrder` inserts the row, `CreatePayment` is the
  provider's side of the call, `InvokeProvider` the update of the row and the return.
  `InvokeProviderFails` is possible before and after the provider has the order (its
  answer is lost, or the update fails).  The order can be paid from the moment the
  provider has it, whoever has the payment details then: the user gets them from the
  request's response, administrators from the row.
- Entry points: `Notify` (webhook), `CancelOrder`, `ExpireTimedOutOrder`,
  `ReconcilePendingOrder`, `VerifyOrder`, `RetryFulfillment`.  `QueryOrder`,
  `PersistTradeNo` and `CancelCore` are checkPaid and cancelCore;
  `ConfirmPayment`, `ToPaid`, `AlreadyProcessed`, `ExecuteFulfillment`,
  `AcquireLease`, `ReloadLease` are the way to the lease; the delivery follows
  with `LookupCode`, `CreateCode`, `Redeem` or `CheckAssigned`,
  `AssignSubscription`, `InvalidateCache`, then the rebate and
  `MarkCompleted`.  Any call may fail, and a worker may die at any point.
- A commit whose answer is lost is a commit followed by the failure path.
- `Disturbances`: "stall" lets five minutes pass while a worker is between
  taking and giving up the lease; "lost_read" lets the read after an update
  fail.
- Left out: audit rows nothing reads, the recovery of old orders by notes and
  the legacy audit action SUBSCRIPTION_SUCCESS, the limits of CreateOrder (a
  count before the insert, listed as a hazard), redeeming the order's code by
  hand (the code is not shown to the user).  The affiliate service is assumed
  to be configured.

### PaymentRefund

- One completed balance order.  `balance` and `deducted` are real amounts, because
  a user may have spent what is to be deducted: `Available` is the clamp
  of DeductAvailableBalance, `Spend` is usage charged meanwhile.
- `plan` is the RefundPlan a request carries, including the status it read.
- `audits` and `rollbackOK` are the audit rows the control flow reads back: a
  failed rollback makes a retry skip its deduction, and the REFUND_PENDING row
  tells the finalization whether the deduction was put back.
- `Faults` switches on: a rollback that fails, an audit log that fails (its
  errors are only logged), a provider that gives up an accepted refund, an answer to
  the query that is invalid or has an unknown status (which the code takes for a
  failed refund, also while the refund is pending), crashes.
- `incidents` is a history of the two events after which the books may be wrong:
  a rollback that failed, and a REFUND_FAILED written over an order that another
  request is refunding or has refunded.
- Left out: refunds of subscriptions, the answer of the deduction
  statement being lost, partial answers about amounts (the provider returns the
  amount or not), the user's RequestRefund in steps.  The provider is assumed
  not to return the money of one order twice.

### IdempotencyStore, Idempotency, SystemOperationLock

- The store is one row with the columns the statements test; `locked_until`
  NULL is 0.  `id` comes from a sequence, so a record deleted by the
  cleanup and created anew has another id.  The response body is abstracted to
  the fingerprint of the request that produced it.
- A request reads the time once, at its start, as `Execute` does; all its
  comparisons and deadlines use that value.  `Tick` is bounded by `MaxTime`,
  and by `MaxDuration` (`MaxAcquire`, `MaxHold`) for a request in flight.
- `Abort` is a store error, a response that cannot be decoded, or a crash, at
  any step.  An execution that fails is assumed to have had no effect.
- The history variables `effects`, `lastEffect` and `expired` are read by the
  properties only.
- In the lock every operation carries an operation id, the same or another
  (`buildSystemOperationID` gives each distinct request its own).  A renewal is tried on
  time whenever it is due and fails up to `MaxMissed` times; a lease survives
  `Tolerated` failures in a row.  `lapsed` is a history: an operation that reclaimed a
  record with another's id has held it for a lease, or more renewals in a row failed
  than a lease survives.  A renewal still on its way when the lock is released is
  left out.
- Left out: requests without a key (executed directly while `observe_only` is
  on, which is the default), the fail-open mode of the admin helper, which no
  route uses, and redaction of the stored response.

### BalanceHold, BatchImageQueue, BatchImageJob

- `balance`, `frozen` and `claims` are the user's row and the deduplication rows
  of the job's three request ids.  `OtherHolds` is what other jobs of the user
  have frozen: without it a release made twice would fail for lack of frozen
  money instead of taking another job's.  A release without a hold succeeds and
  keeps its claim, as in the code; a fingerprint conflict on release counts as
  done.
- `ready`, `delayed`, `active`, `inflight` and `lock` are the Redis keys of one job.
  `ready` is a number because recovery can queue a job a second time.
- A Submit that cannot queue its job writes QUEUE_FAILED on the row
  (`RecordQueueFailure`) and answers with an error.
- `job` is the row; `upstream` the provider's job; `pc` of "submit", "cancel",
  "sweep" and each worker is the call made next.  `Outcome` is how a call ends:
  "ok", "fail" (no effect) or "lost" (effect without answer, or a crash right
  after it).  `troubles` counts these per kind and bounds them; the properties
  that hold up to a certain kind of trouble say so in their premise.
- `RecoverActive` and `LockExpires` are free while nobody renews the lease, and
  a trouble ("delay") while a heartbeat should have renewed it.
- `job.stale` is the recovery's cutoff against `updated_at`, which every
  UPDATE and the submission's heartbeat refresh.
- Left out: item contents (an index of the results yields a cost of `Costs`, or
  fails), pricing, downloads, cleanup of inputs, a changed output reference,
  the seven days' TTL of the in-flight marker.  A transient database error
  inside the indexer is a failed index, as the code treats it.  `retryCount`
  saturates at its limit.

### OAuthRefresh

- Credentials are numbered in the order the provider gives them out.  The provider is
  assumed to accept the newest refresh token only and to consume it, the
  strictest of the platforms' behaviours.
- `lock` records who set the Redis key; the code deletes it by key alone,
  so `ReleaseRefreshLock` removes whatever is there.  `run[p].locked` is what
  the process believes.
- `account.grok` chooses between the conditional updates of Grok accounts
  and the unconditional ones of all other platforms; both are initial states.
- The background refresher retries up to `MaxAttempts`; the request is
  ClaudeTokenProvider.GetAccessToken: cache, refresh, wait for the holder, version
  check, cache write.  `TokenVersion` is 0 for credentials that come from an
  authorization, which leaves `_token_version` out; a refresh by hand keeps the old
  one.  Which token is cached no guard looks at, so `cache` says only
  whether one is.
- An administrator's request (`admin`) takes no mutex and no lock, and each of its
  calls can fail.  `Authorize` is ApplyOAuthCredentials with new credentials: load
  the account, store, clear the error; a failed ClearAccountError is only
  logged.  `StartManualRefresh` and `RefreshSingleAccount` are the Refresh endpoint:
  the refresh token read at the start is used at the provider, then the row is loaded
  and stored without a condition (`UpdateAccount`).
- The histories read by HealthyNotDisabled: `uncleared`, an account in error was
  authorized again and its error was not cleared; `crossed`, a refresh by hand and a
  refresher worked at one time.
- Left out: the project id of Antigravity accounts (the Refresh endpoint keeps it, and
  clears an error that was about it), the batch form of that endpoint (it calls the same
  function for each account), the temporary block after a failed cycle, provider
  gates and circuit breaker, SK imports, privacy settings, the request providers
  of the other platforms, the scheduler cache.

### ConcurrencySlots

- `slots` holds the request ids whose score has not expired; `SlotExpires` is
  the passing of the TTL, with or without its request still running.
- A request is: acquire, touch the index, else count itself as waiting, poll,
  give up or go on, uncount, refresh the index (read, then write), run, release.
  Each script is one step, its answer may be lost, and the service's
  reactions (fail closed on acquire, fail open on the wait counter) follow.
- An instance starts by removing all slots that do not carry its own prefix, and
  the wait counter; its worker reconciles the index later.
- Left out: live leases, WebSocket ingress leases, API-key statistics,
  the cached load batches and the sweep of legacy wait keys.  Accounts use the
  same scripts under other keys.  The wait counter's TTL is taken to be longer than
  the longest wait (`repository/wire.go:18-27` derives it from the timeouts).

## 3. Runs

| Run | Configuration | Checks | Shows |
|---|---|---|---|
| payment_order | PaymentOrder.cfg | TypeOK, DeliveredAtMostOnce, DeliveredOnlyIfPaid, CompletedIsSettled, PaidIsFinal, ImplementsPromise | An order, of balance or of a subscription, created by a request that may fail before or after the provider has it and handled by two overlapping handlers with every failure, crash, stalled worker and lost read: delivered at most once, only if paid, never taken back, and PaymentPromise is implemented. |
| payment_liveness | PaymentLiveness.cfg | PaidIsCompleted, PendingIsResolved | With a creation that may fail, one failure, crash or stalled lease holder at any point and a provider that repeats unacknowledged notifications, every paid order completes, one with a failed creation too, and no order stays pending. |
| refund | Refund.cfg | TypeOK, OneDeduction, HeldOnlyWhileRefunding, RefundedIsReturned, RefundedIsFinal | Two admin requests refund, retry and finalize one order while the user spends, under every fault: until a rollback fails or a late failure is written over the order, one deduction at a time is held and is put back before the next, and a final refund stays final; money shown as refunded has been returned, whatever happened. |
| refund_stale_failure (violation) | RefundStaleFailure.cfg | NeverDeductedTwice | A stale query writes REFUND_FAILED over a refund that another request has carried out meanwhile, and the next refund deducts again. |
| idempotency_key | IdempotencyKey.cfg | TypeOK, OnceUntilExpiry, ReplayMatchesPayload | Three requests with two payloads under one key race, fail, retry after the backoff, die at every step and outlive their record: until the record expires the write takes effect at most once, and a replay never answers the other payload. |
| idempotency_expired_race (violation) | IdempotencyExpiredRace.cfg | OncePerRecord | Two requests find the same expired record; the second reclaims the record the first has already renewed and executes the write again. |
| system_lock | SystemLock.cfg | TypeOK, ExclusiveUntilLapse, LockedUntilLapse | Two operations with the same or different operation ids hold the lock for up to twice its lease, with operations that die and two renewals that fail: one runs at a time and its record stays its own, until one that reclaimed another's record outlasts the lease or more renewals in a row fail than it survives. |
| system_lock_takeover (violation) | SystemLockTakeover.cfg | HeldIsLocked | An operation that reclaims the record of an earlier one is never renewed: its lease runs out while it runs. |
| batch_image | BatchImageJob.cfg | TypeOK, HoldEndsOnce, ChargedIsCompleted, HoldIsPursued, SweptIsStopped, QueuedJobEnds | A job with two workers, a user who cancels and the recovery sweep, and any two failed calls, lost answers, crashes or lost leases: the hold ends once, the user pays exactly for completed jobs, one failed call leaves the hold with somebody or with QUEUE_FAILED on the row, and a queued job ends. |
| batch_image_early_cancel (violation) | BatchImageEarlyCancel.cfg | ClaimedReleaseHasReturned | Without any failure: a Cancel between the creation of the job and its hold claims the release, and the release of the hold made afterwards is taken for a repetition. |
| oauth_refresh | OAuthRefresh.cfg | TypeOK, HealthyNotDisabled, StoredIsUsable, OneRefresher, DueIsRefreshed | Two instances and a request refresh one account, Grok or not, while an administrator authorizes it again or refreshes it by hand, step by step and without the lock, and one call fails, one answer, lease or instance is lost: one refresher at a time, no usable refresh token is overwritten, no healthy account is disabled except by the named races, and a due token is refreshed. |
| concurrency_slots | ConcurrencySlots.cfg | TypeOK, SlotLimit, QueueBound, AllReturned, LeftoversGo | Three requests of a user with one slot and one place to wait, on two instances that crash and start: the limits hold, everything is given back, and what a crash or a lost answer leaves behind goes in the end. |

Runs that are expected to end in a violation document where a doc, comment,
message or test says more than the code does; each has an entry under
"findings" with the quotation:

- *refund_stale_failure*: REFUND_FAILED is written without a condition over a
  refund that has been carried out.
- *idempotency_expired_race*: the reclaim of an expired record does not check
  that it is still expired.
- *system_lock_takeover*: TryReclaim leaves `request_fingerprint` of the lock's record as
  its creator wrote it, and the renew loop compares it with its own operation id
  (`system_operation_lock_service.go:175`).  An operation that reclaims the record is
  therefore never renewed ("locked_until should be renewed while lock is held",
  `system_operation_lock_service_test.go:65`), and after a lease it is joined by another.
- *batch_image_early_cancel*: a release without a hold keeps its claim, so that
  the release of the hold made afterwards is taken for a repetition.

Divergences seen while modelling that no run is spent on.  Payment, idempotency and
lock:

- `docs/PAYMENT.md:260` says "If the user has actually paid but the callback was
  delayed, the system will reconcile automatically".  When the provider cannot be
  queried at expiry the order is expired all the same (`CancelCore`), and a
  callback more than five minutes later is acknowledged by the EXPIRED branch of
  `AlreadyProcessed` without paying the order.
- `payment_refund.go:307-308` says "Skip balance deduction on retry if previous
  attempt already deducted but failed to roll back".  When the provider answers
  such a retry with pending, markRefundPending rolls back nothing, which counts
  as a success (650-651), and the finalization deducts a second time.
  OneDeduction and HeldOnlyWhileRefunding therefore end with the first rollback that
  fails.
- finalizeRefundFailed writes REFUND_FAILED without a condition
  (`payment_refund.go:559`), also when the provider's answer to the query cannot be
  read (451-453, 470-471), and so reopens a refund that is final.  RefundedIsFinal says
  that it is the first to do so.
- `CreateOrder` writes FAILED without a condition when invokeProvider fails
  (`payment_order.go:105-112`).  If the provider has the order, it can still be paid:
  the webhook then fulfils it out of FAILED (`AlreadyProcessed`), and it completes
  without paid_at.  Without the webhook nothing does: VerifyOrder and the sweeps
  look at PENDING and EXPIRED orders, RetryFulfillment demands paid_at.  And should the
  payment be fulfilled before the creation fails, FAILED hides COMPLETED: the exception of
  PaidIsFinal.
- The comment above markFailed's write says "The lease version prevents a stale
  worker from overwriting a newer owner".  The version is read back
  after the acquiring UPDATE (`ReloadLease`), so a worker that stalls for five
  minutes in between adopts its successor's version.  The delivery is
  safe all the same: DeliveredAtMostOnce does not rest on the lease.
- The refund dialog offers "Deduct Balance" as a choice.  It is not stored; a
  refund without deduction that becomes pending is finalized with one
  (`LatestRefundPendingDetail`).
- `config.go:188` describes processing_timeout_seconds as the timeout of the
  processing lock.  `Execute` refuses every request that finds a processing
  record before expires_at (`Decide`); locked_until only fills retry_after.
- The comment at VerifyOrderByOutTradeNo speaks of "recently expired" orders
  where every EXPIRED order is accepted.
- `docs/ADMIN_PAYMENT_INTEGRATION_API.md:171` says a missing Idempotency-Key is
  refused, which is true only when `observe_only` is off.

Batch image jobs (the properties exclude these by their premises or bounds):

- `docs/BATCH_IMAGE_MVP.md:170`: "After the retry limit is reached, the job is
  failed and the remaining hold is released".  If a capture is committed and its
  answer is lost, and the repetitions fail until the retries are exhausted, the
  release is made on top of the capture: the two have different request ids.
  It takes `MaxRetries` troubles, and HoldEndsOnce and ChargedIsCompleted are
  stated for fewer (`FewTroubles`).
- A worker that fails to index the results and then loses both its leases, of the active
  set and of the lock, still asks for the transition to failed
  (`WorkerTransition`, "toFailed").  Another worker may have indexed the job and
  captured its hold meanwhile; CanTransition lets settling become failed, and the
  user is charged for a failed job.  It takes two lost leases and a failed call,
  the other half of `FewTroubles`.
- A Cancel that read the job before its provider name was written cancels and
  refunds a job that runs at the provider.  The submission notices it
  (`AbortOrphanProviderJob`) unless the update came first; SweptIsStopped is
  therefore about the sweep.
- A worker that lost its lease twice may read a job as settling in
  BatchImageProviderProcessor.Process, where isBatchImageProcessorDoneStatus takes settling for
  done; it acknowledges the job, which then is in no queue.
- `docs/BATCH_IMAGE_MVP.md:235` takes it that "failed submit releases hold".  When the
  provider has the job and Enqueue fails (`batch_image_public.go:391-393`), the job
  stays submitted with QUEUE_FAILED, is in no queue and is not swept by the recovery;
  its hold stays until the client cancels, or repeats the request if it came with the
  optional idempotency key.  It is the exception of HoldIsPursued.
- A crash, or a lost answer, between the transition to a terminal status and the
  release leaks the hold until the user cancels again or the job is
  queued (HoldIsPursued is about failed calls).

OAuth refresh:

- The lock is deleted by key (`gemini_token_cache.go:46`): a refresher that outlives its
  lease removes its successor's lock, a third one enters, and a healthy account may be
  disabled.  HealthyNotDisabled and OneRefresher therefore exclude lost leases.  When Redis
  fails the refresh goes on without the lock, with the same result; StoredIsUsable holds
  in that case too.
- For all platforms but Grok, SetError and the credentials' update are
  unconditional: a refresher that is told invalid_grant because an administrator
  has just authorized the account again disables it, or overwrites the new
  credentials.  HealthyNotDisabled and StoredIsUsable state it for Grok, and for the
  others without re-authorization.
- ApplyOAuthCredentials stores the credentials and then clears the error.  If the latter
  fails it is only logged (`account_handler.go:1539-1543`), and if the request ends
  before it nothing is: an account with the newest credentials stays in error
  (`uncleared`).
- The Refresh endpoint (`account_handler.go:1266-1406`) takes neither mutex nor lock and
  its update has no condition.  It consumes the refresh token a refresher is
  about to use; that refresher is told invalid_grant, and if it looks at the row before the
  endpoint has stored the new credentials, it disables an account that is healthy a
  moment later (`crossed`).
- A refresher that finds the lock held gives up for its cycle, and requests take the
  lock too but never disable an account: with a dead refresh token,
  a steady stream of requests can keep the background refresher from disabling it.  Hence
  the premise of DueIsRefreshed.
- `token_cache_invalidator.go:71-73` says the version check keeps an asynchronous
  task from overwriting the cache with an old token.  The check and
  the write are two steps, and credentials of a re-authorization carry no version, so an old
  token can still be cached until its TTL.

Concurrency slots:

- `concurrency_cache.go:1242` removes the wait counter at start because it belongs
  to dead processes.  With a second instance alive it does not, and its live
  slots are removed as well: SlotLimit and QueueBound exclude that start.
- IncrementWaitCount fails open, but the deferred decrement runs all the same and
  takes somebody else's count.
- refreshActiveIndex reads the load and removes the entry in two steps, so the entry
  of a live slot may go; the slot is then removed by its TTL only.

### Why the bounds are enough

- Payment: orders do not interact in this code (each statement names one order
  id), so one order at a time is enough: payment_order offers one of each kind and
  its constraint `OneOrder` lets one of them be created.  Two workers give every
  pair of racing handlers; while the creation is under way `CreatedAlone` lets one
  of them work.  payment_liveness has a balance order, whose delivery
  has more steps, and no backfill of trade numbers.  The theorems cover any numbers.
- Refund: two requests give every race of refund, retry and query;
  `Amount = 2` makes a partial refund and a clamped deduction possible.
  `OpeningBalance = 3` with an overdraft of 1 is enough for two full deductions, without
  which OneDeduction could not fail.  All five faults are on.  `OneIncident` ends the search
  where both kinds of incident have happened or the books already show the loss: only
  RefundedIsReturned speaks of such states, and it is proved for all.
- Idempotency: three requests are an owner, a retry and a late one, two payloads
  a right and a wrong one.  A request may last as long as a record (TTL = 2 =
  MaxDuration), so one that started first can mark a record that the cleanup
  deleted and another payload created anew.  In the expired-race run
  `MaxDuration` is 0 so that the violation cannot be blamed on slow requests.
- Lock: lease, interval and TTL keep the code's proportions (the interval is a
  third of the lease); holding for two leases makes renewals necessary.  Two
  operation ids and two operations give a lock created, reclaimed with the same id and
  reclaimed with another's; `Tolerated = 1` is what a lease of three intervals
  survives, and `MaxMissed = 2` one failure more.
- Batch: jobs share the balance and nothing else, so one job beside `OtherHolds`
  is enough; two workers race for it after a lost lease; `InitialBalance` covers
  the hold; a cost of 3 above a hold of 2 is one Settle refuses, so the retries and the exhausted
  settlement happen.  Two troubles allow a failure during the
  handling of another.  The violation needs none.
- OAuth: one account (accounts share nothing but limits); two instances contend
  for the lock, the request shares a mutex with one of them; three generations of
  credentials, one of them obtained by an administrator beside the first
  (`MaxByHand = 2`), let a refresh cross a re-authorization or a refresh by hand; one
  trouble at any place, because the properties already fail by the divergences above with
  certain pairs.  The constraint `RetriesAlone` allows a refresher's second attempt
  where no administrator has acted.  The theorems have none of these bounds.
- Slots: with one slot and one place to wait, three requests are a holder, a waiter and
  one turned away; two instances give a crash and a start beside another.
- `CHECK_DEADLOCK FALSE` everywhere: an order, a refund and a bounded clock
  really come to an end, and so do a job and a bounded number of requests.
- Symmetry is used in safety runs only, over processes and fingerprints that
  no constant distinguishes.

### Fairness

PaymentFulfillmentLiveness:

- Weak fairness of the steps of a running handler: goroutines that do not die
  run on.  Faults (failing calls, crashes, five minutes passing while a worker
  has the lease) are at most `MaxFaults`: a handler that always fails completes
  nothing.
- Weak fairness of the passing of time.
- Strong fairness of `Redeliver` (a provider repeats a webhook until it is
  acknowledged, which is their documented protocol and the reason the endpoint
  answers errors) and of `Sweep` (the background service visits timed-out
  orders periodically).  Strong, because the model has a fixed number of
  workers that other requests may occupy for a while; the server starts a new
  goroutine for each.
- No fairness for user actions, administrators or the reconciliation of orders
  that are not yet due.

No sweep recovers a PAID or RECHARGING order: only repeated webhooks,
VerifyOrder and the admin's retry do.  That is why PaidIsCompleted has the
premise that the webhook is still unacknowledged.

BatchImageJob: weak fairness of a submission, a cancellation and the sweep once begun,
of each worker, of the delayed mover and the stale-active recovery (the loops of
`batch_image_worker_runtime.go`), of a lock's TTL when nobody renews it, and of the
provider, which ends its jobs.  None for a user's cancel.  QueuedJobEnds allows for
one lost lease.

OAuthRefresh: weak fairness of the refreshers (their ticker) and of the lock's TTL.
None for requests and administrators, nor for time reaching the refresh window.
DueIsRefreshed has the premise that the requests pause.

ConcurrencySlots: weak fairness of requests that have begun (they have timeouts), of
the TTLs, and of instances: one that died is started again, and its cleanup worker
ticks (`concurrency_service.go:724-749`).

## 4. Proofs

All proofs are checked by TLAPS; nothing is assumed but the named assumptions
on the constants.

**PaymentFulfillmentProofs** (any sets of orders and workers, any
disturbances).  DeliveredAtMostOnce is not inductive: it needs to know what
each worker may do next.  `IInv` has four parts: TypeOK; `LedgerInv`, the
counters are 1 exactly when the record that makes the delivery idempotent exists
(`Granted`: the used code, or the assignment row; the rebate row), and only for
orders paid at the provider; `RowInv`, what the status says about paid_at, the
provider and the delivery (an order with a failed creation may be delivered without
paid_at, so it is the delivery itself that keeps the order from being closed as unpaid);
and `WorkerInv`, what a worker may rely on at its place, whatever others did since it
looked.  The lemmas *LedgerWriters*, *GatewayWriters* and *RowWriters* say which
actions change what, *Stability* and *StatusStays* that ledger facts and a paid status are
never taken back, so that
other workers' steps keep a worker's part (*OthersStay*) and each worker's own
step is one case (*WorkerStep*).  From `IInv` follow DeliveredAtMostOnce,
DeliveredOnlyIfPaid, CompletedIsSettled, PaidIsFinal and, with *PromiseStep*,
that the specification implements PaymentPromise.

**PaymentRefundProofs** (any number of requests, any amounts, any faults).  `IInv` has
three layers.  Always: TypeOK, `AmountInv` (a refund that can be finalized has an amount)
and `ReturnedInv` (who is about to write a final status knows that the money is
returned).  Until a late failure is written over the order: `OwnerInv`, at most one
request is between its claim and its final write, and then the row says REFUNDING.
Until any incident: `DeductionInv`, what is deducted is the owner's plan while it holds
the deduction, and nothing while the order may be refunded.  *IncidentsGrow* makes the layers
inductive.  From it: RefundedIsReturned under all faults, RefundedIsFinal (only
finalizeRefundFailed is the first to reopen a final refund), OneDeduction and
HeldOnlyWhileRefunding (before an incident).

**IdempotencyProofs** (any number of requests, any TTL, timeout, backoff and
durations).  `IInv`: `TimeInv`, nobody is ahead of the clock; `PayloadInv`, ids are
not reused and a request that knows the record's id has the record's payload,
so what is stored was computed for that payload; `OnceInv`, until a
record expires one request at a time is between its claim and its mark, and
none may execute after an effect (a record left processing by a crash
stays so).  From it: TypeOK, OnceUntilExpiry,
ReplayMatchesPayload.

**ConcurrencySlotsProofs** (any numbers of instances and requests, any limits).
The properties count requests, and a request may have given up, died or never been
told what the script did; `IInv` says who has something to give back, and what of it
is in Redis.  `LabelInv`: what a request remembers at each call; `HomeInv`: it lives on
an instance that serves; `AloneInv`: unless one was started beside another there is one
instance; `CoveredInv`: what a request means to give back is in Redis, as long as
nothing expired, failed open or was removed by a starting instance; `OwnedInv`:
what is in Redis somebody will give back, as long as nobody died and Redis answered.
SlotLimit and QueueBound follow from the first direction, AllReturned from the second.

**OAuthRefreshProofs** (any numbers of instances, requests, credentials,
administrators' requests and troubles).  The many steps of the two handlers have one of
eight effects on what the others see: they read, rotate the
credentials at the provider, lose them, are rejected, store, drop, disable, or
do nothing; the administrator's have seven of their own.  A step is classified first and the invariant
is shown to survive each effect.  Its parts: `OrderInv` (credentials are known only after
they were given out, and an administrator's only to him until they are stored),
`FreshInv` (new ones are known only to the process that stores them), `MutexInv` and
`LockInv` (who is in the critical section holds both locks), `StoredInv` (the newest
credentials are in the row or on their way), `GrokInv` and `DeadInv` (the credentials an
account is about to be disabled for are dead, nobody is about to replace them, and beside a
refresh by hand that has crossed no refresher nobody refreshes).
From it: OneRefresher, HealthyNotDisabled with its exceptions `crossed` and `uncleared`,
and StoredIsUsable, which needs neither.

**SystemOperationLockProofs** (any operations, any operation ids and any times with
`MaxAcquire + (1 + Tolerated) * RenewInterval < Lease`; the code satisfies it for
one tolerated failure, its interval being a third of the lease).  A holder either has its own
id on the record and is renewed, or borrows another's record and has a single
lease.  `IInv` bounds the age of the lease by the clock until `lapsed`: `HolderInv` from the
acquisition, `BorrowInv` for borrowed records, `RenewInv` from the last renewal and the
failures since, together with MutualExclusion itself.  From it: TypeOK always,
ExclusiveUntilLapse and LockedUntilLapse.  After a lapse both are false
(*system_lock_takeover*).

**BatchImageProofs** (any number of workers, costs, amounts and troubles; `MaxRetries`
at least 2, 5 in `batch_image_settlement.go:21`).  A worker's label is what it
remembers of a row that others write.  `Rely` lists what no step undoes (a name given,
a job ended, a cost fixed once the job settles, a claim made, an ended
provider job), so that what a process knows survives the steps of the others,
and each process's own steps are looked at one by one.  `StructInv` holds under any troubles:
`NamedInv` and `SubmitInv` (how far Submit is when the job has a provider's name),
`EndInv` (who releases has seen the job end), `WorkerInv`, `SettleInv` (what the
workers know).  `QueueInv`: the queue and the lock each exclude a second
worker, and one lost lease breaks at most one of them; `IndexInv` follows, that the job is not
settled under the hands of a worker that may fail it.  `BooksInv`, for `FewTroubles`:
`ReleaseInv` and `ChargeInv` (released and charged exclude each other), `RetryInv` (every
counted failure of a capture was a trouble, so retries are exhausted only
by jobs that cost more than their hold), `MoneyInv` (what the claims say is
frozen).  HoldEndsOnce and ChargedIsCompleted need all of it.  Two more invariants
rest on it: `SweepInv` for SweptIsStopped, and `PursuitInv` for HoldIsPursued, which says who has the
job after one failed call (or that it is QUEUE_FAILED) and that a worker acknowledges it
only when the hold has ended.

Every inductive invariant was checked by TLC on the constants of the component's
run before it was proved.

Only model-checked: the liveness properties PaidIsCompleted, PendingIsResolved,
QueuedJobEnds, DueIsRefreshed and LeftoversGo (fairness is outside this prover's
reach).  Every invariant, every action property and the refinement that the passing
runs check is also a theorem.

## 5. Plan

Done: payment fulfilment and refund, the idempotency coordinator, the system
operation lock, batch image jobs with their holds, OAuth refresh, concurrency
slots.  Their safety is proved.  Next, in this order:

1. An abstract specification of a hold (reserved, then captured or released once) that
   BatchImageJob implements while `FewTroubles`, and one of a lease for the
   system operation lock.
2. **PaymentSystem**: fulfilment and refund over one shared row and balance, and
   refunds of subscriptions.
3. **UsageBilling**: the charge of a request, the archive of claims, the queue with
   its overflow policies and the cached balance.
4. **SchedulerOutbox**, **AuthInvalidationOutbox**, **LeaderLock**,
   **UserMessageQueue**, **QuotaFlusher**: smaller protocols over Redis and
   Postgres.

Hazards known in those parts: the pending-order and daily limits are counted
before the insert (`payment_order.go:242`); the choice not to deduct is lost when a
refund becomes pending (`payment_refund.go:524`); a stored response is cut
(`idempotency.go:451`); a usage record is applied again after its claim was
archived (`usage_billing_repo.go:67`), or dropped by a full queue
(`usage_record_worker_pool.go:178`); the scheduler's watermark passes ids that commit later
(`scheduler_snapshot_service.go:411`); a reader puts an old key back after its
invalidation (`auth_cache_invalidation_outbox.go:187`).

## 6. Not modelled

Most of the repository's lines are generated code (`ent`), protocol conversion between
the APIs of AI providers, payment provider clients, HTTP handlers and
the frontend.  They transform data or do I/O; they keep no state that
interleaves, and a model of them would restate the formats.  The map therefore covers
the coordination code listed above and a small share of all lines.  What is left out within
a modelled part is said under each module in section 2.

## 7. Running

    tlc -workers 2 -config PaymentOrder.cfg MCPaymentFulfillment
    tlc -workers 2 -config BatchImageJob.cfg BatchImageJob
    tlapm PaymentFulfillmentProofs.tla
    tlapm BatchImageProofs.tla
