# Formal models of the vesting stream system

TLA+ specifications of this repository: the Soroban vesting contract
(`src/src/*.rs`), the event indexer that mirrors its events into PostgreSQL with
the jobs that write the same tables, the queue, middleware, socket endpoints and
outbound clients of the backend (`src/backend/src/`), the Lambda that verifies the
backups, and the parts of the front
end in which calls overlap (`src/frontend/src/`). TLC checks them on small
instances; for every value of the constants, TLAPS proves every invariant that a
passing run checks and every action property, except where a property joins it to a
liveness part (section 5).

## 1. The system

| Component | State | Operations | Hard behaviour |
|---|---|---|---|
| Contract storage (`storage.rs`, `types.rs`, `migration.rs`) | schedules under a legacy key and a per-id key, variable-rate schedules, sponsor index, settings | get/set/remove of each, migration on read | two keys for one schedule |
| Fixed-rate streams (`contract.rs`) | rate, start, cliff, end, claim pointer, claimed amount, pause ledger | create, claim, pause, resume, cancel, transfer, clawback, two drains, fee and governance settings, views | any order of calls; unsigned subtraction and saturating addition of ledgers |
| Variable-rate streams (`contract.rs`) | list of rate segments, claim pointer, total | create, claim, view | segment boundaries, last claim computed differently, one vault for all |
| Event indexer (`indexer/`) | cursor row, event rows, balances, stream status, one timer | start, stop, tick = read cursor, fetch, filter, transaction, cursor write | crash between commit and cursor write; unknown outcome of COMMIT; stop/start while a tick is in flight; tip older than the page |
| Expiry job (`jobs/streamExpiry.ts`) | the status column | bulk UPDATE | races the indexer on the same rows |
| Balance reconciliation (`jobs/balanceReconciliation.ts`) | the balance rows | SUM, SELECT, UPDATE outside a transaction | a claim committed in between |
| Job queue and worker (`jobs/jobQueue.ts`, `workers/jobWorker.ts`) | job records, one list, a running flag | enqueue, worker loop, start, stop | two commands per enqueue, two nested catch blocks, two loops after a restart |
| Status service (`streamStatusService.ts`, `terminalEventHandlers.ts`) | status column, terminal details, audit rows | transition, terminal handlers | lock released between SELECT and UPDATE |
| Circuit breaker (`horizonCircuitBreaker.ts`), RPC pool (`rpcPool.ts`) | breaker state; node health, rotation index | execute, report, override; pick, report, health check | answers that arrive after the state has changed |
| Idempotency, rate limits (`middleware/`) | kept responses; counter; bucket | middleware | check, then act; three commands; rounded fractions; clocks of several replicas |
| Webhooks (`webhookWorker.js`) | registrations, delivery log | register, dispatch, retry | an endpoint that took the payload and answered too late |
| Stream sockets (`wsStreams.ts`) | connections, places per address, buffer, subscriptions | publish, connect in five steps, heartbeat, cleanup | events between replay and subscription; a close during set-up |
| Ledger sockets (`ws.ts`) | registry, ledger stream | subscribe, sweep, broadcast | clients that move or close during a broadcast |
| Backfill (`admin/backfill.ts`, `scripts/backfill_stream_events.ts`) | event rows, job rows, a resume cursor | run, fail, resume, reconcile | two writers with opposite answers to a conflict |
| Migrations (`migrate.ts`) | schema, advisory lock | boot of several replicas | what is pending is read before the lock is won |
| Shutdown (`server/shutdown.js`) | in-flight count, timer | signal, wait, teardown, exit | forced exit racing the teardown; an event loop with nothing left |
| On-chain reconciliation (`jobs/reconciliationJob.ts`) | mismatch rows, run rows | compare, record, commit | a record outside of the transaction |
| Notification job (`jobs/notificationJob.js`) | a key in Redis | run by cron, dispatch, retry | executions that outlive the key or die with it |
| Backup verification (`infra/lambda/backup-verify`) | temporary databases, the published metric | restore, count, delete, clean up | killed anywhere; restores that fail, never end or whose answer is lost |
| Transaction hook (`useTxStatus.ts`) | phase, hash, stored hash | begin, poll, reset, reload | polls that outlive their submission |
| Wallet and dashboard (`WalletContext.tsx`, `StreamDashboardClient.tsx`) | address, stream shown | connect, load, claim | answers in any order, for an address that has changed; aborted loads |

Interactions. The contract emits events; Horizon serves them in pages; the
indexer decodes and persists them and updates balances and status in one
transaction per page; the expiry job and the reconciliation job write status and
balances independently; the API reads the tables. The backfills write the same
event table without the balances. The remaining components share no state with
these or with one another: they meet only in a process, a Redis server or a
database whose other keys and tables they do not touch.

What makes each component correct is the list of properties in section 4;
what is hard to test about each is the hazard list in `PROJECT.json`.

## 2. Modules and how they correspond to the code

| Module | Models |
|---|---|
| `StreamStatus` | the transition table of `streamStatusService.ts` and the database trigger of migration 008 |
| `StreamIndexer` | poll loop, Horizon client, decoder, persistence, balance tracker, expiry job |
| `BalanceReconciliation` | composes `StreamIndexer` with the reconciliation job |
| `StreamIndexerProofs` | theorems about `StreamIndexer` |
| `ContractStorage` | storage keys, the token contract and the ledger, shared by both kinds of stream |
| `FixedRateStream` | the fixed-rate calls of `contract.rs` |
| `FixedRateAccrual` | `FixedRateStream` with a history variable for running time, and its properties |
| `FixedRateProofs` | theorems about `FixedRateAccrual` |
| `VariableRateStream`, `VariableRateProofs` | the variable-rate calls and their properties; theorems |
| `FoldTheorems` | induction, folds and sums: lemmas the proofs share |
| `JobQueue`, `JobQueueProofs` | queue and worker; theorems |
| `JobPromise` | what the queue promises a caller, without lists, loops and Redis |
| `JobQueueRefinement` | the theorem that `JobQueue` implements `JobPromise` |
| `StatusService` | terminal handlers, `transitionStreamStatus` and the audit trail |
| `CircuitBreaker`, `RpcPool` | outbound calls to Horizon and to RPC nodes |
| `RateLimit`, `TokenBucket`, `Idempotency` | middleware |
| `Webhooks`, `WsStreams`, `LiveUpdates` | deliveries and the two socket endpoints |
| `Backfill`, `ChainReconciliation`, `Migrations`, `Shutdown` | operations |
| `NotificationJob`, `BackupVerify` | the notification job; the backup verification and its cleanup |
| `TxStatus`, `Dashboard` | the front end's transaction hook, wallet session and dashboard |
| `EndpointProofs` | theorems about `LiveUpdates`, `Idempotency`, `RateLimit`, `WsStreams`, `TokenBucket`, `RpcPool` |
| `BackgroundProofs` | theorems about `ChainReconciliation`, `NotificationJob`, `BackupVerify`, `StatusService`, `Backfill`, `Migrations` |
| `MC*` | instances for TLC |

`PROJECT.json` maps every definition to its lines. Definitions named
`X_Something` beside a definition `X` are deliberately wrong variants of `X`
that show the properties can fail; no specification uses them.

**Indexer.** A tick is split at its awaits; `pc[l]` says where the tick in slot
`l` stands. A second slot is the old tick that `stop()` leaves in flight when
`start()` is called again: both share `running`, `timer`, the cursor row and the
tables. A transaction works on the copy `work` and `CommitTxn` installs it;
`Rollback` throws it away. Transactions, the expiry UPDATE and the
reconciliation UPDATE are serialised on `owner`. In PostgreSQL they may overlap
until they meet a row lock or the unique index on `tx_hash`; statements before
that point do not read what the other writes, so every overlapped execution has
the effect of a serial one. `ConnectionLost` at COMMIT has both outcomes. Paging
tokens are positions in the chain. Lengths of delays, metrics and log lines are
left out; a back-off is a timer that fires later.

**Contract.** A call is one transaction: it is one action, and an error is a
disabled action. `get_schedule` migrates a row of an older schema and writes it
back under the new key; the handlers that find a row go on to store or remove it,
so the write-back is visible by itself only in `MigrateSchedule`. `total_claimed`
and `claimed_amount` always change together and are one field. TTL renewal, the
reentrancy lock (free between calls), allowlists, stream metadata and event
emission do not affect the modelled state. `RATE_DECIMALS` is scaled to 10.

**Job queue.** `StoreJob` and `PushJob` are the two commands of `enqueueJob`;
the loop is split at its awaits; `CommandFails` sends each failing command to
the catch block that encloses it, and a failed command may have been carried out.

`Place` maps the state of the queue to the abstract one of `JobPromise`: an id in
the list is waiting, one in a loop is taken, one whose handler was called ran.

**Handlers split at their awaits.** In the TypeScript modules a step is what runs
between two awaits, since nothing else runs in that process meanwhile; a Redis or
SQL command is a step of its own when another process may come in between. A
command that fails may have been carried out where the protocol leaves that open.
History variables (`tripped`, `quarantine`, `missed`, `refusal`, `received`,
`forgotten`, `wentBack`, `roundings`) are written by the actions and read by the properties only.

**Time.** Windows count ticks. `openFor`, `window` and `age` are what is compared
in the code (a difference of `Date.now()` values), capped where no comparison tells
larger values apart.

**Token bucket.** The script computes with doubles. The model counts whole units of
1/(`Window` * `Grain`) of a token and leaves the rest of a unit out, so that the two
comparisons and the subtraction of 1, which is exact, are those of the script. Each
rounded result is a choice among the neighbouring units: a refill is off by one unit
at most, the quotient of `retry_ms` too. That covers the doubles while
7 * `Capacity` * `Window` * `Grain` < 2^53 (a rounded rate, product and sum over at
most three windows): at 60 requests a minute `Grain` may be 3 * 10^8, and the refill
of a millisecond is then 10^10 units. Requests carry the `Date.now()` of the replica
that handles them, any of `Clocks`; `updated_at` may go back, which `math.max` hides
and the next refill counts twice.

**Shutdown.** `resources` stands for everything but the connections that keeps the
event loop alive; the forced-exit timer is unref'd and does not (`LoopAlive`).

**Status service.** A handler runs in the transaction of its page and holds the row
lock throughout: one step. A caller that passes a pool has three transactions, and
`direct` remembers the status it read in the first.

**Stream sockets.** `conn[c].pc` is the await at which the handler stands. A close
calls `cleanup` at once; the handler goes on afterwards with a closed socket, as
in the code. `endedIn` remembers where that was.

**Backfill.** The admin job inserts with DO NOTHING and the script with DO UPDATE.
A row is named by its transaction and remembers which record it came from and
whether the corrected decoder wrote it.

**Migrations.** `node-pg-migrate` is external: its advisory lock, its own reading
of the table and its single transaction are modelled from how `migrate.ts` uses it.

**Notification job.** An execution is split at the taking of the key, the query, each
stream and the release. `DEL` removes the key whoever set it, as in the code;
`outlived` remembers that a key expired under an execution at work.

**Backup verification.** One execution at a time, as the deployment reserves; it is
split at its commands to RDS. `instanceId` is assigned only when the restore has
returned, so the finally block does not know of a restore that failed or timed out.
RDS is external; its listing is taken to return the instances the code asks for.

**Front end.** `attempt[i]` is one call of `begin` and lives on after a reset; the
hash in localStorage survives a reload. Loads of the dashboard carry the version of
the stream they read, so that an overtaken answer can be told from a new one. The
load that an address change aborts ends later and sets null; `AbortedReturns` may come
at any time after that, though a browser rejects the fetch at once.

### Assumptions about the code base

- `contract.rs` carries the remains of merges and does not compile as it stands:
  some functions are defined twice and some are cut. Each function is modelled
  from its own text and, where there are two definitions, from the first
  (`resume_stream`); both definitions of `compute_variable_claimable` are
  modelled and compared. Milestone, batch and multi-token calls have no complete
  text and are not modelled. `get_schedule_by_id` is called and not defined: it
  is external and looks up stream 0 the way `get_stream_ids` uses the keys.
- Rows under the legacy key come from an earlier deployment; `Init` holds any
  combination of a running, a claimed and a paused one. New streams are written
  under the per-id key with id 0.
- Migrations 006 to 008 are deployed, with the status trigger. No code in the
  repository inserts `vesting_streams` rows, so `Init` chooses them.

## 3. Runs

| Run | Instance | Properties |
|---|---|---|
| `indexer_safety` | 1 loop, 3 ledgers, page of 2, finality 1, 2 faults, five ledger contents | `BalancesMatchEvents`, `FinalityRespected`, `CursorAfterCommit`, `ForwardOnly` |
| `indexer_loops` | 2 loops, 2 ledgers, page of 1, 1 fault, fair | `PersistenceInv`, `CatchesUp`, `StopQuiesces` |
| `reconciliation_converges` | 1 loop and the job, 1 fault, fair | `EventuallyReconciled` |
| `variable_streams` | 2 recipients, 8 ledgers, `u32::MAX` = 9 | `VariableInv`, `VaultBacksVariable`, `DefinitionsAgree`, `StreamsComplete` |
| `fixed_safety` | 1 recipient, 2 sponsors, ledgers 3 to 8 = `u32::MAX`, fees 0 and 5 % | `ClaimedOnlyEarned`, `ViewReportsEarnings`, `PayoutsExact` |
| `fixed_two_recipients` | 2 recipients, ledgers 3 to 7, changing settings | `AccrualInvariant`, `IndexComplete` |
| `components` | each of eighteen components, see below | the rest of section 4 |

`components` explores the components that share no state. Its variable `focus`
chooses one, the others stay in an initial state, so its states are the disjoint
union of theirs: a property holds in it exactly when it holds of its component
alone, and the fairness of a component applies where it is the focus. Instances:

| Component | Instance |
|---|---|
| job queue | 2 jobs, 2 loops, 3 faults |
| status service | 2 cancellations, 1 clawback, 1 direct caller, any initial status |
| breaker; pool | 2 callers, threshold 2, 2 ticks, 2 overrides; 2 callers, 2 nodes, threshold 2, 2 checks |
| backfill | 1 job beside the script, 4 records in 3 ledgers (two of one transaction), pages of 2, 1 fault |
| migrations | 2 replicas, 2 migrations of which any are applied, 2 faults |
| window counter; bucket | 3 requests with limit 1, 1 crash; capacity 2 in 3 ticks, 6 units to a token, clocks 1 tick apart, 6 ticks |
| idempotency | 3 requests, with and without Redis, 1 fault |
| webhooks | 2 registrations, 1 event, 3 attempts |
| shutdown | 2 requests, 2 handlers |
| on-chain reconciliation | 2 runs, 2 streams, 2 faults |
| stream sockets; ledger sockets | 2 connections with limit 1, buffer of 2, 2 events; 2 clients, 2 recipients |
| notification job | 3 executions, 1 stream, 2 attempts, 2 faults |
| backup verification | 2 verifications and any number of cleanups, 2 tables, 2 faults |
| transaction hook; dashboard | 2 submissions, 1 reload, 1 reset; 2 addresses, a load of the timer beside the effect's and a claim's, 1 change |

Why the bounds are enough. A page of two over three ledgers makes the cursor
stop inside and between ledgers; finality 1 with a tip that may lag, or be 0,
gives pages that are all final, partly final and not final; two faults allow a
crash during the replay that a first crash caused. Two loops are what one
restart leaves; a third would repeat the interference of the second. The ledgers
of the contract runs reach from before the cliff of a new stream to past the
drain delay of a legacy one, and end at `u32::MAX` so that the saturating
additions of a resume saturate. Segment lists include lists that are valid only
before some ledger, cliffs past the end, and claims on, before and across
boundaries. Three faults in the job queue are enough for a failing handler write
whose two catch blocks fail too. In the other components two actors are enough for
every overlap of a step with an answer that was begun before it; a threshold of 2 is
the smallest at which one failure and the last failure differ; a limit of 1 with
three requests has one admitted, one refused and one that arrives in between; a
capacity of 2 in 3 ticks makes the refill and the waiting time fractions of a token,
and the two roundings that the refill of a tick makes good happen; the timer's load,
the claim's and the effect's overlap in any order;
the pages of 2 end inside a ledger and inside a transaction; three executions of the
notification job are what it takes for the release of the first to let in a third
beside the second. Symmetry is not used:
the runs are small, and several check liveness.

Deadlock is checked except in the contract runs, which end when the last ledger
is reached and no call is possible, and in `components`, where a process may exit and
the numbers of requests are bounded. In the indexer something can always happen: the
poll loop of a process that is not running can be started.

### Disagreements shown by a run

Five runs are expected to violate a statement of the documentation.

- `indexer_lost_events` (`NoEventLost`): the finality filter drops a record
  and the cursor is written past it (`StreamIndexer.ts:193`), so it is never
  fetched again; `docs/chaos/README.md:12` says that no events are lost.
- `indexer_cancel_after_expiry` (`TransactionCommits`): a cancellation of a
  stream that the expiry job has moved to `expired` is refused by the trigger and
  every retry of the page rolls back (`persistence.ts:198`); the handlers in
  `terminalEventHandlers.ts`, which would skip it, are not called.
- `reconciliation_race` (`BalancesMatchEvents`): a claim committed between the
  job's reads and its write is overwritten (`balanceTracker.ts:198`). A later run
  of the job repairs it, which is what `reconciliation_converges` shows.
- `fixed_overwrite` (`CreateNeverOverwrites`): a second `create_vesting_stream`
  for a recipient replaces the first stream (`contract.rs:365`).
- `fixed_resume_lost` (`PausedStreamsResumable`): `pause_stream` stores the row
  under the per-id key, where `resume_stream` does not look (`storage.rs:116`).
  What happens after a resume is therefore reached only from a legacy row that
  was paused before the first ledger.

### Further disagreements met while modelling

No run is kept for these; the models behave as the code does.

- Two events of one transaction: the second is dropped by
  `ON CONFLICT (tx_hash)` (`persistence.ts:55`).
- `StreamClawedBack` is persisted but does not change the status
  (`persistence.ts:130`, against the comment at `:10`); the UPDATE for
  `StreamDrained` is not valid SQL (`persistence.ts:178`).
- If the cursor row is missing, saving the cursor updates no row and the indexer
  starts from the beginning for ever (`persistence.ts:40`).
- `stream_status` and `claimable_amount` read the legacy key only: a new stream
  is `NotFound` (`storage.rs:130`).
- Both drains ignore a pause: a stream paused past its unshifted end can be
  drained (`contract.rs:1473`).
- A claim that completes a stream leaves it in the sponsor index
  (`contract.rs:922`), and increments the version twice (`:872`, `:1729`).
- The fee is taken at creation too (`contract.rs:332`, `docs/flows.md:210`).
- The deposit is divided by `RATE_DECIMALS`, payments are not
  (`contract.rs:2022`), so a vault that holds only the deposits cannot pay them.
- The second definition of `resume_stream` does not move the claim pointer and
  pays for the paused time (`contract.rs:1319`).
- A failed second command of `enqueueJob` leaves a record that stays pending
  (`jobQueue.ts:82`), and a job whose handler ran is recorded as failed when the
  write of its completion fails (`jobWorker.ts:132`). A job id taken by a BRPOP
  whose connection is lost is not seen again.

- An event published after the replay has read the buffer and before the
  subscription is active is not sent (`wsStreams.ts:420`, against the header at
  `:9`); `EventsInOrder` states what is left. A socket that closes during set-up
  leaves an interval or a subscriber behind (`:448`), which is why
  `PlacesGivenBack` speaks of connections that end after it.
- A ledger stream that ends without an error is not connected again
  (`ws.ts:138`), and clients that never subscribe are not swept (`:62`, against the
  header at `:18`).
- A Redis command that fails rejects the rate limiter's promise, which ends the
  process, where the header says it fails open (`rateLimit.ts:12`); a process that
  ends between INCR and EXPIRE blocks the key for good.
- `getClaimableBatch` is a placeholder, so every active stream is reported missing
  (`reconciliationJob.ts:173` says that it gives no mismatches). A COMMIT that fails
  after the record was saved leaves a completed run without its mismatches.
- The admin backfill stops at the page with the first event of `to_ledger`, so the
  rest of that ledger may be missing (`admin/backfill.ts:357`, against `:4`); and a
  claim that it inserts is a duplicate to the indexer, which does not add it to the
  balance (`:299`).
- A client that waits exactly as long as `X-RateLimit-Reset` says may be refused
  (`tokenBucketRateLimit.ts:51`, against "Seconds until next available request" at
  `:23`): refused attempts every 100 ms at 60 requests a minute add ten times 0.1 to
  0.9999999999999999. And two replicas whose clocks differ by d that take turns on a
  key earn the tokens of d again with every turn (`:44`).
- A teardown handler that never settles, when nothing keeps the event loop alive, ends
  the process with exit code 0 before the forced exit (`shutdown.js:82`), where the
  test expects 1 of a stuck handler (`shutdown.test.js:61`); its handler holds a timer.
- A load that is aborted when the address changes answers null, which is shown as "No
  Vesting Stream Found" until the next load (`StreamDashboardClient.tsx:83`, `:167`).
- Two requests with one idempotency key that overlap both run
  (`idempotency.ts:80`); `RetryIsReplayed` is about retries that do not.
- A failed silent reconnect keeps the stored address (`WalletContext.tsx:84`), and
  one that answers after a disconnect restores it.
- An identity transition rewrites the cancellation details
  (`terminalEventHandlers.ts:49`).
- A loser of the migration lock serves at once, on the old schema
  (`migrate.ts:149`).
- A notification job that takes longer than 240 seconds deletes the key of the next
  one when it ends (`notificationJob.js:138`). A cliff at the current ledger is
  selected by the query but announced as the end of the stream (`:95`).
- The finally block deletes no instance whose restore failed or timed out
  (`backup-verify/index.js:376`, against the comment at `:331`): the next preflight
  or cleanup does. That preflight throws if the instance is being deleted already,
  and the verification then publishes no metric (`:127`).
- The session timeout never fires: the warning changes a dependency of the effect that
  set the timers, whose cleanup clears the expiry it has just started
  (`useSessionTimeout.ts:128`, against `:34`).

## 4. Properties

*Indexer.* `BalancesMatchEvents`: balances are what the persisted events add up
to, through crashes, replays, rollbacks and two loops. `FinalityRespected`: nothing
is persisted before it is final. `CursorAfterCommit`: a crash costs a replay and
never an event that passed the filter. `ForwardOnly` is about steps: the status and
the cursor move forward (`StatusOnlyMovesForward`, `CursorNeverRegresses`); it is
checked with one loop only: with two, a slow tick may write an older token, which
costs a replay. `PersistenceInv` joins the types, `TxnInv` of the proofs and
`BalancesMatchEvents` for two loops. `CatchesUp` and `StopQuiesces` are liveness.

*Fixed-rate streams.* `active[r]` counts, one ledger at a time, the ledgers that
closed while the stream was neither paused nor over; it knows nothing of the
milestones that a resume shifts. `AccrualInv` says that the contract's arithmetic
arrives at the same number, `PointerInv` that no subtraction underflows;
`AccrualInvariant` joins them. `PayoutsExact` says that every payment is what was
earned and not paid before, and nothing before the cliff.

*Variable-rate streams.* The reference is the sum of the rates ledger by ledger
(`VestedBetween`); claims in any sequence add up to it (`VariableInv`), both
definitions in the file compute it (`DefinitionsAgree`), and the vault holds
exactly what is still owed (`VaultBacksVariable`).

*Job queue.* `DeliveryInv`: an id is in one place, and a handler runs at most once.
`QueuePromise`: the queue implements `JobPromise`. `WorkerHonest`: a status is true
and a job leaves the system with an outcome or by a fault. `WorkerLive`: the list
drains and a stopped worker ends.

*Status.* `StatusInv` has two parts. `AuditIsAPath`: the audit rows are a path of `VALID_TRANSITIONS` that ends
at the row's status, although callers act on a status they read earlier.
`TerminalDetailsAgree`: terminal details explain the status they stand beside.

*Outbound calls.* `BreakerSound`: no call begins before the waiting time of the last
opening is over, unless a call in flight succeeded meanwhile, and the breaker closes
for good when Horizon stays up. `PoolSound`: a quarantined node is not picked before
its time unless it answered, and no available node is passed over for a rotation.

*Middleware.* `WindowLimit`: no window admits more than its limit. `BucketSound`:
what the bucket admits is paid for, by a full bucket, the time that passed, the time
that counted twice because `updated_at` went back, and a unit for each rounding; and a
client that waits one tick longer than Retry-After said is admitted, unless the refused
attempts in between were so many that their roundings add up to the refill of a tick.
`RetryIsReplayed`: a retry after an answer does not run the operation again.

*Delivery.* `DeliverySound`: the delivery log is true and final in the end.
`EventsInOrder`, `PlacesGivenBack`, `VanishedPeersReaped`: a connection sees no event
twice or out of order, gives its place back once, and is ended when its peer is gone.
`RegistryExact`: a client hears of the recipient it named last and of no other.

*Operations.* `BackfillCovers`: a run that reports its end has left every transaction
of its range in the table, over failures and resumed cursors. `MismatchesOnRecord`:
mismatches belong to a run on record. `MigrationsSound`: no migration is applied
twice, and "current" means complete. `OrderlyShutdown`: a signal is followed by an
exit, and exit code 0 means that no request was cut off and that every handler ran or
nothing was left open.
`NotificationsSound`: executions overlap only when one outlived its key, and a key
nobody works under does not stop the job. `BackupSound`: executions that die leave at
most one database behind, the metric says 1 only of a backup all of whose tables were
read, and every temporary database is deleted in the end.

*Front end.* `TxStatusSound` (`ShownIsTrue` and `PendingResolves`): what is shown of a transaction is true
of that transaction, and a pending one is followed to an end over a reload.
`DashboardConverges`: the dashboard comes to show the latest state of the stream of
the wallet that stays connected, and no error.

### Fairness

- `LoopFairSpec`: weak fairness of the steps of each tick. Timers fire and
  requests are answered or time out. Nothing forces a ledger, a fault, a start,
  a stop or an expiry. The number of faults is bounded, which stands for
  faults that cease.
- `JobFairSpec` adds that a stopped indexer is started again and that cron starts
  the reconciliation again. Strong fairness of the read of each stream, and of
  the write, is needed because the job works through its list and the write waits
  for row locks that come and go; PostgreSQL queues the waiters.
- `VariableFairSpec`: ledgers close, and a recipient who can claim does.
- `FairSpec` of the queue: commands are answered and the event loop goes on; no
  fairness of submission, start or faults.
- Breaker: time passes, callers go on calling, and every GET is answered or times out
  after ten seconds. Webhooks: an attempt ends by its answer or its time-out.
- Shutdown: an event loop that is alive goes on, its timers included, and one that is
  not ends; nothing says that a request or a teardown handler ends.
- Stream sockets: the handler's awaits end, and the heartbeat interval fires. The
  transaction hook: a poll is answered or gives up, and React runs the mount effect.
- Notification job: Redis drops the key in time, cron fires, attempts have a time-out.
- Backup verification: the schedule starts cleanups, an execution ends, and RDS
  finishes a deletion; nothing says that a restore ends.
- Dashboard: the refresh timer of the connected address fires, and loads are answered.

## 5. Proofs

| Theorem | Statement | Argument |
|---|---|---|
| `TypeCorrect` | `Spec => []TypeOK` (indexer) | `TypeOK` is inductive |
| `FinalityHolds` | `Spec => []FinalityRespected` | from `TypeOK /\ TxnInv`, and the cursor conjunct |
| `CommitBeforeCursor` | `Spec => []CursorAfterCommit` | the same invariant |
| `BalancesAddUp`, `PersistenceHolds` | `Spec => []BalancesMatchEvents`, `Spec => []PersistenceInv` | `BalanceInv`: the sums also hold in the open transaction |
| `StatusesMoveForward` | `Spec => StatusOnlyMovesForward` | `StatusAhead`: the transaction is not behind the table |
| `NothingGoesBack` | `Spec => ForwardOnly` with one loop | `TokenCurrent`: a tick works from the stored cursor |
| `StreamsAccrueRunningTime` | `HSpec => []AccrualInvariant` | inductive |
| `ClaimsNeverExceedEarnings` | `HSpec => []ClaimedOnlyEarned` | follows from it |
| `ViewsReportEarnings` | `HSpec => []ViewReportsEarnings` | follows from it |
| `PaymentsAreExact` | `HSpec => PayoutsExact` | a step under it |
| `SponsorsFindTheirStreams` | `HSpec => []IndexComplete` | inductive beside it |
| `VariableStreamsAreExact` | `VariableSpec => []VariableInv` | `StreamsInv` |
| `BothDefinitionsAgree` | `VariableSpec => []DefinitionsAgree` | loop invariants of the two folds |
| `VaultBacksEveryStream` | `VariableSpec => []VaultBacksVariable` | a part of `StreamsInv` |
| `JobsInOnePlace` | `Spec => []DeliveryInv` (queue) | inductive |
| `JobsRunAtMostOnce` | `Spec => []RunAtMostOnce` | follows from it |
| `StatusesAreTrue` | `Spec => WorkerHonest` | `HonestInv` beside `DeliveryInv` |
| `QueueKeepsItsPromise` | `Spec => QueuePromise` | step simulation under `DeliveryInv` |
| `RegistryIsExact` | `LiveSpec => []RegistryExact` | inductive strengthening |
| `RetriesAreReplayed` | `IdemSpec => []RetryIsReplayed` | inductive strengthening |
| `WindowsAreLimited` | `RateSpec => []WindowLimit` | `RateInv` |
| `PlacesAreGivenBack` | `WsSpec => []PlacesGivenBack` | `PlacesInv` |
| `EventsArriveInOrder` | `WsSpec => []EventsInOrder` | `OrderInv` |
| `BucketIsSound` | `BucketSpec => []BucketSound` | `BucketInv`, `RefusalInv` |
| `PoolPicksSoundly` | `PoolSpec => PoolSound` | `PoolInv` |
| `MismatchesAreOnRecord` | `ChainSpec => []MismatchesOnRecord` | `ChainInv` |
| `OverlapsNeedExpiry` | `NoticeSpec => []OverlapNeedsExpiry` | `NoticeInv` |
| `BackupsAreSafe` | `BackupSpec => [](LeaksAtMostOne /\ VerdictTrue)` | `BackupInv` |
| `StatusTellsOneStory` | `StatusSpec => []StatusInv` | `StatusIInv` |
| `BackfillsCover` | `BackfillSpec => []BackfillCovers` | `BackfillInv` |
| `MigrationsAppliedOnce` | `MigrationSpec => []MigrationsSound` | inductive strengthening |

*Indexer.* Finality is a statement about committed rows, but a row enters them
through an open transaction that applied it several steps earlier, with a tip that
was fetched before that. `TxnInv` carries the fact across: a tick's tip is never
ahead of the real one, the rows of `work` are final, and the first `at` records of
the page are in `work`. It is checked by `indexer_loops` and proved for any number
of loops and faults, any chain and any page size, from `IndexerAssumption`.
`BalanceInv` says of both the tables and `work` that their rows are finitely many and
that each balance is the sum over them; an applied claim is a row that was not there,
so the sum grows by its amount, and one that conflicts changes neither. A status that
only moves forward in the table may still be overwritten by a transaction begun
earlier; `StatusAhead` says that the open transaction is never behind. That the
cursor does not go back needs a single loop, and the theorem says so as a hypothesis
on `Slots`: with two, `TokenCurrent` fails.

*Fixed-rate streams.* `ClaimedOnlyEarned` is not inductive: whether a claim keeps
it depends on where the claim pointer is, whether the two keys hide a row from one
another, and how far accrual has come. `AccrualInvariant` is the conjunction of
types, `OneKeyInUse`, `PointerInv` and `AccrualInv`. `RowOK` states the last two
for one row, and a lemma per kind of change (`RowTick`, `RowClaim`, `RowPause`,
`RowResume`, `RowNew`) shows that it is kept; `RowResume` has the case in which
the additions saturate at `u32::MAX`. One lemma per call then lifts these to the
storage. `PayoutsExact` is about steps: under `AccrualInvariant` each call that
changes a balance of a recipient is compared with what the row had earned; the other
calls change none. `IndexComplete` is kept by each call that moves, replaces or
removes a row. Assumptions: `LedgerAssumption`, `AccountAssumption`, `FixedAssumption`
and `LegacyAssumption` (legacy rows are ones the contract could have written).

*Variable-rate streams.* The code computes with loops over segments, the reference
with a sum over ledgers. `RateInside` and `LedgerInside` say that segments whose ends
ascend cut the ledgers of a stream into intervals of one rate each; `VestedFlat`,
`VestedSplit` and `VestedPositive` do arithmetic with the sums. The folds are unrolled
into the sequence of states of the loop (`OverlapSteps`, `SkipSteps`, `DepositSteps`),
and each loop has its invariant: after k segments the total is what vested up to the
end of segment k, or the loop is done and has it all (`OverlapInv`, `SkipInv`,
`DepositInv`). So both definitions, and the deposit, are sums of rates over intervals,
and claims in any order join intervals that meet. `StreamsInv` says this of the stored
rows (`RowInv`) together with the vault. Assumption: `VariableAssumption`.

*Folds.* `FoldTheorems` proves induction over the naturals from the well-foundedness
of their order, with the property as a set, which the provers can instantiate; from
it that the functions which the community modules' folds choose exist, and that a sum
does not depend on its order: `SumTake`, `SumAdd` and `SumChange` say what a sum does
when one value is taken away, added or changed.

*Job queue.* That a handler has not run more than once follows only if no id is in
two places: twice in the list, in the list and in a loop, in two loops, or in the
list before it was pushed. `DeliveryInv` says so, and what `runs` is in each place.
That a status is true is not inductive either: `HonestInv` adds that a loop about to
write "completed" has run the handler, and that the record of a job that is not
pushed cannot say "running".
`QueueKeepsItsPromise` is a refinement: under `DeliveryInv` every step of the queue
changes `Place` by one step of `JobPromise` or not at all. The lemmas say what each
kind of step does to `Place`; the invariant is needed because an id that is both in
the list and in a loop would have two places.

*Middleware.* For the window counter `RateInv` gives every request that passed a place
of its own in the count, and says which creator of a counter is still to set its
expiry. For idempotency `IdemInv` says that the stored response is of an answered
request, that what was answered before a request came stays answered, and that while
nothing is stored every answer is among the forgotten.

*Token bucket.* `BucketInv` says that the stored hash accounts for everything that was
admitted: `admitted * One + tokens <= Full + (updated + wentBack) * RefillRate +
roundings`. A refill on a later clock adds to both sides; on an earlier one `updated`
falls by what `wentBack` grows. While no hash is stored, the two windows that had to
pass, less the difference of the clocks, pay for the full bucket to come: this is where
`Skew <= Window` is needed. `RefusalInv` says that the promised wait, counted from the
last update, pays for the missing part of a token but for a unit for the quotient and
one for each rounding; the one tick more that `RetryAfterSuffices` grants pays for
those. The arithmetic is nonlinear; the lemmas `Distributes` and `Ordered` carry it.
Assumptions: `RateLimitAssumption`, `IdemAssumption`, `BucketAssumption`.

*Sockets and pool.* `PlacesInv` relates the count of each address to the handlers
between acceptance and cleanup; `OrderInv` says that what a connection was sent
ascends, that nothing is sent before the replay, and that both buffers hold the newest
event first, which the replay turns round. `PoolInv` sets the two clocks of
a quarantine against one another: the window that is left and the time since the mark
add up to the whole. And a node that was passed over has come nearer to `rrIndex` by
every pick, so what it missed and its distance stay below the number of nodes.
Assumptions: `LiveAssumption`, `WsAssumption`, `PoolAssumption`.

*Jobs on the database.* `ChainInv` says what the run row and the mismatches of a run
are at every await; `NoticeInv` who may hold the key; `BackupInv` that the execution
works on the database of the last run, that at most one database is left to delete and
is on the list of strays or the one just restored, and that what the execution believes
of it is true. `StatusIInv` says that the audit rows are a path to the present status,
that details explain it, and that a terminal status no direct caller asked for was
brought about by a handler with an event of its kind, with or without details. `BackfillInv` says for each await which positions of the chain
are stored already; the cursor of a failed job is a position before which that holds,
so that a resumed one starts from a true claim. A replica's selection of migrations is
applied several steps after it was read: `LockHeld` says that a replica past the lock
is the one that holds it, and `SelectionFresh` that what it is about to apply is still
what is missing. Assumptions: `ChainAssumption`, `NoticeAssumption`,
`BackupAssumption`, `StatusAssumption`, `BackfillAssumption`, `MigrationAssumption`.

Only model-checked: liveness, since the prover has neither ENABLED nor fairness. These
are `CatchesUp`, `StopQuiesces`, `EventuallyReconciled`, `StreamsComplete`,
`WorkerLive`, `VanishedPeersReaped`, `DashboardConverges`, and the liveness halves of
`BackupSound` and `NotificationsSound`, whose safety halves are proved. `BreakerSound`,
`DeliverySound`, `OrderlyShutdown` and `TxStatusSound` join a safety and a liveness
part, and neither is proved yet.

## 6. Not modelled

- Milestone, batch and multi-token streams: their bodies are spliced into one another
  by a merge (`contract.rs` lines 456-700). `backend/src/indexer.ts`,
  `workers/horizonWorker.ts`, `cache.js` and `server.ts` are two versions interleaved
  and have no complete text to translate.
- Token and recipient allowlists, initialisation, admin transfer, upgrade and events
  of the contract; archival by TTL, which the ledger does and the contract cannot see.
- Routes, validation, logging, metrics and tracing: no protocol state. API keys,
  configuration and the schedule version recorder: single lookups or appends.
- The stream cleanup job, whose queries are stubs, and the admin drain manager, which
  works on a sample list in memory. The rotation of the database secret, which moves
  the stages of a secret with parameters the service does not have.
- The pages, forms and charts of the front end, by far the largest part of its text:
  rendering and the form state of one user. The front end expects message types and a
  notification endpoint that the backend does not have, so there is no protocol
  between the two to model there.
- Deployment files.

Most of the repository's lines are of these kinds, so the map covers a small share of
them and most of the lines that keep state.

## 7. Plan

Every invariant of the runs is proved. Theorems worth proving next: the safety parts
of `BreakerSound` (`WaitsOutTheOpening`, with the clocks of `PoolInv`),
`DeliverySound` (`DeliveryLogTrue`), `OrderlyShutdown` (`CleanExit`, from the count
being the number of open requests) and `TxStatusSound` (`ShownIsTrue`, from there
being at most one poll that is not aborted).

Abstract specifications worth stating next: a stream that pays `rate` per ledger of
running time, implemented by `FixedRateAccrual`; an atomic "apply each final event
once", implemented by `StreamIndexer` with a single loop.
