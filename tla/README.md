# NovaSupport: specifications and proofs

TLA+ modules of the parts of NovaSupport whose correctness depends on the
order in which things happen: the Soroban contract that holds the supporters'
tokens; the backend's concurrent machinery around its database (sessions,
profiles, payments and what follows them, the event indexer, recurring support,
the circuit breaker, the scheduled jobs, the leaderboard cache); and the views
of the browser whose state outlives a request.  TLC checks every module on a
small instance; TLAPS proves the most important properties of every part of
the backend and of the contract for every value of their constants.

Line numbers below are those of `src/`.  `app.ts` is `src/backend/src/app.ts`,
services are in `src/backend/src/services/`, the contract is
`src/contract/contracts/support_page/src/lib.rs`, the views are in
`src/frontend/src/`.

## 1. The system

Supporters pay creators on Stellar, either directly or through the contract.
The backend (Express, Prisma, PostgreSQL, optionally Redis; several replicas
may run) keeps profiles, milestones, subscriptions and a record of payments,
learns of payments from its API and from the chain, and tells others of them.

| Component | State it keeps | Operations | Hard because of |
|---|---|---|---|
| Contract `support_page` | admin, paused, a global and per-recipient counters, a total per recipient and asset; token balances are the token contracts' | initialize, pause, unpause, support, withdraw | one pool of tokens backs all totals; checked arithmetic; order of checks and effects |
| Webhook delivery (`webhook.ts`, `webhook-processor.ts`, `webhook-queue.ts`) | rows with status, attempt count, next retry time; BullMQ jobs | poll loop, reclaim of stuck rows, queue worker, requeue by an admin | two delivery paths share rows; snapshots older than claims; lost runs |
| Event indexer (`event-indexer.ts`, `soroban-rpc-client.ts`) | cursor, SupportTransaction rows, orphans | poll a page, store it with the cursor, link orphans | replicas share one cursor; profiles come and go between two awaits; failing pages |
| Recurring support (`app.ts`, `drip-scheduler.ts`) | subscriptions with nextRunAt, executions | POST, PATCH, DELETE; the paged sweep | sweeps overlap; handlers change a row between a sweep's read and claim |
| Circuit breaker (`circuit-breaker.ts`, storage in `app.ts`) | state in memory per replica, one shared row | execute: refresh, claim, admit, answer, persist | every database call is an await at which other callers run |
| Scheduled jobs (`scheduler-claim.ts`, `weekly-digest.ts`, `badge-awarder.ts`, `ip-retention-purge.ts`) | a claim time per job, timers in memory | check and claim, paged run, release, retry | replicas, restarts, timers against claims |
| Payments and milestones (`app.ts`) | SupportTransaction rows, milestones | POST of a payment; POST, PATCH, DELETE of milestones | row locks, unique keys, deadlocks, stale reads |
| Leaderboard cache (`profile-leaderboard-cache.ts`, `redis.ts`) | entries in Redis and in each replica's memory | get, set, invalidate, broadcast | readers race invalidations; Redis and broadcasts are lossy |
| Authentication (`auth.ts`, `app.ts` 864-1043, `ip-retention-purge.ts`) | a challenge per wallet, users, tokens in the clients' hands, revoked tokens | challenge, verify, requireAuth, logout, purge | a challenge replaced while it is verified; expiry, revocation and purge are looked at one after the other |
| Profiles (`app.ts` 1885-2625, 5166-5239, `profile-importer.ts`, `verify-email.ts`) | a row per username, its accepted assets, mailed tokens | create, PATCH, import, delete, verify and resend, replace assets | every handler reads, checks the owner and writes later, by name or by id |
| Reports (`app.ts` 4661-4728) | reports with the reporter's address | report and alert, purge of addresses | the alert hangs on a count that another request changes |
| Transaction verification (`verify-transaction.ts`) | a bounded cache of verdicts in memory | look up, scan pages, retry, remember | overlapping calls, two lifetimes, eviction, pages without an end |
| Badge awarding (`badge-awarder.ts`, `app.ts` 4188-4289) | badges of profiles | check under an advisory lock, hourly sweep, assign, revoke | errors inside a Postgres transaction; the admin takes no lock |
| Frontend (Next.js, 91 files) | component state, localStorage, requests under way | pay and watch, edit goals and webhooks, charts, lists, searches | closures over old state; answers that are late, out of order, aborted or absent |
| Process lifecycle (`index.ts`) | timers, server | start, shutdown | shutdown while work is under way |
| Analytics, feeds, e-mail, observability, input handling | none | reads, I/O, pure functions | (see section 8) |

How they interact: a recorded payment (payments) writes webhook deliveries
(webhooks), invalidates the leaderboard (cache) and may complete an execution
(recurring support); it is verified through the circuit breaker before, and may
earn badges after.  The browser pays on the ledger itself and shows what the
ledger says of it; everything else it asks the API, with the session's token.
The indexer writes the same table of payments from the chain's side, and links its
rows to profiles.  Everything between replicas goes through rows of the
database, conditional updates (`updateMany ... where status = ...`), unique
keys, and, for the cache and the queue, through Redis.

## 2. Modules

Every component's module has its state as variables, one action per handler
part between two awaits, and its properties at the end.  `MC<Module>.tla`
gives it the functions a cfg cannot write, `<Module>.cfg` the instance;
`<Module>Proofs.tla` holds its theorems; those of LeaderboardCache are in
SupportTransactionsProofs, those of SupportPage and EventIndexer in
ContractProofs, which extend both modules (hence `BoardSpec`, `IndexerSpec` and
the like), those of the eight views in FrontendProofs.  Definitions commented as *fault seeded for the
checks* are plausible bugs: none of them is part of a specification, each is put
in place of the definition that follows it to see that a property notices.

Three modules put parts side by side in one run: `PaymentFlow`, `Accounts` and
`Frontend`.  Their parts share no variable: a variable `part` (`view`) chooses
in the initial state which one takes steps, and the others stay in an initial
state.  For properties of one part each, this explores exactly what a run of
the part alone does; it is sound because no part's action reads another's
variables, for the reasons each module's comment gives.

**SupportPage** - the contract.  An invocation that returns an error is rolled
back by the host, so a refused call is a stuttering step, and what it answers
is an operator (`SupportOutcome`, `WithdrawOutcome`: the checks in the code's
order).  The token contract is external: `CanMove`/`Move` for `transfer`, and
`Mint`, `Pay`, `Clawback` for what holders and issuers do beside the contract.
`given` and `clawed` are history: what reached or left the contract's account
by other ways than `support` and `withdraw`.  TTLs and archival of entries are
left out.

**Vault** - what the contract promises, without counters, messages, checks or
entries: accounts of holders in assets, `Deposit`, `PayOut`, `Appoint` once,
`FreezeOrThaw`, and tokens that move elsewhere.  `SupportPage` instantiates it
as `Custodian` with `keeper <- admin, frozen <- paused, deposits <-
supportCount, credit <- recipientTotal, purse <- balance`, and `IsVault` is its
specification.

**PaymentFlow** - what stands before and behind a recorded payment:
`Verification`, `WebhookDelivery`, `Badges`.

**Verification** - calls of `verifyTransaction` in one process.  `Verify` looks
in the cache; `Request` and `TakeAnswer` are the two halves of Horizon's answer,
`Scan` one page of operations, `HorizonFails`/`AskAgain` the retries.  The cache
is a sequence in the order in which a JavaScript `Map` iterates: a key that is
written again keeps its place (`SetEntry`).  Horizon is external: `Show` makes a
transaction visible.  A claim is a transaction with the details that are
expected; `PageOf` says where its operations match.

**Badges** - `checkAndAwardBadges` statement by statement under read committed:
`Lock`, `ReadAwards`, `CountPayments`, `CountMilestones`, `Insert` for each
badge, `Commit`.  A unique violation sets `aborted`, as Postgres does, whether
or not the code catches it.  `Pay`, `Visit` start checks, `Assign` and
`RevokeBadge` are the admin's routes, which take no lock.  Three queries that
count payments are one step.  `deserved` is history.

**WebhookDelivery** - a row's columns, `task` (what a processor does with a row
and the count it read), a sweep's `pc` and `stuck`, BullMQ's `job`.  A sweep is
`StartSweep` (read stuck rows), `ReclaimRow` (write each), `Select` (read due
rows), then per row `Claim` and `Finish`.  The worker is `TakeJob`, `Claim`,
`Finish` with the count taken from its job.  `Lose`, `Crash` are lost writes and
dying processes.  Time is two flags: `retryAt` has come, the row is `stale`.
`sent` is history.

**EventIndexer** - the chain is a sequence of numbered events.  A tick is
`ReadCursor`, `Fetch`, then `SkipPage` or `Lookup` and `Save`, then
`ReadOrphans`, `MatchOrphans`, `Link`..., `EndTick`; `Fail` cuts it anywhere.
A row is the event that created it, the recipient and the link the last upsert
wrote.  `Register`/`Unregister` are the profile handlers, with the foreign key
as their guard.  `origin` is history.

**RecurringSupport** - subscriptions of one supporter to one profile.  `Create`,
`Delete`, `PatchRead`/`PatchWrite` are the handlers; `StartSweep`, `ProcessRow`,
`NextPage` the sweep, with Prisma's `cursor` + `skip: 1` in `Query`.  A row is
claimed by the guarded UPDATE (`Claimable`) and moved past the sweep's now
(`Advance`).  A month is a fixed number of ticks.

**CircuitBreaker** - the breaker in each replica's memory, the shared row, and
callers with a stage for each await of `execute`: `Start`, `Refresh`/`Refreshed`,
`ClaimHalfOpen`, `Claimed`, `Refused`/`Rejected`, the call, `Succeed`/`Fail`,
`Save`.  `Load`, `SaveLoaded`, `LoadFails` are `ensureInitialized`;
`DatabaseError` and `Restart` the failures.

**ScheduledJob** - the claim and the run shared by the weekly digest, the badge
sweep and the IP purge: `Check` under `Start`, `IntervalTick` or `RetryTick`;
`NextPage`, `DoNext`, `Complete`, `Throw`, `Release` for the run.  Runs take any
time, so one may outlive its interval.  A preference may change between any two
pages, and `skip: 1` leaves out the first row that still matches (`Skipped`).
`doneBy`, `completedBy` and a run's `owed` are history.

**SupportTransactions** - POST /support-transactions as the statements of its
database transaction (`Insert`, `FindMilestones`, `Credit`, `Commit`) under
Postgres' READ COMMITTED: a request's own writes are kept in `credited` until
`Commit`, which makes them visible at once; `Locked` is the row lock, a second
`Insert` of an open key waits.  The milestone handlers run beside it.
`credits` is history, the credits of a milestone in the order of their commits.

**LeaderboardCache** - one key of one profile: an entry is the number of rows
its query saw and the ticks it has left, in Redis and in each replica's memory;
readers `Get`, `Query`, `Set`; a payment `Record`s, then `Scan`, `Delete`,
`Clear`, `Publish`; `Receive` is the subscriber.  `age`, `invalidated`,
`overtaken` are history.

**Sessions** - `RequestChallenge`; a verify is `VerifyRead`, `DeleteChallenge`,
`FindUser`/`CreateUser`, with its token from `SignToken`; a request `Arrive`s
(its token's signature and expiry) and is `Admit`ted or turned away one query
later; a logout is an admitted request that `Revoke`s; `Purge` is the hourly
job.  Challenges and tokens are numbers.  All replicas read one clock.

**Profiles** - one username.  A request reads the row (`Begin`, `Read`), and a
later action is its write: `Create`, `Patch`, `Import`, `VerifyEmail`, `Resend`,
`DeleteAssets` and `CreateAssets`, `Delete`.  `writer` says who wrote what is
not modelled field by field; `mails`, `proof`, `mixed` are history (`mixed`:
in which of address, fields and assets a request has written on what another had
changed since it read).

**Reports** - `File`, `InsertReport`, `CountReports`, `Alert` are one request,
`BreaksOff` its failures; `PurgeIps` the daily job.  `mishaps` is history: what can
have made the alert come twice or never.

**Accounts** - Sessions, Profiles and Reports side by side.

**SupportPanel** - the wallet buttons, the panel that builds, signs and submits
a payment, and the dialog that polls Horizon for it.  A send is one job through
`Build`, `Sign`, `Submit`; lookups overlap with the dialog's interval (`Tick`).
The ledger (`Include`, `Drop`) is external.  A balance is the set of assets it
covers.

**GoalsPage**, **HooksPage** - two parts of the dashboard with their endpoints.
A request keeps the list its handler closed over; `Succeed` puts it back
with one row changed, as the code does.  `excused` is history: the goals whose
answer was lost (`Fail`), that were written twice unanswered (`WrittenTwice`) or put
back (`Undone`).

**AnalyticsPage** - the owner's view and the chart; the wallet is changed by
this tab's button and by other tabs, and copied when the page is told.

**ExplorePage**, **ProfileTabs**, **HeaderSearch** - lists that are fetched page
by page, by tab and by text, with timers, aborts and late answers.

**CreatePage** - the form that makes a profile and its endpoint: fields on three
steps, one button (`Continue`, `Submit`), `Back`, which works while a request is
under way, the outcomes of POST /profiles and their answers, the countdown after
a refusal and the redirect after a success.

**Frontend** - a tab with one view open: the eight views side by side.

The other modules are separate specifications.  Where one component acts on another's
state, the module has that action in the form the other component gives it:
payments create webhook deliveries (`WebhookDelivery!Create`), recorded and
indexed payments reach the cache (`LeaderboardCache!Record`, `Ingest`),
executions are paid (`SupportTransactions!Paid`), badges and digests are
`ScheduledJob` runs.

## 3. Properties and runs

Each run is one cfg; every action and disjunct of its specification is reached.
`Inv` of a module is its type invariant together with the safety invariants
named under it.

**SupportPage** (451 000 states).  Two accounts, two interchangeable assets,
counters and amounts of at most 2, so every `checked_add` can overflow and
every amount is a boundary; message and code lengths on both sides of their
limits.
- `Solvent`: in each asset the contract holds exactly what it owes all
  recipients together, once gifts and clawbacks are set apart.  Recipients draw
  on one pool, so any wrong total is paid with somebody else's money.
- `Inv`: types and widths, and `CountsAgree`: the global counter is the sum of
  the recipients'.
- `WithdrawAlwaysPossible`: unless the issuer clawed back more than was given,
  any part of a recipient's total can be withdrawn while not paused.
- `IsVault`: the contract implements `Vault`.

**PaymentFlow** (211 000 states, fair).  Verification: two calls, a right and a
wrong claim about one transaction with two pages, a cache of one entry,
lifetimes of 3 and 1 ticks, two attempts.  Webhooks: one row; two replicas'
sweeps, the sweep of a request, the worker, one requeue, one lost run, two
attempts.  Badges: two for payments and one for milestones; the checks of two
payments and of the sweep, three payments, three events (failures, a changed
milestone, the admin's requests).
- `VerdictIsRight`: a payment that is confirmed was made as claimed, one that is
  denied had not been made `NEGATIVE_CACHE_TTL` ago, whatever calls overlapped
  and whatever they left in the cache.
- `Inv`: `OneDeliverer`, `InFlightIsProcessing` (the claim excludes overlapping
  sweeps, the worker and the reclaim), `BadgesAreDeserved`.
- `PendingIsReachable`, `EventuallySettled`: no mixture of retries, reclaims,
  requeues and jobs leaves a row that no query selects; every row ends.
- `SuccessIsFinal`: nothing brings a delivered row back.
- `EarnedIsAwarded`: a badge that stays earned is on the profile in the end,
  although a check can lose all its badges to one unique violation: the sweep
  makes it good.

**EventIndexer** (88 000 states, fair).  Two replicas, four events of which two
are payments, pages of two, two profiles in turn for one wallet, one cut tick.
- `KeptUpToCursor`: every decodable event between the first poll's start and
  the cursor has its row, with cursors that move back when replicas overlap.
- `LinkedToWallet`: a linked row's profile is live and owns the wallet.
- `EventuallyIngested`, `EventuallyLinked`.

**RecurringSupport** (809 000 states, fair).  Two schedulers with pages of one
row, two subscriptions, one PATCH, one failure, periods of 1 and 2 ticks.
- `Inv`, `OnePerPeriod`: two executions are due a period apart, and the later one was
  due after the sweep that made the earlier.
- `RunsOnlyWhenActive`: no snapshot is old enough to run an inactive row.
- `EventuallyRun`: rows the cursor passes over are found by a later sweep.

**CircuitBreaker** (1.26 million states, fair).  Two callers of one replica and
one of another; an outage that ends; one database error or restart.
- `Inv`, `OneCanaryPerReplica`: the slot and the canary agree, and there is one.
- `KeepsCalling`: the breakers never refuse all callers for good.

**ScheduledJob** (6.1 million states, safety).  Two interchangeable replicas,
three profiles in pages of two, an error, a crash, a changed preference, three
intervals.
- `RunsApart`: runs under way at once were claimed an interval apart.
- `NewerClaimStands`: a late failure takes back no newer claim.
- `EverybodyDone`: a run that completes has missed nobody who was opted in all along,
  whoever else opts in or out between its pages and whoever fails; left out is the
  profile right behind a page whose last one opted out (section 4).
- `Inv`, `OnTime`, `OneIntervalLost`: ticks an interval apart find the job due; one
  failure costs one interval at most.

**SupportTransactions** (497 000 states, fair).  Two concurrent POSTs of two
payments, an execution either may pay, two milestones, one PATCH, one failure.
- `PaidOnce`: a hash is recorded once, an execution paid once and by a payment
  with its details.
- `Inv`, `CreditsAddUp`: an amount is the sum of what recorded payments credited since
  the last reset.
- `Inv`, `ReachedByAmount`: reached exactly when the amount has come to the target.
- `EventuallyAnswered`: deadlocks are broken and every request ends.

**LeaderboardCache** (1.04 million states, fair).  Two replicas with a reader
each, a writer, lifetimes of 2 and 1 ticks, two rows, two errors.
- `BoardInv`, `BoundedStaleness`: an answer lacks no row older than its entry's lifetime.
- `StaleOnlyIfOvertaken`: without errors an entry lacks an invalidated row only
  if a reader stored a result a row had overtaken.
- `EventuallyComplete`.

**Accounts** (1.77 million states, safety).  Two wallets, two challenges, two
overlapping verifies, lifetimes of one tick in two; three requests of a profile
with three addresses, one of them taken, and two lists of assets; four reports.
- `Inv`, `TokensPaidFor`: every token was paid for with a challenge row of its
  own: two verifies of one row make one session.
- `Inv`, `AlertedOnce`: the admin is alerted when the third report is in, and once,
  however requests overlap and break off, with three exceptions: the third report came
  in between another's insert and count (alerted up to three times), the fourth did,
  or the request that was to mail broke off (never).
- `LoggedOutStaysOut`: while it lasts, a logged-out token is never admitted again,
  though the row that says so expires and is purged.  A request that passed the first
  look of `requireAuth` just before its token expired, with the purge before the
  second look, is outside the property.
- `AsAsked`: a verified address was proved by a token mailed to it, the fields
  were written by the owner, and the assets are those of one request, however
  requests overlap.  Each can be lost in its own way only: the address, when a verify
  or a resend goes on for the one it read or a PATCH puts back the one it read; the
  fields, when a write lands on a profile that replaced the one that was read; the
  assets, when a list is inserted beside one that the delete did not see.

**Frontend** (690 000 states, fair).  One wallet with funds and one without, one send, two
lookups that retry; two goals and two requests at once; two webhooks with a cap
of one; two viewers, three ranges; three choices of a list with two full pages;
two texts; one user name, taken or not, two wallets of which one is signed in, two
assets.
- `ReportedIsPaid`: the amount and the message that the dialog reports of a
  confirmed payment are those the ledger holds (the asset is not: section 4).
- `VerdictStands`, `VerdictComes`: a payment shown as confirmed is never shown
  as failed, however late a lookup answers, and the dialog comes to a verdict.
- `ListIsRight`: when nothing is under way the goals on the screen are those of the
  database, however requests overlapped, apart from a goal whose answer was lost, that
  two requests wrote with no answer between, or that the answer about another goal
  put back.
- `ShownIsCurrent`: the chart is that of the chosen range, and the page knows
  the wallet its tab shows.
- `PagesInOrder`: the list is of one choice, in order, without holes other than
  pages that failed.
- `RowsAreAnswers`: a late answer never replaces the rows of a newer search.
- `Inv`, `BusyMeansUnderWay`: a spinner or a disabled button stands for a
  request or a timer that will end it.  In `CreatePage` a countdown ends no
  request's spinner, no step is reached past one that is not filled in, and a name
  that is taken is said to be where it can be changed.

Each module has one type invariant, `TypeOK` (`BoardTypes`, `IndexerTypes` in the
two that share a proof module), strong enough to notice counts
past their limits, cursors past the chain's end, timers in the past and the like.

### Bounds, and why they are enough

Clocks, errors, crashes, requeues, PATCHes, requests and rows are capped in the guards
(`Max...` constants).  One fault is enough where the property is about
recovering from it: the state after recovery is one the run also reaches
without, so a second fault starts from an explored state.  Two replicas, and
three callers where a property relates two callers of one replica to another
replica, are the smallest number of actors that interfere.  Pages of one or two
rows over two or three rows make full pages, short pages and page boundaries
all happen.  Amounts and counters up to 2 make both sides of each comparison
happen.  Clocks are long enough for a claim, its expiry and what follows it.
In a view two requests under way are enough: a handler relates its own closure
to the one state another answer has left.  One wallet has funds, the other is
the one that is switched to.  A cache of one entry makes every second key evict
the first, and every refreshed key keep its place.

### Fairness, and why the code justifies it

Weak fairness only, and only on what the code itself drives: a poller's or
scheduler's sweep (`setInterval`; `tick` reschedules itself in a `finally`), the
next step of a handler or promise chain that has started, the answer or timeout
of an HTTP request, timers and clocks.  Nothing is assumed of clients, admins,
supporters, the chain, profile owners, errors or crashes, with one exception:
`CircuitBreaker` lets requests keep coming (`WF(Step(c))` includes `Start`), as
nothing in the code closes the breaker without one.  In the browser only the
dialog's interval and its final timer are fair (`Tick`, `Finalize`), not the
servers.  A check of badges goes on once started (its transaction ends within
30 s), and the hourly sweep comes again; that every check can fail is bounded.
No fairness on the webhook
worker's jobs: the poll loop settles rows by itself.

## 4. What the code does not do as documented

Two runs check one sentence each of the repository's own comments, and TLC
finds a behaviour of the code that violates it.

| Run | Says | Happens |
|---|---|---|
| IndexerOrphanBlocks | event-indexer.ts:4 "stays in sync with on-chain state" | an event for an unknown wallet refers to a profile `__orphan__` that nothing creates: the page fails on every poll |
| JobWeekSkipped | weekly-digest.ts:188 not "silently skipping the week's digest after a single early failure" | the retry's claim is an hour later than the weekly tick, which then finds the job not due |

More disagreements were met while modelling.  The models contain what is needed
to show them (other values of the constants); no run is spent on them:

- webhook-queue.ts:153: a BullMQ job has `attempts: 1` (58), so the worker
  counts every attempt as the first, and a row is sent more often than
  `MAX_DELIVERY_ATTEMPTS`; webhook-processor.ts:28 says such rows are "marked
  failed instead of being retried forever".
- weekly-digest.ts:31, badge-awarder.ts:139: the next page starts at the cursor with
  `skip: 1`.  If the profile at the cursor no longer matches, the row skipped is the one
  behind it, which the run passes over (`PassedOver`).
- circuit-breaker.ts:71: a replica that refreshes and finds HALF_OPEN falls
  through and takes its own local slot, so two replicas both send a canary; 52
  says "only one replica actually sends the canary request".
- webhook-processor.ts:136: the attempt count is written from the row read
  before the claim; with runs longer than the processing timeout
  (`PromptWrites = FALSE`) attempts are counted once for several requests.  A
  request whose process dies is not counted at all (line 49).
- app.ts:4333: two overlapping requeues (two `Admin`s) reset rows that are no
  longer failed ("Requeue permanently failed webhook deliveries", 4297).
- event-indexer.ts:234: orphans are read 100 at a time in no order, so
  unlinkable ones can starve others (`TakeLimit` below the number of orphans).
- event-indexer.ts:179: two support events of one transaction share its hash
  and one row (two decodable events with one `TxOf`).
- event-indexer.ts:177 calls re-processing "a no-op", but the upsert writes
  recipient and link again.
- soroban-rpc-client.ts:148: without `INDEXER_START_LEDGER` (`Backfill = FALSE`)
  a first poll that fails is followed by one that starts at a later ledger.
- app.ts:5034 and 5079: a PATCH that has read a subscription before a DELETE
  reactivates it.  app.ts:4886 and 5086: a PATCH of the asset can make two open
  subscriptions for one asset.
- circuit-breaker.ts:80: an answer to a call made before the breaker opened
  closes it while the canary is still out, and others are let through.  With
  two callers in a replica stale refreshes can reopen a closed breaker again and
  again, so neither "the breaker closes for good" nor "every replica keeps
  calling" holds under weak fairness; `KeepsCalling` is what does.
- app.ts:4586 against 4479: a PATCH of the asset makes a reached milestone
  active again without the check of 20.  app.ts:3551 against 4558: a payment in
  the old asset is added after the reset.  app.ts:4598 against 4555: the target
  of a milestone reached meanwhile is changed.
- profile-leaderboard-cache.ts:169: a reader that queried before a payment may
  store its result after the invalidation returned.
- verify-transaction.ts:127: stellar-sdk's page always has a `next()`, so a
  transaction without the expected payment is looked through for ever, past its
  last operation, until Horizon refuses; 156 says "false - [...] details
  mismatch (not an infrastructure failure)".  In `Verification` a wrong claim
  about a successful transaction is answered "error" or not at all.
- app.ts:2661: a cached verdict is returned inside the breaker's `execute`, so
  it counts as an answer of Horizon and closes a half-open breaker.
- badge-awarder.ts:94: P2002 is swallowed, but the transaction is aborted: every
  badge of that check is lost until the next one.  A badge an admin revokes
  (app.ts:4256) comes back with the next sweep while it is earned.
- app.ts:985: a challenge that is requested between another verify's read and
  its delete is deleted in place of the one that was signed, so one signature
  can make two sessions at the price of two challenges; the comment (#974) says
  the delete keeps a challenge to one.
- app.ts:2147 and 2372: an address that is changed while a verification has read
  the old row is verified by the old token; a resend that overlaps a PATCH
  stores its token over the new one and mails the old address.  An address that
  is removed keeps its token.  PATCH and the import write by username, and may
  write a profile that was deleted and created again by another owner.
- app.ts:2603: two replacements of assets that overlap leave both lists, XLM
  twice among them, since a NULL issuer is distinct in the unique key;
  schema.prisma:73 says it is kept unique ("Fix #704").
- app.ts:4705: the alert is for a count of exactly three, looked at after the
  insert: overlapping requests miss it or send it twice, and a third request
  that breaks off takes it with it ("Alert only when the threshold is first
  reached", 4704).
- app.ts:2133 and others: a query before a handler's `try` that fails leaves the
  request without an answer (Express 4).
- support-panel.tsx:833: the dialog shows the asset that is chosen in the form,
  not the one that was sent (comment 141).  A lookup that fails with 5xx is
  thrown without a status and is not retried, against stellar.ts:73.  A
  submission whose answer is lost and that is sent again pays twice.  The panel
  never posts the payment to the API, though its text (826) says so.
- dashboard/page.tsx:166: the endpoint answers an array, the page reads
  `.webhooks`, so the list starts empty.  283 always sends the target, so a goal
  that is reached can never be edited (app.ts:4557).  299, 345, 374, 396: each
  handler puts back the list it closed over, undoing answers that overlapped.
- dashboard/[username]/page.tsx:480: drips are asked for with the username where
  the endpoint looks for an id, so there are none.  530: the profile that is
  read has no e-mail address, so the banner to verify it never shows.
- explore/page.tsx:137: a page that failed is passed over for good.
- app-shell.tsx:91: the search answers an object (app.ts:1498) that the header
  keeps as its array and maps over: the first result breaks the page, against
  app-shell.test.tsx:86.
- create/page.tsx:227: the form posts by a plain `fetch`, without the header and
  the cookie that app.ts:1885 asks for, so that with the API on an origin of its
  own (the default) every creator is refused as a stranger (`SameOrigin = FALSE`),
  against `docs/FLOW.md`:48-52.  174: the check of the links is never reached; the
  button calls `handleNext` on the first two steps only.  238: during the two
  seconds before the redirect the button is free, and a second press is told that
  the name is taken, by itself.
- profile/[username]/edit/page.tsx declares a constant twice (`issuerToAdd`), so
  it does not compile.
- `src/contract/ABI.md`:152: a recipient without support is told
  `InsufficientContractBalance` rather than `RecipientNotFound` when the
  contract holds less than the amount, since that check comes first
  (lib.rs:261, 270).

Where a passing run excludes one of these by its constants, the README says so
here and the hazard's note in PROJECT.json: `PromptWrites` and one admin,
`TakeLimit = 2`, one decodable event per transaction, `Backfill` and
`OrphanProfile`, `SameOrigin`, payments in one asset with `NewTargets = {}` (the run's PATCH
changes assets only).

## 5. Theorems

| Module | Theorem | States | Argument |
|---|---|---|---|
| ContractProofs | `TypeCorrect` | `Spec => []TypeOK` | inductive as it stands: each outcome "Ok" implies the bounds of the additions it allows |
| | `CountersAgree` | `[]CountsAgree` | a sum is given by its partial sums; `BumpSums` shows what raising one summand does to them |
| | `WellKept` | `[]Inv` | the two above |
| | `Custody` | `[]Solvent` | every step changes the total owed in an asset, the contract's balance, gifts and clawbacks by amounts that cancel (`CustodySteps`), and `BumpSums` carries the sum along |
| | `NeverShort` | `[]WithdrawAlwaysPossible` | from `Custody` (one summand is at most the sum) and from the invariant that a positive total has an entry |
| | `KeepsVault` | `IsVault`: every behaviour of the contract is one of `Vault` | `Support` is `Deposit` (`SupportDeposits`), `Withdraw` is `PayOut` (`WithdrawPays`), the rest is an appointment, a freeze or elsewhere; under `TypeOK` |
| | `IndexerTypeCorrect` | `IndexerSpec => []IndexerTypes` | with lemmas on the first and last event of a page |
| | `RightlyLinked` | `[]LinkedToWallet` | what an upsert links was found by wallet; the foreign key keeps it live |
| | `NothingSkipped` | `[]KeptUpToCursor`, assuming `Backfill` and one decodable event per transaction (`TxIsUnique`) | strengthened by `PagesKept`: all is stored behind the cursor, behind the start of every page in work, and up to the end of an empty page, so pages may be saved in any order |
| PaymentFlowProofs | `Sound` | `[]Inv`, assuming `PromptWrites` and `OneAdmin` | the deliveries by `ClaimsInv`: besides what `Inv` says, a row whose timeout is over is in nobody's hands (`StaleIsIdle`), so that a reclaim takes it from nobody; a row that an admin has read has failed (`RequeuedHaveFailed`); a row still open has attempts left, as have those a sweep is about to reclaim.  The badges: what a check has counted, found missing or inserted was deserved when it looked, and what is deserved stays so |
| | `Reachable`, `Final` | `[]PendingIsReachable` and `SuccessIsFinal`, same conditions | the first is a conjunct of `ClaimsInv`; for the second, the three writers of a status: a run that finishes has a row that is processed, a reclaim checks it, a requeue has read that it failed (`SuccessStays`) |
| | `Verdicts` | `VerdictIsRight` | `VerdictsInv`: a good verdict in the cache is right for good, a bad one was right when it was written (`EntryRight`); an answer under way is late by less than a tick, and operations are looked through only of a transaction that succeeded (`AskRight`) |
| AccountsProofs | `AccountsSound` | `[]Inv` | sessions by `SessionsInv`: tokens, verifies that may still make one and challenge rows together number no more than the rows ever made (`Paid`), and a jti is the token's place (`Numbered`); reports by `ReportsInv`: nobody mails before the third report, and unless the alert can come twice who mails, will mail and has mailed are one at most (`InTurn`); once the third is in, the alert is due until it is sent or has broken off (`Due`) |
| | `Asked` | `[]AsAsked` | `ProfileInv`: what a request has read was right of its row (`SeenRight`), so that its write either finds that unchanged or mixes just the aspect that changed; a token was mailed to one address, and the one on the profile to the profile's (`MailsRight`, `TokenRight`) |
| | `StaysOut` | `LoggedOutStaysOut` | a logged-out token has its revoked row until it expires (`RowsLast`), so that the query of `requireAuth` finds it or the token is expired |
| RecurringSupportProofs | `RunOncePerPeriod` | `[]Inv` | a row that a scheduler has read has moved past its now, so that the claim is refused, or is whole periods after what was read, with the same frequency (`SnapshotsAgree`); an advance adds whole periods (`AdvanceIs`), so that a row's time is after everything that ran, by a period or by a change of the owner (`RunLater`, `PatchedFromNow`) |
| | `ActiveAndDue` | `RunsOnlyWhenActive` | what is claimed was in a page, so it was due at the sweep's now; the claim's guard says that it is active still |
| CircuitBreakerProofs | `OneCanary` | `[]Inv` | `SlotsHeld`: a slot is held by exactly the callers that probe, from admission to the end of the write that follows the call |
| ScheduledJobProofs | `Apart` | `[]RunsApart` | strengthened by: the claim of a run under way is the row's, or an interval old |
| | `NewerClaim` | `NewerClaimStands` | from the same invariant |
| | `InTime` | `[]Inv` | `LateInv`: while nothing has failed, the row's claim is completed or under way and its replica ticks an interval after it (`NoErrorYet`); after one failure the job is in one of three states (`CheckMissed`, `ClaimFailed`, `ClaimReleased`), from each of which a tick within two intervals makes it good |
| | `Everybody` | `[]EverybodyDone` | `AllDoneInv`: a run has done the job for everybody it owes it up to its cursor who is not on its list; a page is the first of those that follow (`FirstAreFull`), between its rows and the cursor there is nobody who was opted in all along and not passed over (`NobodyBetween`), and a short page is the last |
| SupportTransactionsProofs | `TypeCorrect` | `[]TypeOK` | |
| | `Payments` | `[]PaidOnce` | strengthened by `KeysHeld`: an open transaction's keys are in no row and in no other open transaction |
| | `ReachedWhenDue` | `[]ReachedByAmount`, assuming `NewTargets = {}` | `ReachedInv`: what an open transaction has read or updated exists still, a milestone that is not made yet has no progress, and no PATCH makes one reached |
| | `NoCreditLost` | `[]CreditsAddUp` | from `KeysHeld`: a commit adds one summand (`CreditAdded`), for a hash that no row has yet; a reset empties amount and list together |
| | `MilestonesAgree` | `[]Inv`, assuming `NewTargets = {}` | `TypeCorrect`, `NoCreditLost` and `ReachedWhenDue` |
| | `NeverTooOld` | `BoardSpec => []BoardInv` | `AgesInv`: the rows a reader's result lacks are of this tick when it is stored, since ticks are longer than requests; from then on a row ages and the entry's life ends tick by tick |
| | `Invalidated` | `BoardSpec => []StaleOnlyIfOvertaken` | `FreshInv`: while nothing has failed and no stored result was overtaken, the entry has every row whose invalidation is past its delete, and an invalidation that finds no key has none to delete |
| FrontendProofs | `BusyIsUnderWay` | `[]Inv` | a step is one of the open view and leaves the others' variables alone (`EachView`), so each view has an inductive invariant of its own, and together they are `AllViews`; the header's timer runs for a text, and the request of a profile's tab that is not stale is for the tab and text on the screen (`OneFetch`) |
| | `PaidAsReported` | `[]ReportedIsPaid` | `PanelInv`: what a run of `handleSend` signed is what it was given, it is submitted once, and what follows its wait follows an inclusion (`InStep`) |
| | `VerdictKept` | `VerdictStands` | a good verdict ends the polling (`DialogOK`), so a check that answers late has no effect |
| | `GoalsAgree` | `[]ListIsRight` | `GoalsFollowed`: of a goal that is not excused, the screen has what the database has unless an answer about it is to come, which brings the title written last (`Right`); what was not made is nowhere (`OnlyMade`) |
| | `AnalyticsCurrent` | `[]ShownIsCurrent` | `ChartAwaited`: the request that was not cleaned up is of the selected range; `WalletCopied`: the page's copy of the wallet is right or an event is on its way |
| | `ListInOrder` | `[]PagesInOrder` | one request is under way at most, for the choice and the page that the screen waits for (`OnePage`), so the pages up to the offset are on the screen or failed (`ListGrows`), and the offset stays where there is more (`WithinList`) |
| | `NoLateRows` | `RowsAreAnswers` | from `OneFetch` |

The proofs use only the named assumptions on the constants
(`ConstantsAssumption`, `IndexerAssumption`, `RecurringAssumption`,
`BreakerAssumption`, `JobAssumption`, `SupportAssumption`, `CacheAssumption`,
`PaymentFlowAssumption`, `AccountsAssumption` and `FrontendAssumption`, which
contain those of their parts); TLC evaluates them in the runs.  The other assumptions
are the conditions under which the code keeps what it promises, and section 4
says what happens without them: `Backfill` and `TxIsUnique` in `NothingSkipped`,
`PromptWrites` (a run writes before the processing timeout) and `OneAdmin` (one
requeue at a time) in the theorems about deliveries, and `NewTargets = {}` (no
PATCH of a target overlaps a payment that reaches it) in `ReachedWhenDue` and
`MilestonesAgree`.  There is no bound on
replicas, accounts, profiles, events, rows, schedulers, callers, requests or
amounts in any theorem; clocks and counters of failures are bounded by constants
of any size; of the lists of creators one is the longest.

Model-checked only: all liveness properties, `VerdictComes` of the browser included
(fairness and ENABLED are out of the prover's reach).  Sums are stated by their
partial sums (`AddsUp`, `PartialSums`) rather than by a fold, about which the
prover would need induction over data.

## 6. Running

`tlc -config <run>.cfg MC<Module>.tla` for a run (the longest takes three to four
minutes with two workers), `tlapm <Module>Proofs.tla` for the proofs.

## 7. Plan

In this order:

1. More abstract specifications: *AtMostOnceLedger* (a hash is recorded once,
   credits appear with it) for SupportTransactions; *ClaimedWork* (pending,
   claimed by one, done) for WebhookDelivery and ScheduledJob.
2. Lifecycle: start and shutdown of the schedulers and the server
   (index.ts 195-240).
3. The forms of the browser that are left out below.

## 8. Not modelled

- Analytics, feeds, exports: read-only aggregation.
- Input handling: pure functions on strings.
- E-mail, logging, metrics, tracing: I/O nothing depends on.
- Process lifecycle: one sequence of starts and stops.
- Frontend: pages that show what they are given, and forms that send one request
  and leave (editing a profile, settings, recurring support).
- Clocks of replicas that differ (`Sessions`), the report form's rate limit, and
  requests that the router aborts when a view is left.
- Within modelled components: XDR decoding (an event is decodable or not), the
  signature and body of a webhook request and the check of its URL, the calendar
  arithmetic of months, the contract's storage TTLs, and what e-mails are sent.
