# FinceptWeb: a TLA+ verification project

FinceptWeb is a web terminal for Taiwan, US and crypto markets. A FastAPI
backend (`src/backend`) runs in several uvicorn worker processes next to a
scheduler container; they share one PostgreSQL database and one Redis. What the
project models is the part of the backend where those processes, the requests
inside them, the background tasks they detach and outside services act on the
same rows and keys at the same time: there a unit test sees one order of events
and production sees all of them.

## 1. Inventory

| Component | State | Operations | What is hard | What makes it correct |
|---|---|---|---|---|
| Discussion rounds (`api/discussion/router.py`, `services/discussion_service.py`, `services/discussion/round_runner`) | the `discussions` row (status, current_round, updated_at, roster, conclusion), `discussion_turns`, the in-memory interjection queue of each worker, the detached tasks | /round, its background task, /interject in both modes, /inject, /conclude, edit, delete | check-then-act on the status, two numbering schemes for turns, stale recovery of a live round, memory that is per worker | rounds own their numbers, a dense transcript, one runner, injections after the replies, every product paid for and nothing refunded twice |
| AI quota (`api/discussion/_helpers.py`, `api/ai_agents/router.py`, `cache/redis_cache.py`) | one Redis counter per user with a TTL | reserve n, refund n, charge one chat request | INCR by INCR reservation, the TTL set after the first INCR, refunds into a later window | never more granted than the limit, what is refused costs nothing |
| FinMind chain (`services/finmind_chain_service.py`) | Redis state, lock and stop keys, queue rows | start, stop, read (which heals), the chain task, restart | a lock with a TTL refreshed between symbols, healing by absence of the lock | one chain at a time, never lost in "running", stop is obeyed |
| Paper trading (`services/paper_trading_service.py`, `paper_risk_service.py`, `paper_matching_service.py`) | orders, reservations, fills, cash ledger, kill switch | submit, cancel, fill, expire, kill switch | row locks, reservations against unlocked cash entries, the kill switch and expiry against fills, a batch with one clock | what open orders reserve is there, nothing is open behind the kill switch, an ended order stays ended, a quote is used once, a day order ends |
| Portfolio ledger (`services/portfolio_service.py`, `portfolio_cash_service.py`) | transactions, imports, holdings, append-only cash entries | add, change, delete, import a file, undo it, rebuild a holding; cash entries and reversals by hand | two orders of the same history (one validates, one rebuilds), files dated before existing sales, reversals from two sides | the entries amount to the settlements of the book on every day, holdings to its positions, nothing is reversed twice |
| Stripe billing (`finmind/billing/stripe_webhook.py`) | payment_events, subscriptions | one handler per event type | at-least-once, reordered and concurrent delivery, crash between record and apply | no access that Stripe does not grant, one row per subscription, one handler per event, a failure can be retried |
| Backtest sweeps and walk-forward (`services/backtest_sweep_service.py`, `walk_forward_service.py`, `strategy_auto_sweep_service.py`, `persona_weight_learner.py`, `walk_forward_promotion.py`, `strategy_version_service.py`) | sweep rows with status, kind, frozen weights; one detached task per sweep or walk-forward; the template's persona weights and their versions | create, start, cancel, delete, the worker, the scheduler, the folds, restart; fit or roll back the weights | cancel against a running loop, double start, weights fitted while other sweeps write, versions recorded at once | a test is out of sample, completed means all dates, no pile of scheduled sweeps, one version is active and it is the one that serves |
| Alerts (`services/alert_service.py`, `alert_rules.py`, `tasks/alert_streaks_tw.py`, `notification_service.py`) | alert rows, cooldowns, crossing baselines, event history | create, PATCH, delete, evaluation by overlapping refresh jobs and by the streak job, dispatch | concurrent evaluation, an unlocked PATCH against it, crash between commit and dispatch | a rule fires for good once, a stored side belongs to the level in force |
| WebSocket fan-out (`api/websocket/manager.py`) | per-process registries, bounded send queues, subscription mirror in Redis | connect, re-authenticate, subscribe, unsubscribe, publish, prune, mirror | pruning against subscribing, slow consumers, a socket that changes hands, writes to the mirror overtaking each other | registries agree, private messages reach their user only, what is subscribed is polled |
| Redis cache (`cache/redis_cache.py`) | keys with TTL, locks, token buckets | get/set, single-flight locks, rate limits | lock released after it expired | one holder |
| Authentication (`api/auth`, `auth/`) | users, refresh tokens, sessions | login, refresh, logout, password change | token rotation | left for a later sitting |
| Scheduler (`tasks/scheduler.py`, `tasks/*`) | APScheduler jobs, heartbeats | cron jobs, catch-up, manual triggers | overlap of runs | a job does not overlap itself |
| FinMind ingestion (`finmind/ingest`, `finmind/scripts`, `finmind/scheduler`) | backfill queue, progress rows, raw tables | run one task, resume, due selection | leases, resumption after failure | a task is claimed once and resumed where it stopped |
| FinMind API keys and quota (`finmind/api`, `finmind/billing/quota.py`) | API keys, usage counters | authenticate, meter | fixed windows | metering never undercounts |
| Learning and scoring (`discussion_lesson_service.py`, `lesson_tier_service.py`, `confidence_calibrator.py`, `persona_weight_learner.py`, `verify_discussion_outcome.py`, ...) | lessons, tiers, calibration curves, outcomes | batch jobs over finished discussions | mostly sequential numeric code | left for later |
| Market data, analytics, research, news, screens (`data/`, `analytics/`, `services/*market*`, `api/*market*`) | caches of outside data | read-through fetches, pure computations | numeric, I/O | not modelled: no shared state beyond caches |
| Frontend (`frontend/`), gateway (`gateway/`), deployment | browser state, proxy | UI | | not modelled |

## 2. How the models are made

Every module translates the code named in `PROJECT.json` under `map`. A step is
the code between two points at which another actor can observe or disturb it: a
database statement with its commit, a Redis round trip, the code between two
`await`s. An HTTP refusal (404, 409, 422, 429) that changes nothing is the action
not being taken. What a module leaves out is said in section 7 and in the
component notes.

Names follow the code where TLA+ allows it. Operators whose name ends in a word
after an underscore (`Acquire_NotNX`) are mutants: each is a plausible bug of the
definition that follows it, and the property it belongs to in `mutants` is
violated when it takes that definition's place.

Failures are switched on by a constant (`Faults`), so that a run can say what it
assumes. Where the code keeps a property only until a named event (two requests that
overlap, a lock that expires), the event is recorded in a history variable that no guard
reads (`raced`, `unpaid`, `asked`, `stranded`, `astray`, `apart`, `blurred`), by the
step that is the event and not by its outcome, and the property excepts it. Time is a
tick; every wait that the code bounds has a bound in ticks, and `Tick` is disabled while
somebody would exceed it.

## 3. Modules and runs

### DiscussionRound (`DiscussionRound.tla`, `MCDiscussionRound.tla`)

One discussion: its row, its turns, its owner's quota counter, the interjection
queue in the memory of each worker, and the requests and tasks that act on them.

| Code | Model |
|---|---|
| `discussions.status/current_round/updated_at/agent_ids/conclusion` | `status`, `round`, `age`, `roster`, `concluded`, `exists` |
| `discussion_turns` | `turns`, a set of records round, idx, kind |
| Redis `ai:requests:<user>` | `used` |
| `_PENDING_INTERJECTIONS` of each process | `pending[w]` |
| a `/round` request and its detached task | `pc[r]`, `at[r]` (worker), `rnd[r]`, `idx[r]`, `left[r]`, `ahead[r]`, `doing[r]`, `cost[r]`, `completed[r]` |
| `/interject`, `/inject`, `/conclude` | `ask`, `askAt`, `askRound`; `inj`, `injRound`; `con`, `conAt`, `conSaw` |
| timeouts and `updated_at` | `spent[r]`, `age`, `Tick` |

`RequestRound`, `ForceReset`, `Reserve`, `QuotaSpent` are the request: status check,
stale recovery, reservation. `TaskStep` is the task: the opening UPDATE, context
gathering, drain of the queue before each turn, the turn with its commit, the
end with the status reset and the refund. A commit that fails (`CommitFails`) leaves
the session unusable: the refund is made, but the reset of the status raises too and
is only logged, so the row stays RUNNING until it is stale. `EditRead` and
`EditCommit` are the PATCH of the roster, `Delete` and `Crash(w)` (which loses the
tasks and the queue of the worker) complete it.

History: `unpaid` counts the replies of personas that joined the roster after the
round was charged; `raced` says that two rounds may overlap, because two requests were
between reading the row and opening their rounds at once, because a round was found
stale before its first reply, or because a conclusion was committed into a round.

Runs. `discussion_overlap` lets two unserialised `/round` requests overlap, with
an injection, an interjection, a conclude, an edit of the roster, a crash and a
deletion. Rosters are of one or two personas, the smallest in which rounds overlap
with turns on both sides and an edit changes what a round costs; a quota of 3 is short
of paying for everything, so refusals happen too. One worker, for an interjection
only meets a round in its own.
`discussion_serial` has one `/round` at a time (two request slots, used again and
again), an injection, two interjections for a queue of one place, a roster that may
be edited, database failures and a crash with its stale recovery, and checks liveness
too. What it assumes of timing and of the owner is what the theorems of section 4 do
without.

Fairness (`FairSpec`): weak fairness of each task and interjection (asyncio
schedules what is ready and LLM calls time out), of time, and of the owner's
retries (`OwnerRetries`): recovery from a crash is done by the next `/round`, so
without a retry nothing recovers. Nobody has to start, inject or conclude.

### FinmindChain (`FinmindChain.tla`, `MCFinmindChain.tla`)

The backfill chain: three Redis keys, the rows of `backfill_progress`, and the
start, stop and read requests and the task, each step one round trip.

| Code | Model |
|---|---|
| lock key with its TTL | `lock`, `lockLeft` |
| stop key with its TTL | `stop` |
| state blob | `status` (the counters and messages in it are left out) |
| `backfill_progress.status/started_at`, data tables | `row`, `rowAge`, `data` |
| a start request and its `_run_chain` task | `pc[c]`, `at[c]`, `mine[c]` (status in the blob it read last), `ds[c]`, `sym[c]`, `since[c]`, `spent[c]` |
| `get_state` with `_heal_if_orphaned`, `stop_chain` | `rd[a]`, `st[s]` |
| | `asked[c]` (stop requested, flag dropped, lock lapsed), `stranded` (chunks broken off): history |

A tick stands for 20 s. `RefreshEvery` 1 is the code's 20 s and `LockTTL` 3 its
60 s (2 in `chain_lock`); `QuotaSleep` 3 is its 60 s. The ten minutes of the host
check, the stuck threshold of 15 and the stop TTL of an hour are scaled down in
their order (2, 3 and 4 ticks in the passing runs, 4, 5 and 6 in
`chain_parallel`). Loading the universe and fetching a chunk take at most a tick
(two in `chain_parallel`), which is within the TTL as the code expects.

A chunk may break off in three ways, each an action: its worker dies (`Crash`), the
write of its outcome fails, or its source has no client (`NoClient`: `resolve_client`
raises after the claim was committed and before the `try`). Each leaves the row
"running". A failure of `_count_progress_for_dataset` ends the task (`CountFails`).

Runs. `chain_lock` has two starts in two workers, one dataset of two symbols, a
crash and failures of every kind but a quota wait: the lock property needs a second
contender and a chunk that may be in flight when the first dies, and two symbols so
that the lock must be carried from one chunk to the next. `chain_live` lets one chain
of one symbol run, be stopped, exhaust its quota, fail and crash under a polling page.
`StopObeyed` says that no chunk begins after a stop was requested, unless the
chain had lost its lock, for then the healing page takes it for dead and drops the
flag. `chain_parallel` (expected violation) shows a second chain
starting while the first waits for quota with its lock expired.

Fairness: each task, a start that has won the lock, a polling page and time go
on. Nobody has to start or stop a chain.

### StripeWebhook (`StripeWebhook.tla`, `MCStripeWebhook.tla`)

The local rows of one Stripe subscription and the inbox of its events. Stripe is
the environment: `Creates`, `Changes`, `Pays`, `PaymentFails`, `Deletes` move the
real subscription and emit an event with the second it was made in.

| Code | Model |
|---|---|
| `payment_events.processed_at/error` | `inbox[e]`: absent, processing, failed, processed |
| `subscriptions.status/last_external_event_created_at` | `rowSt[r]`, `rowAt[r]` |
| a webhook request | `pc[t]`, `ev[t]`, and the row it read: `saw`, `sawSt`, `sawAt` |

`Deliver` and `Redeliver` are `_record_event`, `ReadRow`/`ReadMany`/`ReadNone` the
SELECT of a handler, `Insert`, `Ignore`, `Apply` what it does then, `Drop` the early
returns of an event without e-mail or plan and of an invoice of no subscription
(`bare`; the event counts as processed), `Mark` and `MarkFailed` the outcome in a
transaction of its own. `Dies` is a crash anywhere, `StatementFails` a failed statement
of a handler (the marking then fails too, for the session is not rolled back). `Apply`
writes the columns that differ from what was read, as the ORM does.

`astray` is history: a request wrote over what another wrote since it read (there is
no lock), or an end or a change of the subscription was processed before there was a
row to keep it in.

Runs. `stripe_serial` delivers three events one at a time in every order, with a crash
or a failed statement anywhere, and checks liveness: an event whose handler failed is
processed once a row is there. `stripe_concurrent` has two requests at a time, three
events of every status family over two seconds of Stripe's clock (stale and
simultaneous events) and a failure. `stripe_stuck` (expected violation) shows an event
that is never processed.

Fairness: a request goes on, and Stripe redelivers an event until it is
acknowledged (strong fairness, since a request slot may be taken in between).

### PaperTrading (`PaperTrading.tla`, `MCPaperTrading.tla`)

The paper orders of one portfolio in one symbol, its cash and its holding.

| Code | Model |
|---|---|
| `paper_orders.status/filled_quantity`, what was asked for, order of creation | `status`, `done`, `terms`, `book` |
| `expires_at` in the past; the market's session | `due`, `open` |
| `paper_fills` | `fills`: order, idempotency key, quote, quantity |
| sum of the cash entries, `holdings.quantity` | `cash` (in units of 1 / `Unit`), `held` |
| `paper_risk_policies` | `on`, `cap` (no policy: trading on and a cap above any book) |
| `SELECT ... FOR UPDATE` of the portfolio | `lock` |
| a request, a run of the job | `pc[t]`, `clock[t]` (execution time, candidates left, cached quote), `sawBook[t]`, `sawCash[t]` |
| | `outCash`, `outShares`, `moves`: history, see `ReservationsCovered` |

A transaction is two steps. `Begin` takes the row lock and reads; one of the
actions of `Finish` commits what follows from the reading, or `Leave` changes
nothing. `sawBook` is kept apart from the tables so that a writer without the lock
would show. `MoveCash` is the one writer that takes no lock. The job takes its
time, its candidates and its quote before any lock (`Arrive`) and then one
transaction per candidate; a request that matches takes its time before the lock
too. Its Redis lock is left out, for it may expire under a long run: `Jobs` is the
number of runs at a time. `Dies` is a crash anywhere.

Prices, quantities and fees are small integers; slippage is a number of ticks and
the price of a limit order is clipped to its limit as in the code. A quote is its
identity, price and size; that it may be stale or missing is `Leave` or `Skip`.

Run. `paper` has two orders, each of either of two kinds: a market order of the
day to buy two shares, which fills above its reference price, and a limit order
good till cancelled to sell one. The cash pays for one purchase and not for both,
the quote is for one share, so that partial fills and repeated matches happen, and
the cap is two open orders. One request and one job run at a
time. One withdrawal, own trade, crash or opening of the market may happen
(`MaxMoves`): each of them is the disturbance of one transaction of somebody else.
The same run checks that day orders end.

Fairness: the scheduler starts the job every 15 seconds and a run goes on, the
lock being granted to it again and again (strong fairness); a transaction comes to
an end; a transaction that expires an order does not fail forever. Nobody has to
send a request, and the market need not open.

### PortfolioLedger (`TradeHistory.tla`, `LedgerBook.tla`, `PortfolioLedger.tla`, `MCPortfolioLedger.tla`)

The transactions of one portfolio, the imports they came from, the holdings
rebuilt from them and the append-only cash entries that settle them.
`TradeHistory` is the arithmetic: the order of a history, the position after each
transaction, what `_rebuild_holding` stores, which rows an import refuses.
`LedgerBook` is the promise: a book in which each transaction has at most one
settlement, that of its present terms. `ImplementsBook` maps the entries that are
not reversed to the book's cash.

| Code | Model |
|---|---|
| `portfolio_transactions`, in the order of creation | `trade` (terms by number), `made` |
| `import_id`, `portfolio_transaction_imports` | `source`, `imported` |
| a transaction that a paper fill refers to | `paper` |
| `holdings.quantity` | `holding` |
| `portfolio_cash_entries`: settlements, their reversals, entries and reversals by hand | `settled`, `undone`, `manual`, `handback`; `posts` numbers the settlements of a transaction |
| a cash request between its check and its insertion | `depositing[r]`, `reversing[r]` |

`Add` (by hand or by a paper fill), `Update`, `Delete`, `Import`, `Rollback` are
one step each: they are one database transaction under the lock of the portfolio
row. Requests on cash entries take no lock and are two steps. A rebuild reads the
transactions of a day in any order, so `Rebuilt` is a set of holdings.

Run. `ledger` has three transactions, two settlements per transaction, two files
(a sale before others, and a sale with a dividend) and two cash requests of one
key. Three is the least number in which a file can be dated between a purchase and
a sale; two settlements let a transaction change and change back.

### StrategySweeps and StrategyVersions (`MCStrategySweeps.tla`)

`StrategySweeps` is all sweeps of one strategy template.

| Code | Model |
|---|---|
| `backtest_sweeps.status/fold_kind/weights_override/cancelled_at/completed_at`, the dates it resolves to | `status`, `kind`, `override`, `cancelled`, `completedAt` (with `clock`), `dates` |
| the discussions of sweeps | `discs`: sweep and date |
| a detached task (`run_sweep_worker`, or `run_walk_forward` that calls it) | `pc[t]`, `on[t]`, `todo[t]`, `fold[t]`, `half[t]`, `fit[t]` |
| requests and the scheduler between check and write | `cancel`, `cleared`; `free`, `queued` |

Weights are abstracted to the discussions they may have been fitted to: that is
what tells in-sample from out-of-sample. The days of a fold are the arithmetic of
`plan_walk_forward`. A chunk of dates is one step, for nothing else reads what it
writes. `MaxFaults` bounds cancels, deletions, database failures and crashes
together.

`StrategyVersions` is the weights the template serves and their version history:
`persona_weights` and `strategy_versions`, under any number of fits (the end of a
production sweep, `POST /strategies/{id}/learn`, the promotion of a fold) and rollbacks
at READ COMMITTED. A map is abstracted to the fit it is from.

| Code | Model |
|---|---|
| `strategy_templates.persona_weights` | `live` |
| `strategy_versions`: payload by number, `status = 'active'` | `versions`, `active` |
| a call of `learn_weights_for_strategy` or a promotion | `step[f]`, `found[f]` (the active versions its UPDATE found), `number[f]` |
| a call of `rollback_to_version` | `step[r]`, `found[r]`, `target[r]`, `seen[r]` (the map it read) |
| | `raced`, `apart`: history, see `OneActive`, `ServedIsActive` |

Run. `sweeps` has three rows, two tasks, two folds over four days with one day to
train and one to test, production sweeps over the days of the first fold, one
walk-forward request and one fault. Two folds are needed for the tests of the
first to be there when the second is fitted; three rows are two halves of a fold and a
production sweep beside them. Beside them, three fits and two rollbacks of the
weights: two fits leave something to roll back to, the third races a rollback, and two
rollbacks race each other. The two parts share no state, so an execution moves one of
them.

### PriceAlerts, QuoteSockets and AlertDelivery (`MCAlertDelivery.tla`)

`PriceAlerts` is the alert rules of one symbol, `QuoteSockets` the WebSocket
fan-out, `AlertDelivery` the two together: a refresh job polls the symbol only
while the registry names it, and a committed firing is published to the workers.

| Code | Model |
|---|---|
| `price_alerts` | `row`, `repeat`, `triggered`, `level` (target, line or RSI level), `side` (`runtime_state`), `cooling` |
| `alert_events` | `fired`: how many name the alert |
| `SELECT ... FOR UPDATE` of a refresh job | `lock` |
| a refresh job, the streak job | `job`, `seen`, `price`, `outbox`; `single` (what the streak job has read) |
| a PATCH between its SELECT and its UPDATE | `editOf`, `editKind`, `editLevel`, `sawSide` |
| | `sideLevel` (the level a side was judged against), `blurred` (a tick stored a side while a PATCH of the level was under way that had read none): history, see `SideFitsLevel` |
| `ConnectionManager` of a worker | `user` (`_ws_user`), `subs` (`_subscriptions`), `indexed` (`_symbol_subs`), `queue` |
| a connection, its token | `conn`, `expired` |
| `ws:subs:<worker>` in Redis, SETs on their way | `key`, `writes` |
| the pub/sub listener | `listening`, `inbox` |
| | `shown`: history, what was sent to whom |

A PATCH changes one thing, and writes `runtime_state` only when it read one, as
the ORM does. Only rules that fire upwards are modelled; the others mirror them.

Run. `alerts`: the two halves are large together, so `Init` chooses one of five
sets of bounds (`Budgets`): three are rich in owners, jobs and edits, with the
symbol subscribed in a worker outside the model, two in clients, a firing and a
worker that may die, a write or a listener that may be lost. All five belong to
one specification and every property is checked in each. What is not covered is
an execution in which both halves use up everything.

Fairness: the mirror loop of a live worker goes on (`_subs_mirror_loop` never
returns and swallows its exceptions) and a write it has begun gets to Redis or
fails. Nothing is asked of clients, owners or jobs.

## 4. What is proved

All theorems hold for every value of the constants that satisfies the named
assumptions, and are checked by TLAPS to the last leaf.

* `DiscussionRoundProofs`: `TypeCorrect`; `RoundsAreOwned`, `TranscriptIsDense`
  and `InjectionsLandLast`, with no assumption on serialisation, timing or
  failures. The properties are not inductive: a runner counts its next index
  itself, so `RoundInv` says how that counter relates to the rows (`Numbered`:
  no round number in use is above the row's; `Owned`: live runners own their
  rounds; `Filled`: every index below a runner's counter is in the transcript;
  `InjectsAhead`: what was injected into a runner's round is not below its
  counter).
  `OneRunnerUntilRaced`, `StaleIsDead` and `InjectsBetween` assume only that a turn fits
  the stale threshold (`TurnFits`; `_stale_threshold_seconds` is twice the longest
  turn). They assume nothing of the owner, of the gathering or of the workers: until one
  of the events that `raced` records there is one runner, and no injection falls into a
  round being spoken; and at any time a request that recovers a silent discussion takes
  it from no runner that has committed a reply. `Beat` bounds the age of the row by the
  clock of a runner that has spoken, `SerialInv` adds that one request or task at most is
  on its way or at work (`Alone`) and that the row is RUNNING while it is (`Running`).
  With finitely many requests, interjections and conclusions (`FiniteActors`)
  `WorkPaidFor` and `QuotaExact`, for rosters that change at any time. `Bill` says what
  the counter, with `unpaid`, is made of: the turns spoken, the turns that are reserved
  and neither spoken nor refunded (`Due` of each request, summed over the requests), the
  questions charged and the conclusions. Each action changes one summand and the counter
  by the same amount; a crash or a deletion leaves the counter above the sum.
* `FinmindChainProofs`: `TypeCorrect`, and with no assumption on timing or failures
  `LockedUntilOutlived`, `LockIsOwn`, `OutcomeIsRecorded` and `LedgerIsTrue`. That a
  chain which holds the lock has its own (`LockInv`) is kept by every step but one, the
  tick that lets a lock expire under its chain, which `Outlived` records: until then
  one chain lives, no task is without its lock, and nobody refreshes or releases a
  foreign one. The code does not prevent that tick (its quota wait is as long as the
  TTL): `chain_parallel` shows what follows it. `OutcomeIsRecorded` excepts the chunks
  that broke off in one of the three ways of section 3 (`stranded`).
  `ResetIsSafe` needs only that a chunk takes less time than the stuck threshold
  (`ChunkMax < StuckAfter`, an hour in the code): `FreshInv` bounds the age of the row
  that is being ingested by the task's own clock.
  `StopIsObeyed` is about any number of chains, stop requests, polling pages and
  crashes, if the flag outlives a load, a fetch and a wait for quota
  (`FlagOutlivesSteps`; it lives for an hour, a wait for a minute). `StopInv` says that
  what has passed of a wait and what is left of the flag add up to its whole life
  (`Flagged`), unless it was dropped by a page that took the chain for dead.
* `StripeWebhookProofs`: all for any number of requests at a time, in any order of
  delivery, with failures anywhere. `TypeCorrect`; `AccessIsJustified`; `OneHandler`,
  from `OnceInv` (the event at hand has a row in the inbox); and `NoOvergrant`, whose
  exception is `astray`: until then there is one row, and `WordInv` says that while
  Stripe grants nothing some newest event says so, and once it is handled the row says
  so too, with a time that only what is as new can pass (`LastWord`).
* `PaperTradingProofs`: with no assumption but that the orders are finitely many,
  `TypeCorrect`, `ReadsStayTrue`, `SwitchHolds`, `CapHolds`, `EndedStaysEnded`,
  `QuoteUsedOnce` and `FillsAreCounted` (an order's filled quantity is the sum of
  its fills). `LockInv` says that a task in a transaction has the row
  lock and that what it has read of the orders, the policy and the holding is
  still there; from it `StepEffect` says what one step can do to the orders in
  terms of their present state, and the properties follow from that.
  If the portfolio starts with no debt (`Cash >= 0`), `ReservedIsThere`: cash and
  shares cover what the open orders reserve, up to what was taken out past them.
  It is inductive together with `SawCovered`, the same of what a transaction has
  read: the cash it saw may since have gone, by as much as `outCash` grew.
* `PortfolioLedgerProofs`: `TypeCorrect`; `EntriesOnce`; `OnlyImportsUncover`;
  `LedgerImplementsBook`, the refinement; `BalanceFollows` and `HoldingFollows`, for any
  inputs, files and requests. The invariant `Safe` says that settlements are numbered,
  that counter-entries carry what they reverse, that reversals by hand only touch
  entries by hand, and (`Follows`) that exactly the last settlement of a live, priced
  transaction is open. `SettleEffect` and `ReverseEffect` say what the two operations do
  to the open settlements; each action of the ledger is then one of the book. For the
  balance, an entry and its counter-entry add up to nothing (`UndoneSum`), so the
  balance of a day is that of the entries that stand, and those are the settlements of
  the book (`StandingSum`). `HoldingFollows` rests on `Stored`: each holding is one that
  a rebuild of the present history may give, because every operation rebuilds all the
  instruments whose history it changes. What a rebuild gives (`RebuiltIs`) is not less
  than the position, for a sale of too much gives up a debt and never shares
  (`NeverLess`). If no sale is uncovered and no day has both purchases and sales, it is
  the position in whichever order a day is replayed: the last sale of a day by number
  bounds what all of them take (`SoldIsThere`), so nothing is given up (`NothingGiven`).
* `StrategySweepsProofs`: `TypeCorrect`, `OutOfSampleAlways`,
  `CompletedIsWholeAlways`, `NoPileAlways`, for any number of sweeps, tasks, folds
  and faults. `RowsStay` says that what a row is never changes once it is created;
  `Frozen` adds that a task's sweep is of the kind and the days of its fold and
  what it has fitted are train discussions of those days. From `WindowsApart`,
  the arithmetic of two windows, they come before the days of the test.
  `Looped` and `Piled` are the strengthenings for the others.
  Of the versions, for any number of fits and rollbacks at once and failures anywhere,
  `OneActiveAlways` and `ServedIsActiveAlways`: what a caller has found active still is
  what it must supersede, if its number is still free (`History`, `Kept`).
* `AlertDeliveryProofs`: types of both parts; `FiringIsFinal` from `Held` (what a
  refresh job evaluates is locked and untriggered) and `HeldByStreak`; `SideAlwaysFits`
  from `SideInv` (while a PATCH of the level is under way that read no side, its rule
  has none or the overlap is on record); `PrunedStaysPruned`; `ShownAlwaysToOwner` from
  `Private` (a queued note is for the socket's user); `DeliveryImplementsAlerts` and
  `DeliveryImplementsSockets`: the composition implements each of its parts, so what is
  proved of a part holds of it; and `ShownAlwaysRecorded` from `Carried` (what is under
  way tells of a firing that was committed).

`FiniteSums` holds what the proofs of the quota, the reservations and the ledger
share: sums over finite sets. The community modules' `MapThenSumSet` is a fold, defined by
recursion on the subsets of its argument. `Total` is that table of sums; the
module proves that it exists, that it grows by the value of a member that is added,
that it is additive, monotone and blind to a renaming of the members, and that
`MapThenSumSet` is equal to it. A fold in which the order matters, as `FoldLeft`
over a history, is treated the same way: `FoldExists` and `FoldUnique` say that the
table exists and is the only one, and what it holds is then shown for the numbers
up to n (`UpToInduction`). The library's induction theorems take an operator as
parameter and are out of the provers' reach, so the inductions are done by hand:
subsets of a finite set are ordered well by inclusion, and a smallest counterexample
would have a smaller one.

Only model-checked: `RoundSettles`, `AbandonedRecovers`, `OrphanHealed`,
`FailedRecovers`, `DayOrdersEnd` and `SubscriptionIsPolled`, which hold under
fairness (there is no ENABLED for the provers); `AnsweredOnce`; `OneRow`, which is about
one request at a time (with two it is false, see section 5). `OneRunner`,
`StaleMeansDead`, `OneChain` and `LockedWhileLive` are checked as they stand in runs that
choose their timing, and proved with the exceptions that the code allows. Every other
property of the passing runs is a theorem. `TypeOK` of every module is a theorem and not
in the runs.

## 5. Disagreements between code and comments

The runs marked `violation` keep the two that matter most (`OneChain`,
`EventProcessed`); their findings quote the text. Others that the models show, with the
change of a .cfg that reproduces them (the property is defined in the module):

| Property | Change | What happens |
|---|---|---|
| `StaleMeansDead` | `Discussion_serial`, `GatherMax = 3` | a context gathering longer than the stale threshold gets a live round force-reset |
| `OneRunner` | `Discussion_serial`, `SerialPosts = FALSE` | two requests pass the status check together, and the first of two overlapping rounds resets the status under the second |
| `RosterFrozen` | `Discussion_serial` | the PATCH reads a draft, a round is opened, and the roster is committed: the docstring of `update_discussion` says it is frozen once a round has run |
| `DoneUntilNextRound` | `Discussion_serial`, `Concluders = {c1}` | a conclude during a round is overwritten by the round's reset |
| `LockedWhileLive` | `Chain_lock`, `Faults = {"quota"}` | the quota wait loses the lock; the woken chain sets or deletes the lock of the next one |
| `NoRowLeftRunning` without `stranded` | `Chain_lock` | `resolve_client` (`runner.py:391`) raises after the claim was committed and outside the `try`: the row stays "running" |
| `OneRow` | `Stripe_concurrent` | created and updated delivered together both find no row and both insert one, though `stripe_webhook.py:323` says "same external_sub_id = same row"; after that every lookup of the subscription raises |
| `NeverOvergrants` without `astray` | `Stripe_serial` | a deletion, or an update without e-mail or plan, that overtakes the creation is marked as processed and lost |
| `DayOrdersEnd` | `Paper`, `Batch = 1` | with more open orders than `BATCH_SIZE` the job visits the oldest ones each time, and a younger day order never expires |
| `NeverShort` | `Ledger` | a file dated before existing sales is imported and leaves a later sale uncovered |

What the models contain and a property makes an exception for, or none forbids:

* Ledger: the rebuild reads the transactions of a day in any order, the validation
  by their age, so a holding may exceed the position on a day with a purchase and a
  sale (`HoldingIsHistory`).
* Discussion: the interjection queue is in the memory of the worker that served
  `/interject`. The round may run in another of the `--workers 3` processes
  (`docker-compose.yml:92`) and then never drains it, though `discussion_service.py:507`
  counts on "the SAME process"; and what is queued after the last drain waits for the
  next round. The runs have one worker in them, and nothing is claimed of two.
* Sweeps: the worker writes `running` and `completed` whatever the row has become,
  so a cancel that arrives in between is lost (`Mark`, `Complete`; the docstring of
  `cancel_sweep` says the worker stops). Two `/start` requests make two workers of
  one row. `has_active_walk_forward` is a check before an act, and between two halves
  no row of a fold is active, so two orchestrators can run; cancelling a fold's
  sweep does not stop its orchestrator. `NoPile` therefore excepts sweeps that were
  cancelled or started by hand. What a production sweep or `/learn` writes on the
  template was fitted to every sweep of the strategy, test folds included, so nothing is
  claimed of what the template has learnt from. A test fold whose frozen map is empty is
  given the template's weights (`synthesizer.py:537`), and `OutOfSample`, which is about
  the frozen map, says nothing of it. `latest_validated_weights` does not leave out a
  JSON null, so a test fold without weights hides those that were validated before it. A
  crash leaves a sweep `running` for good, and the scheduler skips the strategy from
  then on.
* Versions: a rollback whose UPDATE has waited for a fit that was being committed does
  not find the fit's version, takes the next number, and leaves two versions active,
  although `strategy_version_service.py:89` says "exactly one active version"
  (`raced`). A fit that lost its number, or died between map and version, has written a
  map that no version holds until the next fit or rollback (`apart`).
* Alerts: a PATCH of the line that read the row before its first side was stored leaves
  that side in place, so the next tick may take the move of the line for a crossing,
  which the comment at `alert_service.py:201` says cannot happen (`blurred`). A one-shot
  rule that has fired and is then PATCHed to repeat stays triggered and never fires
  again. A rule is evaluated only while some client subscribes to its symbol, although
  `notification_service` says that alerts land with no tab open. One deleted rule makes
  the commit of the streak job fail, and none of its alerts fires that day. A full queue
  gives up alerts along with quotes, a listener that is subscribing again loses them,
  and a crash between the commit and the dispatch does too: delivery is at most once.

## 6. Bounds

`MaxRounds`, `MaxCrashes`, `MaxBreaks`, `MaxNow`, `MaxMoves`, `MaxTrades`, `MaxPosts`,
`MaxProduction`, `Walks`, `MaxFaults`, `MaxFirings` and the members of `Budgets` cap
counters in guards. The age of a
discussion is capped at one past the stale threshold, that of a ledger row at
the stuck threshold: beyond these the code does not tell ages apart. The numbers
of requests are the sizes of the sets given in each .cfg. `CHECK_DEADLOCK FALSE`
is set in every run because these systems may stop: once every request is
answered, nothing has to happen.

## 7. Not modelled

Within modelled components: the text of prompts, replies and conclusions, the SSE
stream, the frozen-persona filter of sweep discussions, the market context; the counters
and error texts of the chain's state blob and its one-day TTL, the host shell script,
Redis outages; Stripe's signature, plan codes, dates and e-mail addresses; limits on
notional and daily loss; average costs, FX rates and valuation; the post-mortem pass and
lesson tiers after a sweep; that a caller's free idempotency key of a cash entry may be
one the ledger derives for a settlement (`append_entry` has one name space, the model
two); news alerts, thesis events, web push, e-mail and LINE, the 0.01% filter of quotes.
Components left out are in `PROJECT.json` with the reason.

## 8. Plan

Built: DiscussionRound, FinmindChain, StripeWebhook, PaperTrading; PortfolioLedger with
its abstract book; StrategySweeps and StrategyVersions; PriceAlerts and QuoteSockets
composed in AlertDelivery; each with its proofs.

Next, in this order: the learning pipeline (verdicts, lesson tiers, post-mortems) after
StrategySweeps and StrategyVersions; AiQuota (reservation, refund and expiry of the
counter that DiscussionRound takes as atomic) and its composition under DiscussionRound;
refresh-token rotation; the FinMind ingestion scheduler; metering of API keys. Abstract
specifications worth a refinement: a discussion as a sequence of numbered rounds, a
chain as an owned lease, an inbox as a set of events applied at most once. The first two
follow from what is proved, up to the events that `raced` and `Outlived` record: their
refinements are the next proofs.
