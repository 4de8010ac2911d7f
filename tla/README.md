# A verification of rtt's trading path

`rtt` is a low-latency trading pipeline for Polymarket: a WebSocket feed keeps
order books, strategies turn book snapshots into triggers, and an executor
turns triggers into signed orders under safety limits. Beside it grow the parts
of a market maker: a registry of markets, planned subscriptions, a versioned
hot state, notice-driven runtimes and the maintenance of quotes. This directory
holds TLA+ modules for both, the TLC runs that check them and the theorems TLAPS
proves about them. Paths below are relative to the repository.

    tlc -workers 2 -config Executor.cfg MCExecutor     # a run: cfg, then module
    tlapm Executor_proofs.tla                          # a proof module

## 1. Inventory

### pm-executor (`crates/pm-executor/src`)

| part | state | operations | what is hard | what makes it correct |
|---|---|---|---|---|
| Circuit breaker, `safety.rs:28` | three atomics: orders, cents, tripped | `check_and_record`, `trip`, `stats` | any number of callers between the four atomic accesses of a call; the cast to cents | no limit is passed; nothing is granted after a trip; the counters cover what was granted |
| Rate limiter, `safety.rs:135` | window start, count | `try_acquire` | windows against real time, a wall clock set back | a bound for every second, never stricter than the limit |
| Order guard, `safety.rs:184` | one flag | `try_acquire`, `release` | many ways out of an iteration | every way out releases it |
| Execution loop, `execution.rs:191` | stage of the loop, pre-signed cursor | one iteration per trigger | dispatch fails before, on or after the wire; refill and resubmission | no order without a grant; no trigger after a trip |
| State file, `state.rs` | orders, cents, tripped on disk | `load`, `save` | `fs::write` truncates first; two writers | limits hold over restarts |
| Health monitor, `health.rs` | none but its interval | a 30 s tick that saves | its three loads are not one snapshot; it runs during main's shutdown | saves never go back |
| Main, `main.rs:71` | the shutdown sequence | start, Ctrl+C, drain, join, final save | a drain that times out; a thread that must end | Ctrl+C ends the process with its counters on disk |
| Bridges, `bridge.rs` | a broadcast receiver, channel ends | two forwarding tasks | lag, a blocking send in a task, a shutdown that races a message | order kept, nothing lost, shutdown cascades |
| Quote order manager, `order_manager.rs`, `order_state.rs` | working quotes, fill ids seen | `reconcile`, `reconcile_with_exchange` | late and reordered observations, timeouts, resync | converges, counts a fill once |
| Quote throttle, retries, `execution.rs:52-127` | a window and a count | `try_acquire`, `retry_decision` | window edges, back-off caps | bounded command rate |
| Credentials, `config.rs`, `execution.rs:129` | none | environment over file, `build_credentials` | two addresses, one setting | an order is signed and sent for whom it is meant |
| Health endpoint, alerts, logging | none | HTTP, parsing | - | - |

### pm-strategy (`crates/pm-strategy/src`)

`runner.rs` takes snapshots from a channel, asks a strategy and sends triggers on;
`threshold.rs` and `spread.rs` are the strategies: when they fire is a comparison of f64s
parsed from decimal texts, and the order that follows must be one the book called for.
`runtime.rs` holds the notice-driven runtimes over the hot state (scaffolding that `main.rs` does not
use yet): a notice names a subject and a version, the store is read later, and what the strategy
sees must nevertheless catch up. Its `InventoryStore` adds up fills. `quote.rs`, `strategy.rs`,
`config.rs`, `backtest.rs` are types, construction and offline replays.

### pm-data (`crates/pm-data/src`)

`ws.rs` connects, reconnects with back-off and broadcasts messages; `feed.rs` applies them to
`orderbook.rs` and `reference_store.rs` and publishes snapshots and notices;
`subscription_plan.rs` deals the assets to shards and plans the diffs of a new set of them;
`market_registry.rs` refreshes the universe of markets, in the pages of `registry_provider.rs`, and keeps the
last snapshot (`snapshot.rs`) for when that fails; `types.rs` makes updates and notices of messages. The hard
parts are reconnection (a book kept from before it is stale), late messages, assets that change hands
between shards, overlapping refreshes that read a catalog page by page while it changes.

### rtt-core (`crates/rtt-core/src`)

`connection.rs` is the pool of warm HTTP/2 connections; `executor.rs` and `queue.rs`
hold the threads of the benchmark executor; `hot_state.rs` is the versioned market store, whose books keep
levels counted in ticks while tick sizes and registrations change around them;
`clob_executor.rs` has the two dispatch paths and the pre-signed pool; `clob_order.rs`,
`clob_signer.rs`, `clob_auth.rs`, `clob_request.rs`, `clob_response.rs`, `request.rs` build, sign and
parse; the rest are clocks, metrics and types.

### How the parts interact

    ws task -> feed -> [broadcast, drops the oldest] -> bridge task
      -> [mpsc 256] -> strategy runner -> [mpsc 256] -> bridge task
      -> [crossbeam 256, blocking send] -> execution thread -> connection pool -> exchange

    execution thread --atomics-- circuit breaker --atomics-- health monitor, main
    health monitor, main --fs::write-- state file --load-- the next process
    main --watch channel-- tasks;  main --AtomicBool-- execution thread

    not wired into main:
    registry -> universe -> planner -> feed managers, a shard each
    feed updates -> hot state, notices -> runtime -> triggers or desired quotes
    desired quotes -> order manager -> throttle, retries -> exchange -> fills -> inventory


## 2. Modules

| module | models | abstract of / composed with |
|---|---|---|
| `Budget` | the promise of the limits: an order is granted only within both | abstract |
| `CircuitBreaker` | `safety.rs` CircuitBreaker, every atomic access an action | implements `Budget` |
| `RateLimiter` | `safety.rs` RateLimiter, `execution.rs` QuoteCommandThrottle and `retry_decision`, over a wall clock | free choice in `Executor` |
| `Executor` | loop, guard, dispatch, pre-signed pool, state file, health monitor, main, crash and restart | uses the actions of `CircuitBreaker` by INSTANCE |
| `Strategies` | when the two strategies fire and the trigger they make; operators only | extended by `Orders` |
| `Orders` | amounts, order, signature, request, credentials, subscribed assets; operators only | extended by `TriggerPipeline` |
| `TriggerPipeline` | both bridges, the runner, the four channels, shutdown, from books to orders | its loop is the loop of `Executor`, reduced to taking triggers and sending orders |
| `Feed` | `ws.rs` reconnection and back-off, the broadcast channel, `feed.rs` processor, `orderbook.rs` | upstream of `TriggerPipeline`, whose `Publish` is its snapshots |
| `Connections` | the pool of `connection.rs`, the threads of `executor.rs` and `run_benchmark`, with the runtime each connection lives on | `Executor` takes a pool's outcomes as a free choice |
| `Quotes` | `order_manager.rs`, `order_state.rs`, `quote.rs`, the inventory, with an exchange that loses, rejects, fills | - |
| `HotState` | `hot_state.rs`: each operation of the store and its reads | extended by `NoticeRuntime` |
| `NoticeRuntime` | `runtime.rs`, the replays of `backtest.rs`, the updates of `types.rs` | over `HotState` |
| `MarketRegistry` | `market_registry.rs`, `registry_provider.rs`, `snapshot.rs` | composed in `Universe` |
| `Subscriptions` | `subscription_plan.rs`, the managers and stores of `feed.rs`, `reference_store.rs`, the commands of `ws.rs` | composed in `Universe` |
| `Universe` | the selected universe becomes the assets of the managers | `MarketRegistry` and `Subscriptions` |
| `X_proofs` | the theorems about `CircuitBreaker`, `Executor`, `Connections`, `TriggerPipeline`, `Feed`, `Quotes`, `NoticeRuntime`, `Universe` | those of `Executor` use those of `CircuitBreaker` by INSTANCE |
| `MCX` | the instances TLC checks of `CircuitBreaker`, `Executor`, `TriggerPipeline`, `Quotes`, `NoticeRuntime`, `Universe` | - |

A definition named `X_Fault`, with the fault in place of the word, is `X` with one mistake the code
could have made (a dropped guard, a late comparison, a missing reset). No action uses it; each shows
that the property named beside it in `PROJECT.json` can fail.

**CircuitBreaker.** `ordersFired`, `usdCents`, `tripped` are the atomics; `pc[c]` is where a
caller is between them. `LoadTripped`, `FireOrder`, `CommitUsd`, `StoreTripped` are the four
accesses of `check_and_record`, `Trip` is `trip()`. `cost` is price times size in
tenths of a cent and `CentsOf` is the cast `(price_f * size_f * 100.0) as u64`: it
drops the fraction, and, for the products in `ShortCosts` that IEEE arithmetic leaves
just below a whole cent (0.58 * 0.5 * 100.0 = 28.999...), a cent more.
`granted`, `grantedCents`, `exposure`, `restored`, `stragglers` are history. The
counters are unbounded integers; `CountersBounded`, which is proved, is why the
u64 of the order counter cannot wrap.

**RateLimiter.** `kind` is which of the two it is. Of the limiter there is one caller, the execution
thread, so `try_acquire` is one action: `OpenWindow` or `CountCall`. `real` is real time, `wall` what
`SystemTime::now` reads; an adjustment may set it back. A limit of zero still lets one call open
each window, as in the code. The throttle (`Submit`) refuses without counting and says when the
window ends; `RetryDecision` is `retry_decision`, the back-off doubling up to its cap. Nothing
calls them yet, so the caller is the model's: it sends a command when it is due, does what it is told
after a failure, and waits where it is told to wait.

**Executor.** `stage` is the place in the loop (`poll`, `check` inside
`check_and_record`, `wire` between write and answer, `stopped`), `inFlight` the order guard,
`cursor` the pre-signed pool's. Each way through an iteration is an action: `TakeTrigger`,
`CheckStep`, `Refused`, `Send`, `Unsent` (nothing reaches a connection),
`Answered`, `ColdPath` (a connection fails). `SaveStep(s)` is the sequence the health monitor and
main share: two loads of `stats()`, the load of the flag, the truncation and the
write of `fs::write`. `SavedCents` is the division and multiplication by 100.0
with its truncating cast. `CtrlC`, `DrainEnds`, `Join`, `Exit` are main's
shutdown. `Restart` after `Exit` is a clean start; `Restart` while `up` is a crash at that
point and the start after it. Not in this model: the limiter's decision and the arrival of
triggers, both free choices.

`DrainCoversSave` names an assumption about time. The drain of main (`main.rs:309-316`)
awaits `ws_handle` first, and nothing stops that task, so the five seconds
always run out and `health_handle` is never awaited. When TRUE, the five seconds are
at least long enough for a save in progress to finish; when FALSE, they are not.

**Strategies** and **Orders.** A decimal text is its digits and how many of them follow the point, so
that what a parser does with it is arithmetic. `SpreadFires` gives a set: the difference
of two f64 falls on either side of a limit it equals as a decimal. `ParseScaled` and `ComputeAmounts` are the
fixed-point conversions with their refusals (too many digits, overflow, a form that does not
parse). A signature, like an HMAC, is the record of what it covers: `OrderRequest` is the order, its signature by a
key for a contract, the payload and the headers. `Overridden`, `HasCredentials`, `SignerParams`, `L2Credentials` are
how the fields of the configuration reach them. The scale has `Decimals` digits, six in the code and three in the
run, where TLC's integers hold the products; the cap `MaxAmount` shrinks with it. The
cryptography, the salt and the text of JSON and headers are left out.

**TriggerPipeline.** `config` is one of `Configs`, with the environment's credentials over the file's. In
the channels a snapshot is its number, a trigger the number of its snapshot; `published` has what the
snapshots say. `at[t]` says whether a task receives, sends, is busy or done. The
broadcast channel is the interval from `Oldest` to its end; a receiver behind it lags to
`Oldest`. `Blocked` is crossbeam's `send` on a full channel: it holds a tokio worker, so with
one worker no other task is polled (`CanPoll`). `sent` is the triggers whose orders left the process.

**Feed.** `truth` is the order books at the exchange, `books` those of
`OrderBookManager`, both as sets of levels. `link`, `firstConnect`, `backoff`, `reconnects` are the
state of `WsClient::run`; `FirstReturn` and `LaterReturn` are what `run` does when `connect_and_run`
returns, which the flag `first_connect` tells apart. `channel` holds what was sent and not
received, and `Broadcast` drops the oldest of a full one. `Process` is all of
`process_adapter_message`. `seen`, `dirty` are history: `dirty` names the assets that lost
a message to a lag since their last snapshot, and every property is about the others.
The exchange (`SendBook`, `Move`) is modelled from what the code relies on: a connection delivers
in order, a subscription is answered with the book, every change after it is sent.
Reconfiguration is in `Subscriptions`; `shutdown` is left out: `run` borrows the manager mutably until it
returns and `main.rs` moves it into the task, so nobody can call it.

**Connections.** A slot of the pool holds a connection (`owner`, `link`) and its flag (`healthy`).
A thread may have one to itself: one it has opened and not yet swapped in, or one
replaced while it awaits an answer on it (`own`). `th[t].at` is where thread
`t` is: `send`, `wait`, `dial` and `swap` are the steps of `send_start`, `collect` and `reconnect`,
which both threads run; `check` is `ensure_healthy`, `report` is `report_failure`. The mutex of a
slot is held over an await only by a health check (`Held`); every other critical section
is one step. What no test sees is `Driven`: `connect_h2` spawns the task of a
connection on its caller's runtime. Both threads have a `current_thread` runtime, polled
only inside their `block_on`. So a connection that the execution thread reopened stands still while
that thread spins on an empty queue, and one the maintenance thread reopened stands
still while that sleeps; both die with the thread (`DropRuntime`). The counters of
the maintenance thread, time stamps and pinning are left out; `pm-executor` does not use these threads.

**Quotes.** `working` is the local quotes with the age of their last command, `live` the orders resting at the
exchange under each id. `Reconcile` is one call of `reconcile_against_exchange`: `Synchronized` takes a
quote through the timeout, the observation and the authoritative absence of `order_state.rs`, `Commands` is
the plan (nothing while in doubt, one CancelAll, or cancels before places), `Positions` adds the new fills
to the inventory. What calls it is not in the repository yet. The caller of the model does the least it must: keep the
synchronised quotes, make the transition `order_state.rs` has for each command, send the
commands in order, hand the deltas on. `ParseUnits` is the truncation to six digits (two in the run). The exchange takes
commands in order, may reject a place, and ends a cancellation some time later; a connection that breaks
loses what is on it. `LateReports` says whether the exchange may be asked while commands are on their way to it. When
FALSE, it has them all before it answers, which is what the planner relies on and no code ensures.

**HotState** and **NoticeRuntime.** Every operation of the store takes one lock for its whole length, so each is one
action. A book is its best levels, each with the ticks it was counted in; a reference state is the versions of
its facts. An update is applied and its notice queued; by the time `Handle` reads it, the
store may be further on, and a notice of a version that was overtaken resolves to nothing. `runtime` is which of the
runtimes runs (`NoticeDrivenRuntime`, or the two over `SharedRuntimeScaffold`, which differ in what is sent)
and whether it is live or a replay, where the next update waits for the view of the last. `Stamp` is a clock in milliseconds,
which updates may share. `Resolve` is `resolve_notice` with `apply_resolution`, which only tests call: the model takes
the feed's book to be the exchange's (`Feed` says when it is). Left out: market ids, lots, midpoints.

**MarketRegistry, Subscriptions, Universe.** `calls[r]` is one `refresh_once`: it fetches page after page (`FetchPage`,
with `FetchFails` for each way a request fails), takes a number under one lock (`Number`) and stores under another
(`Store`), so that refreshes overlap at each await and between the locks; `Degrade` is the fallback to the
last good snapshot. The service counts events, the provider counts the markets in them. `managers[m]`
is a feed manager with its client, `stores[m]` its two stores, `wires[m]` its connection and the
commands still to send. `Reconfigure` is `reconfigure_assets` of every manager; `run` borrows a manager until it
returns, so it happens before `Run`. `Universe` has what the repository does not: `HandOver` takes each outcome of a refresh as it
comes and gives the managers the assets of the selected markets.

## 3. Runs

| run | checks | bounds, and why they are enough |
|---|---|---|
| `breaker` | limits, exposure, counters, refinement of `Budget`, which refuses after a trip | three callers (two race, a third is the straggler), limits reached from 0, from below and from beyond by the restored counters; costs that lose part of a cent and a whole one |
| `limiter` | two windows at most, retries back off | a second of three ticks, nearly three of them, a clock set back by up to a second; two commands with two retries fill a window and reach the cap of the back-off |
| `executor` | halt at a trip, saves, limits over a restart, and under fairness that Ctrl+C ends the process and a trip reaches the disk | all modes; two orders or 29 cents pass a limit; one restart (clean or crash), one failing save at any point |
| `pipeline` | order, no loss, orders that match their books and the breaker's count, shutdown cascades, triggers arrive | channels of two, one, one and one, four snapshots (enough to lag and to fill every channel), four configurations of which one does not start, one worker and two; books at the threshold and at the limit of the spread, and a one-sided one |
| `pipeline_auth` | *refuted*: the request names its signer | two snapshots |
| `feed` | books are states of the exchange's, old books go, books converge | two books of two bids and an ask, a channel of two (the smallest that can hold an announcement and a book), three breaks of which two are announced, a back-off that reaches its cap, one change and one unasked book |
| `feed_reconnect` | *refuted*: books are cleared on every reconnect | one book |
| `connections` | no reuse after a failure, no wait for ever, a clean stop | two connections (one under check while the other is used), three triggers (a slot is used again after a failure), a queue of one (it fills); connections break and connecting fails without bound |
| `connections_unwind` | *refuted*: joining the maintenance thread first returns | the same |
| `quotes` | one order for a quote, fills counted once, no order forgotten, and under fairness convergence and trust | two ids (a replacement beside a place, a CancelAll), two offers that are the same to the planner and two that are not, three changes of mind, one loss, rejection or fill; timeouts of two ticks and a cooldown of one, so that each comes before and after the other |
| `hot` | best prices, no old books, ticks, views that catch up | one asset and one symbol; four book events and one other (the shortest ways to an empty side, to an old book and to a shared timestamp), a channel of two notices, both sorts of runtime, live and replay |
| `universe` | whole snapshots and universes, unique numbers, one owner for each asset, subscriptions and stores that follow it | two refreshes that overlap, two failing requests (a retry and a failure after it), one change among three catalogs of two pages, two shards, batches of two; one message, one break |

A constant `Max...` is a bound: what it counts happens no more once it is used up. Runs of systems that really
stop (a process that exits, a pipeline that ends, time that ends at
its bound) do not check for deadlock; liveness properties say what must still happen. `universe`
takes the refreshers to be symmetric: they are alike, and it checks invariants only.
No run lists a type invariant: those of `CircuitBreaker`, `Executor`, `Connections` and the hot state are theorems, and the
inductive invariants of the other proofs contain theirs.

The refuted properties are those a document or comment of the repository states and the code does
not keep; `PROJECT.json` quotes each under `findings`.

### Disagreements without a run of their own

- The casts to cents let the USD really committed pass `max_usd_exposure` (config.toml:71 "max total USD
  committed") by the bound of `ExposureBounded`, and a save and load can lose a cent, the term `restarts` in
  `UsdLimitSurvivesRestarts`.
- `fs::write` truncates the state file before it writes (state.rs:32), and an empty file loads as no counts: a
  crash between the two forgets every order, where specs/07-state-persistence.md:79 says of the periodic save "This
  protects against ungraceful shutdowns (kill -9, crash)". `Restart` while a save is between its last two steps is that crash,
  and the limits are claimed for clean restarts only.
- When main's five seconds do not cover a save in progress (`DrainCoversSave` FALSE), the monitor's write may come
  after main's final one, with older counters.
- The cold path trips the breaker and leaves the loop without an alert (execution.rs:341), which ARCHITECTURE.md:437
  has "Called on circuit breaker trip".
- execution.rs:379 expects that, once the pre-signed pool is
  submitted again, "resubmits fail, circuit breaker trips": a response that says so is only logged.
- `try_acquire` counts in windows that start with a call, not in a sliding one (safety.rs:132
  "Lock-free sliding-window rate limiter"): the end of one window and the start of the next let
  twice the limit through in a second, the bound of `TwoWindowsAtMost`.
- Only a clean close resets the back-off of the WebSocket client (ws.rs:207; specs/01-ws-reconnect-resubscribe.md:31 "Reset
  backoff to 1 second on successful connection + first message received").
- `reconnect_count` (ARCHITECTURE.md:243 "incremented on each reconnect") is one behind, for the
  reason `feed_reconnect` shows.
- A health check may find a connection on which a
  request failed to work again, and it is then reused without the reconnect of connection.rs:355, which is why
  `NoReuseAfterFailure` speaks of both.
- An exchange that reports before the commands on their way have reached it can bring two orders to rest for one quote:
  an order reported gone, or never heard of, is placed again (order_state.rs:137, :159). With `LateReports` TRUE
  TLC finds `OneOrderPerQuote` violated; specs/12d-exchange-sync-and-fill-exposure-seam.md:120 claims that
  "Reconnect, timeout, stale-state, and out-of-order cases have defined recovery behavior".
- A runtime shows a companion subject as it is when the notice of another is handled (runtime.rs:132), which may be newer
  than any notice of it that was read; ARCHITECTURE.md:355 promises to prevent "cross-feed strategies from seeing future state
  out of order" and the code does so only until the first notice of the companion.
- A page is the last one when it has fewer *markets* than the limit of *events* (registry_provider.rs:113): with an event that
  has no market, a full page ends the refresh. specs/11b-market-registry-and-universe-selection.md:124 expects "multi-page
  discovery returns a complete registry snapshot". Every event of the run's catalogs has a market; with one that
  has none TLC finds `SnapshotsComplete` violated.

### Further behaviour a reader of the models should know

- Hot state: a delta after a tick size change counts its level in the registered tick, and a `BestBidAsk` sets the whole
  book back to it (hence the premise of `RegisteredTicks`); best prices that come without a size have size 0; a delta that names
  another best price keeps the old size. Recent trades come, unless configured, from the source "external-trades", which no
  notice names.
- Subscriptions: shards are dealt by the place of an asset in the sorted list, so one new asset moves others to other
  managers (ARCHITECTURE.md:249 "own a stable shard"); a manager whose shard stays the same does not tell its client
  the new list, which matters to no command (`CommandsLead`); the list of issued commands only grows; the reference store is
  not cleared by a reconnection.
- Registry: an older refresh may store after a newer one; its number then goes down. One record without an id or an activity flag
  fails its whole page.
- Pipeline: the breaker counts a trigger whose order can then not be built (more than six digits). Price ladders are ordered as texts
  (orderbook.rs:13), which is the order of the numbers as long as the exchange writes them alike; the levels of `Feed` are numbers.

### Fairness

- `Executor`: the execution thread, savers and main run on; the exchange answers or
  the connection fails (the code has no timeout there: this is an assumption about the
  HTTP/2 driver, and without it the join at shutdown can wait for ever). `HealthStop` is
  strongly fair because `tokio::select!` polls its branches in random order.
  Triggers, Ctrl+C, crashes and restarts are not fair.
- `Feed`: the client, the processor and the exchange's first books run on. Nothing makes
  a connection last; `BooksConverge` speaks of the time when `MaxBreaks` is used up.
- `Connections`: both threads and main run on. The steps of a thread are strongly fair: tokio's
  mutex is first come, first served; an exchange that a connection is open to answers, and what it
  sent is read the next time the connection's task is polled; connecting ends. Nothing makes a
  connection break or a trigger come.
- `TriggerPipeline`: tasks that can be polled are; `BridgeStop` and `ForwardStop` are
  strongly fair, since `tokio::select!` takes its ready branches in random order. The feed, the strategy and Ctrl+C are not fair.
- `Quotes`: the clock ticks, the exchange takes commands and ends cancellations; its full answer is strongly fair: it is asked
  again and again, though not while commands are on their way. Trouble ends because its bound does; the properties speak of the time after the
  strategy's last change of mind.
- `CircuitBreaker`, `RateLimiter`, `NoticeRuntime` and `Universe` are checked for safety only.

## 4. Proofs

Every theorem holds for any value of the constants that the named assumptions of its module allow; no other
assumption is made but those named here.

`CircuitBreaker_proofs` proves for any finite set of callers, any limits, costs and
restored counters what `breaker` checks for three. The invariants are not inductive: that
`granted` orders are within the limit depends on the callers between their increment of the order
counter and the end of their call. `IInv` adds

- `OrdersInv`: granted orders plus *admitted* callers (past the order check, before
  the cents) took one increment each, the last below the limit;
- `UsdInv`: the cents granted are among the cents added;
- `OverrunInv`: increments above the limit are owned by distinct *halted* callers, which
  will not increment again before they meet the flag;
- `CostInv`: a call in progress carries the cost of a trigger.

`InvInit` and `InvStep` (one step per action) give `Invariance`; `InvLimits` and the theorems derive
`OrdersWithinLimit`, `UsdWithinLimit`, `ExposureBounded`, `CountersCoverGrants`,
`CountersBounded`, `NoEntryAfterTrip` and, step by step, that the breaker implements
`Budget`.

`Executor_proofs` proves what `executor` checks for one restart, for any number of restarts,
crashes and failing saves, any limits, costs, modes and pool. Within a process every step is a
step of the breaker or leaves it alone (`BreakerStep`), so `CircuitBreaker_proofs`, instantiated for
the one execution thread, supplies what the breaker promises; a restart begins
with `with_initial_counts` and hence with its invariant. Around it `IInv` has

- `LoopInv`: the guard is held exactly in the stages `check` and `wire`, and a tripped breaker means
  the loop has ended or is about to (`check` with an Err);
- `ShutdownInv`: main saves only once the loop has stopped and, under `DrainCoversSave`, the
  monitor has, so that at most one of the two writes the file;
- `SaveInv`: what a saver has read lies between the last save and the counter, and what main has
  read is the counter's last value;
- `LedgerInv`: the counters a clean restart begins with cover all earlier grants, but for a
  cent a restart.

The theorems are `TypeCorrect`, `GuardAlwaysReleased`, `WireAlwaysGuarded`, `HaltsAtTrip`, and, from
`DrainCoversSave`, `ExitSaves`, `OrdersSafeOverRestarts`, `UsdSafeOverRestarts`, `SavesMonotone`.

`Connections_proofs` proves `TypeCorrect` and `FailedNotReused`, for any pool, queue and number of
triggers. `NoReuseAfterFailure` speaks of the moment a response is awaited; `IInv` carries the promise
to it: `FlagInv`, a slot whose connection failed is marked unhealthy or about to be by
`report_failure`, whatever the maintenance thread has made of the slot since, and `SendInv`, between the
look at the flag and the request no failure is added.

`TriggerPipeline_proofs` proves `TakenInOrder` and `TriggersKept`, for any capacities, configurations and snapshots. A snapshot's
number goes through eight `Places`, from the bridge's receiver to what the loop has taken; `OrderInv` says that a place holds only numbers below
those of the places before it in the stream (`Chain`) and that each channel is increasing. A lag only moves the receiver on, so it
keeps the chain. `LossInv` says that before the shutdown and the end of the loop no task has stopped, and each trigger
that was made is in one of the first five places.

`BreakerCountsOrder` and `OrdersFollowBooks` relate an order to the book it came from, for any texts of prices and sizes.
`FiredInv` adds that triggers are made only of published snapshots the strategy may fire at, and orders only of triggers
that can be built; the rest is arithmetic: `units / 10^places` brought to base units, rounded down at each step, and to cents
in floating point. Powers of ten are those of a function on `0..6` (`Ten`, `PowersOfTen`), since an order that can be built has at
most six digits. `OrdersFollowBooks` assumes `ShortTexts`, that the thresholds and the books with two
sides have no more than `Decimals` digits: with more the order's amounts cannot tell which side of a threshold the price was on.

`Feed_proofs` proves `Exact` and `OldGo`, for any assets, prices, channel, breaks and changes. What an order book will be is
followed along the channel: `Before` picks the last message ahead of a place that concerns an asset, `Val` what the book is after
it. `ChainInv` says that a change finds the book it was made from, `FollowsInv` that the book is the
exchange's once the channel of this connection is drained, `LeavesInv` that one from before an announced reconnection
is gone by then. Each holds of the assets no lag has hit since their last snapshot, and a message that falls off the channel takes its assets
out of the claim.

`Quotes_proofs` proves `OneOrder` and `NoneForgotten` from `~LateReports`, for any ids, offers, wishes, timeouts and amount of
trouble. Neither is inductive: `PlacedInv` adds that the commands on their way place one order for a quote at most, that
the quote is then `PendingSubmit`, and that where an order rests a cancellation goes ahead of it. It needs that cancels are sent before places
(`Commands`), and `~LateReports` that a report never speaks of a quote whose place is on its way.
`FillsOnce` needs no such premise. Its invariant is `CountInv`: the inventory is the fold of the fills seen, which are among the
fills there were. The lemmas on `Total` say what such a sum does, for every finite set: that the fold has a value, that any
element may be taken out of it, and that sums over disjoint sets add up. They are proved by the smallest subset for which
they fail (`Smallest`, from `WFMin` over the strict subsets of a finite set), not by induction over an operator.

The same module has the theorems of `RateLimiter`, whose windows are such sums. `TwoWindows` holds for any limit,
window and setbacks of the wall clock. `WindowInv` says of some tick `w` of real time that the window that is open began there,
that as much of it has gone by as the clock tells or more, and bounds what a second has seen: by the window's count when it begins
after `w`, by a window more when it begins within `Window` before. A clock that is set back makes a window longer, never shorter.
`BackOffKept` is an action property; `RetryInv` says that a command that is ready has been sent once for each attempt
and, if sent before, has waited the back-off in real time. It holds while the back-off is capped no
higher than where its exponent stops (`MaxBackoff <= InitialBackoff * 2^16`) or there are 17 retries at most: beyond both the waits no longer double.

`NoticeRuntime_proofs` proves `TopPrices`, `OldBooks`, `TicksRegistered` and `StoreTypes`, for any assets, prices, ticks and sequence of
updates. `ExchangeInv` adds that the exchange does not cross its own book and that a book it has sent on this
connection is in the store. A delta needs the maximum of a finite set that gains or loses an element, which the lemmas about `Max` and `Min` supply.
`ViewsFollow` rests on `AwaitedInv`: a book or price the strategy asks for and has not been shown as the store has it is announced by a notice still
in the queue, of its present version.

`Universe_proofs` proves `SnapshotNumbers`, `EachFedOnce` and `OwnedOnly`, for any number of refreshers, shards, catalogs and faults.
`NumbersBelow` says that the numbers given out are below the next, so that the one lock that numbers is enough; `Shared` that each manager
has its part of what is wanted, the parts being disjoint and together all of it (`AssignedPart`); `Confined` that a running
connection is subscribed to nothing its manager does not own.

`CommandsFollowed` gives the replay of a list of commands, a fold, a closed form: an asset is left by it when the last command about it subscribes
(`Left`, `Carried`, `ReplayLeaves`). Then `ReplayInv` can be kept step by step: the commands issued lead from the first shard to the present one, and
those a connection has yet to send lead from what it is subscribed to. Batches come out of the list in any size (`BatchesCarried`).

`SnapshotsWhole` and `UniversesFull` follow a refresh through its pages. `CollectedInv` says that while the service's list stays as it is a
refresh has accounted for just the records of the events before its offset, and for all of them once it leaves the fetching.
`PageAdds` is that a page adds its events to these; `RecordsCover` that a page has no fewer records than events,
so that a page short of records is short of events and hence the last (`LastPage`). That needs `EventsHaveRecords`, without which
the claim is false (section 3). `WholeInv` adds that the universe stored last, and each handed out, is that of the whole list, so that what a failed
refresh falls back on is whole too; as markets are kept by id it needs `MarketsAgree`: two records of a market say the same of it.

The assumptions on constants only say what kind of value they are: positive capacities and page sizes, finite sets, texts with a number of digits
(`TextsAssumption`), sizes that parse (`OffersAssumption`), records of one of three forms (`RecordsAssumption`), assets that are numbers
(`UniverseAssumption`). TLC evaluates each on the instances, and the named premises of theorems hold of them too: `DrainCoversSave`,
`~LateReports`, `ShortTexts`, `EventsHaveRecords`, `MarketsAgree`, and that of `BackOffKept`.

Every invariant and every safety property that a passing run checks is a theorem. Only model-checked is liveness, since fairness and ENABLED
are beyond the prover: `ShutdownCompletes`, `TripReachesDisk`, `ShutdownCascades`, `TriggersArrive`, `BooksConverge`, `ExecReturns`,
`CleanStopReturns`, `Converges` and `TrustReturns`.

## 5. What is left

In the order in which it would pay: the composition of `Feed` with `NoticeRuntime`, when
`main.rs` wires the hot state in; of `Quotes` with the throttle of `RateLimiter`, when the loop that sends its
commands is written; the bound of the model's exchange for quotes that are asked about late, once the code says how it
tells an old report from a new one.

## 6. Not modelled

Cryptography, random salts, the text of requests and responses; TOML and JSON parsing, the command line, logging;
the health endpoint, which reads counters and a clock; metrics and clocks, which only measure; the reports and
cadence of the benchmark; the replay of recorded snapshots in `backtest.rs`, a loop around a strategy; reading and writing the
files of registry snapshots; the WebSocket's pings, and subscription commands on a live connection, which no caller can
give while `run` borrows the client. They keep no state the properties are about.
