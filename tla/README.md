# Specifications of the bbgo SaaS platform

This directory specifies, in TLA+, the parts of the repository whose behaviour depends on the
order in which things happen, or on several computations agreeing: the manager (`src/manager`, Go)
with the docker daemon and the database it drives, and the dashboard (`src/web`, TypeScript),
whose pages put answers of many queries, timers, sockets and clicks together. TLC checks the
specifications on small instances; the TLA+ proof system proves every invariant and every action
property that TLC checks, and the refinement of the job store, for all instances.

Contents: [inventory](#inventory) · [modules](#modules) · [runs](#runs) · [fairness](#fairness) ·
[disagreements](#disagreements) · [proofs](#proofs) · [limits](#what-is-only-checked) · [not
modelled](#not-modelled) · [plan](#plan)

## Inventory

The manager is one process. HTTP handlers, start goroutines, the five-minute sweep, the backtest
executors and the hourly prune run concurrently in it; the bots are containers of the local docker
daemon, reached through the `docker` CLI; configuration lives twice, as `bbgo.yaml` in a data
volume and as a row of `strategy_instances` in Postgres (Supabase). No transaction covers any two
of these.

The dashboard runs on one JavaScript thread per page. It reads the manager through its own
`/api/manager` route, and the tables the bots write directly from Supabase. TanStack Query caches
the answers under keys that change as the user clicks; realtime channels, a WebSocket and polls
refresh them, each in its own time.

| Component | State it keeps | Operations | Interacts with |
|---|---|---|---|
| Instance handlers (`api.go`) | `api.starting` (ids being started) | create, start, stop, update, delete; start-all, stop-all, clear-all; restart after a credential change | container manager, instance store, start goroutines |
| Start goroutine (`startInstanceContainer`) | its own | stop, rm, mkdir, self-heal YAML, run, 30 pings, mark or clear the error | docker, store, `api.starting` |
| Container manager, health (`container.go`, `container_health.go`) | none; docker's | stop, rm, run, inspect, discover; backtest and sync runs | docker CLI with timeouts of 30 s and 30 min |
| Recovery (`container_recovery.go`, `main.go`) | the snapshot of a sweep | boot recovery, orphan search, sweep, cleanup | worker pool, docker, store |
| Instance store (`instance_store.go`) | directory, `bbgo.yaml`, row | create, three patches, remove, mark/clear error, scan, list | Supabase; `s.mu` for the patches |
| Backtest jobs (`backtest_job.go`, `api.go`) | jobs in memory, one JSON file each, a semaphore of 2 | submit, poll, execute, prune, reload, data sync | docker, storage, notifier |
| Bot page tables (`usePagination.ts`, `use-realtime.ts`) | pager, cached pages, debounce timer | turn pages, change sizes, push counts, invalidate | Supabase, realtime channel |
| Bot page chart (`useKlineData.ts`, `CandlestickChart.tsx`) | candles per interval, refs, what is drawn | load, load earlier, push, draw | manager's `/klines`, WebSocket |
| Live feed (`useWebSocket.ts`, `api/ws-url`) | ticket request, socket, reconnect timer | connect, clean up, reconnect | manager's ticket endpoint and relay |
| Trade ledger (`fifo-pnl.ts`, `pnl-curve.ts`, `position-tags.ts`, `supabase-queries.ts`) | none | FIFO matching, curves, aggregates, tags | trades, profits, positions tables |
| Bot page summary (`bots/[id]/page.tsx`, `PositionCard.tsx`) | answers of four queries | cards, summary, strip above the chart | the ledger's tables, `futures_position_risks` |
| Strategy forms (`strategies.ts`, `StrategyConfigForm.tsx`) | a configuration | defaults, edit, types, nesting | strategy registry |
| Bots page (`bots/page.tsx`, `CreateStrategyDialog.tsx`) | dialog, confirmation, list | create, delete, list | manager |
| Backtest screen (`BacktestPanel.tsx`, `BacktestEquityChart.tsx`) | form, active job, chart | submit, poll, rerun, download, draw | manager's jobs |
| Session and settings (`middleware-auth.ts`, `actions/auth.ts`, `manager.ts`, settings pages) | session, redirect timer, two lists | sign in and out, expire, list and change keys and channels | auth service, manager |
| Worker pool, market data hub, relay, limiter, credentials, notifier, manager's PnL, registry, clients, metrics, generated code, schema, deployment, remaining views | see [not modelled](#not-modelled) | | |

What makes each of them correct, and where it is hard:

* *Instances.* A "starting" flag always ends and always stands for somebody who starts the bot; a
  bot that should run is brought back after any crash. Hard because handlers, start goroutines and
  the sweep act on one container between each other's steps, from state they read earlier, through
  a CLI that may fail half way, and the manager may die anywhere.
* *Backtests.* A slot is never lost nor given twice; a job has one verdict; what a poll has
  answered stays true after a restart; "completed" comes with its result. Hard because memory,
  file and container are three things, syncs share one container name, and the prune, the executor
  and a crash interleave.
* *Tables, chart, feed.* What is rendered belongs together although it comes from different
  answers: page and total, rows and caption, candles and interval, socket and mode. What was lost,
  late or invalidated is made good in the end.
* *Ledger and summary.* Several figures on one page are computed apart from the same fills and
  must agree; cards and summary choose between tables apart.
* *Forms and screens.* What is sent is what is shown and fits the strategy, whatever was chosen
  before and whatever answer comes late.
* *Session.* A refused call gets its user to the login page and lists stay those of the server,
  whatever is opened, cancelled or reloaded in between.

`PROJECT.json` lists every component with its status and every hazard with the line where it
bites.

## Modules

| Module | What it is | Its instance | Theorems |
|---|---|---|---|
| `InstanceLifecycle` | handlers, start goroutines, recovery, store and docker, composed | `MCInstanceLifecycle` | `InstanceLifecycle_proofs` |
| `JobStatus` | abstract: what polling a backtest job may show, across restarts | | |
| `BacktestJobs` | the job store, executors, syncs, containers, crash and restart; implements `JobStatus` | `MCBacktestJobs` | `BacktestJobs_proofs` |
| `PagedTables` | one table tab of the bot page | `MCPagedTables` | `BotPage_proofs` |
| `KlineChart` | candle data and chart of the bot page | `MCKlineChart` | `KlineChart_proofs` |
| `LiveFeed` | the browser's end of the WebSocket | `MCLiveFeed` | `BotPage_proofs` |
| `TradeLedger`, `BotSummary` | figures computed from the fills; cards and summary over them | `MCTradeLedger` | `TradeLedger_proofs` |
| `StrategyForms` | the parameter form, shared by the next two | | |
| `CreateBot` | the bots page: list, dialog, confirmation | `MCCreateBot` | `CreateBot_proofs` |
| `BacktestScreen` | the backtest panel, over `StrategyForms` and an instance of `JobStatus` | `MCBacktestScreen` | `BacktestScreen_proofs` |
| `UserArea` | session, redirects, settings lists | itself | `UserArea_proofs` |

`JobStatus` is used from both sides: `BacktestJobs` implements it, and `BacktestScreen` assumes
nothing else of the manager. `LiveFeed` and `PagedTables` share no state; the names of the one
begin with `Feed` so that one module can extend both for their proofs. `StrategyForms` is likewise
written once for the two screens that use it.

Definitions keep the names of the code where they can. A definition under a comment "Mutant:", or
whose name ends like `...Carelessly` or `...Dropped`, is a wrong variant kept beside the right
one; no action uses it, it shows that a property notices the bug (`PROJECT.json`, "mutants").

### InstanceLifecycle

A bot is `<<user, mode, id>>`, since `computeInstanceID` hashes strategy, symbol and configuration
only: the live and the paper bot of one configuration have one `id`.

| Variable | Code |
|---|---|
| `cont[b]` | the container of that name: `none`, `running`, `erring` (everything `CheckInstanceHealth` calls an error: restarting, crash loop, stale heartbeat), `exited` |
| `loaded[b]` | the configuration version the container's process has read |
| `disk[b]` | instance directory and `bbgo.yaml`: `NoDir`, `NoYaml`, or its version |
| `row[b]`, `lastErr[b]` | the row of `strategy_instances` and its `last_error` |
| `starting` | `api.starting`, a set of ids |
| `hd[h]`, `wk[x]` | program counter and locals of handler `h`, of start goroutine or recovery task `x` |
| `sweep` | the sweep (or boot recovery): rows still to visit, names tracked |
| `mgr` | the process: up, down, booting |

A step is one docker CLI call, one store operation, or one access to the flag map, in the order of
the code; that is where goroutines can interleave. `UpdateStrategy`, for example, is `ClearFlags`,
`HandlerDockerStop`, `HandlerDockerRm`, up to three `WriteConfig`s and `SpawnStart`;
`startInstanceContainer` is `WorkerDockerStop`, `WorkerDockerRm`, `PrepareDir`, `RegenerateYaml`,
`DockerRun`, then `PingAnswered`, `PingTimeout` with `MarkStartError`, or `PingExpired`, and each
exit clears the flag (`StarterExits`). A recovery task is `TakeTask`, `CheckInstance`,
`InspectStatus`, `DockerStart`, `PollRunning` and then the same launch steps.

Configurations are versions: every write takes the next number, an instance read keeps the version
it was read at, and "older" and "newer" are then arithmetic.

Faults, each counted against `MaxFaults`: a CLI call that fails having worked for any subset of
its containers, a failed inspect, a failed database write, a bot's process failing, a container
stopped or removed by others, a lost directory, a dead manager.

### BacktestJobs and JobStatus

| Variable | Code |
|---|---|
| `manager` | the process: up or down |
| `job[j]` | the entry in `BacktestJobStore.jobs`: status, whether `StartedAt`/`CompletedAt` are set, what of the result is in |
| `disk[j]` | `<id>.json`, possibly torn |
| `slots` | tokens in `sem` |
| `pc[t]` | where the handler, executor or sync goroutine is |
| `syncCtr` | whose run of the one `bt-sync-<exchange>` container is up |
| `runCtr` | the jobs whose `bt-<id>` container runs |
| `old5`, `old24` | jobs past the five minutes of `loadPersisted` and the 24 hours of `Prune` |

Submission is `Submit`, `AcquireSlot`, perhaps `Refuse`; `execute` is `Begin`, the four steps of a
sync, `StartRunning`, `BuildBacktestYAML`, `LaunchBacktest`, `BacktestReturns`, `SetOutput`,
`SetReport`, `Complete` or `FailJob`, and `ReleaseSlot`. Every store operation holds `s.mu` and
persists before it returns, so it is one step; between two of them anything else may happen.

`JobStatus` is the promise to a client that polls: a status only advances, a verdict is never
taken back, "completed" comes from "running", only finished jobs are forgotten, and a restart may
turn an unfinished job into "pending" or "failed". `BacktestJobs` implements it with `Known(j)` as
the refinement mapping: what the store answers, or, while the process is down, what the next one
will load.

### PagedTables

`page`, `size`, `total` are the state of `usePagination`; `cache`, `stale`, `flight`, `failed` the
query cache, one entry per key `<<page, size>>`; `running` and `pending` the realtime channel and
its debounce timer. An answer is the number of rows the database held when it answered, which
determines every page of it. `effect` says that the React effect that pushes the answer's count
into the pager is due: it runs before anything else can, so `PushTotal` is the only step then.
`SetPage` is a click with the render that follows, `Observed` what TanStack Query does for a key
that comes to be rendered.

### KlineChart

`cache` and `flight` are the candle query of each interval; `wsCandles`, `earliest` and `loading`
are the refs of `useKlineData`, which belong to no interval; `aged` are the intervals whose data
is older than the `staleTime` of a minute, which `SetData` renews whoever sets it. `enabled` are
the indicators switched on; `drawn`, `marks`, `series` are what the chart shows (`series` is
`indicatorSeriesRef`, one line for each id) and `prevKey`, `prevCount`, `hadData` the refs by
which it decides between drawing everything and drawing the last candle (`DrawCandles`). The three
writers are `QueryAnswers`, `EarlierAnswers` and `HandleWSMessage`; `Draw` is the chart's effects,
which run before anything else. The page hands over the lines that have a point
(`IndicatorLines`); the chart removes the series of other ids, skips a line without data and sets
the rest (`SeriesOf`). A candle is known by its start, its width and how many ticks went into it.

### LiveFeed

`conn[c]` is a ticket request or the socket made with its ticket (`asking`, `connecting`, `open`,
`closing`), `timers` counts pending reconnect timers and `timerRef` tells whether the hook still
knows the last one, `wsRef` is the socket a cleanup would close. A chain is a request, a socket or
a timer: the hook means to have one, and two are possible because a ticket's answer is not looked
at again.

### TradeLedger and BotSummary

The state is the trades table alone; everything else is a function of it, as in the code. `Match`
is `FifoQueue.match` as a fold, `SymbolPnL` the loop over a symbol's trades, `PnlCurve`,
`AggregateProfits` and `Tags` the functions of those names; `MatchItem`, `SymbolStep`, `CurveStep`
and `ProfitStep` are one turn of each loop, named so that proofs can speak of it. What the bot
itself writes (average cost, rows of `profits` and `positions`, the paper engine's empty rows,
snapshots of futures positions) is external, derived from the fills in `BucketAfter`, one bucket
per side in hedge mode: a fill against the position takes its share of the cost, and all of it
when it closes all (`BookStep`). `UnitByUnit` is the reference: the same fills matched one unit at
a time, from a stock that lists the price of every unit held.

`BotSummary` holds what the page's queries last answered (`Views`): any two generations of
positions and snapshots of which one at least is the newest, with or without a futures order, with
or without a price. `Cards` and `Summary` are computed from them apart, as in the page.

### StrategyForms, CreateBot, BacktestScreen

A configuration maps places to values. A field `a.b` has two places, inside the object `a`, where
its default is put, and under the plain key, where the form writes; `NestConfig` merges them. A
value is known by what the code asks of it: number, zero, text, empty, boolean, or a boolean in
quotes.

`CreateBot` has the dialog (`dialog`, `pending`), creations whose dialog was closed (`orphans`),
the last request with the form it was made from, the list and its poll, and the confirmation.
`BacktestScreen` has the panel, the active job with its poll, answers on their way, and the chart
of a finished job; the manager's jobs move by `JobStatus`, but for those a restart put back to
"pending" (`stranded`), which nothing executes again. What the code sorts is `InOrder` of a set
and a strict order, the member at each rank; the code's bisection is the recursive function in
`Bisect`, in `KlineChart` likewise.

### UserArea

`page` is what the browser shows: every navigation passes `UpdateSession` (the proxy) and
`UserLayout`, each with its own answer of the auth service, which may be out. `calls` are calls to
the manager with who still listens (`ear`): the page, only the cache, or nobody. An invalidation
(`Invalidate`) cancels the load of a list in use only when there is data to go on showing;
`Spared` are the loads it leaves alone, and `raced` records that a change met an answer of one of
them, or that nobody heard of the change. `timer` is the redirect five seconds after a refused
call, `message` its notice in the session storage.

## Runs

All instances are the smallest in which the case of interest happens; the bounds are constants of
the modules (`MaxRequests`, `MaxFaults`, `MaxClicks`, ...).

| Run | Instance | Shows |
|---|---|---|
| `lifecycle_faults` | 1 bot, 2 handlers, 2 starters, 1 recoverer, 2 requests of any kind, 1 fault of any kind | `StartingBacked` in every interleaving of two requests with two start goroutines and the sweep, whichever step fails; two starters suffice for a flag to be cleared by the wrong one |
| `lifecycle_liveness` | 1 bot, 1 request of any kind, 2 faults, fair | `StartingClears`, `Supervised`, `ErrorSurfaced`, `LeftoversReaped`; two faults so that the recovery from the first can fail |
| `backtest_store` | 3 jobs, 2 slots, 1 crash, torn file, failed write or report that is no JSON | `SlotsAccounted`, `OneVerdict`, `CompletedIsWhole`; three jobs are one more than the slots |
| `backtest_liveness` | 2 jobs, 1 data sync, 1 slot, 2 crashes, fair | `JobConcludes`, `SlotReturned`, and `KeepsItsWord`, the refinement of `JobStatus`; two crashes so that a reloaded job is reloaded again |
| `tabs_paging` | 3 rows, sizes 1 and 2, 4 clicks, 1 failure, fair | `PageWithinTotal`, `CaptionTellsTheRows`, `EmptyIsTrue`, `TabCatchesUp`; three pages of one row are two of two, so a change of size can leave the page past the end |
| `bot_chart` | widths 1 and 3, 4 instants, 2 candles an answer, averages over 2 and 3, 2 clicks, 1 failure, fair | `LastCandleDrawn`, `NoLeftovers`, `MarkersOnNearest`, `LinesFollowData`, `DataHeals`; the page is opened at the third instant and answers are shorter than the history, so that there is an earlier page; the longer average has a point for some data only |
| `bot_feed` | 2 modes, 3 runs of the effect, 2 cuts or outages, fair | `KeepsTrying`, `ConnectedIsBacked`, `ChainsNeverFork`, `ReconnectsUnlessRefused`; three runs make three chains side by side |
| `feed_not_reconnected` | the same | a violation: [disagreements](#disagreements) |
| `trade_ledger` | up to 4 fills of a one-way bot and one in hedge mode, chart and profit limits of 3 | `FifoIsUnitByUnit`, `CurvesAgree`, `TagsFollowFills`, `SummaryMatchesCards`, `SummaryIsWorth` in every history; four fills open, add, flip and close, and pass both limits |
| `create_bot` | 4 strategies, 4 edits, 2 bots, 1 failure | `CreationFits`, `SentIsShown`, `ConfirmIsPending`; four edits choose a strategy, fill it and choose another |
| `backtest_screen` | 2 strategies, 2 exchanges, 2 jobs, 3 acts, 1 failure, fair | `RequestFits`, `ChartTellsTheJob`, `JobIsFollowed`; two jobs so that a late answer finds another, and a restart strands one |
| `user_area` | 4 acts, 2 things made, 1 failure, fair | `ListsTrueWhenIdle`, `ExpiryIsTold`; four acts sign in, open a list, change it (also while it is first loaded) and leave |

`CHECK_DEADLOCK FALSE` stands where the model may stop: job ids, fills, clicks and acts run out.
The lifecycle never stops: the sweep ticks. Symmetry is used only in runs without liveness, over
identities no constant tells apart.

## Fairness

* `InstanceLifecycle`: weak, of each handler, start goroutine and recovery task (the Go scheduler,
  and CLI timeouts that bound every call) and of `ManagerStep`: the ticker, and for `Boot` the
  restart policy of the manager's own container (`restart: unless-stopped`). Requests, faults and
  the recovery of a bot's process are never owed.
* `BacktestJobs`: weak, of each job's and each sync's next step; the 30-minute timeout bounds the
  two that wait for a container. Neither crash nor restart is owed.
* The dashboard: weak fairness of effects, answers and timers, which the browser and the server
  owe. `TabCatchesUp` and `DataHeals` are for a user who keeps coming back to the window
  (`WindowFocus`, strong fairness), because nothing else refetches a page whose insert was not
  heard; `DataHeals` takes `EarlierAnswers` strongly fair as the chart's effects run in between,
  and that data ages (`Ages`) only while no candle is on its way, since a feed that pushes renews
  it for ever. `JobIsFollowed` owes the poll, its answers and the progress of a job whose executor
  lives: a stranded one is owed nothing and the property leaves it out; `ExpiryIsTold` calls,
  answers and the timer. Clicks, inserts, cuts, outages and sign-ins are never owed;
  `ManagerReturns` is (restart policy).

## Disagreements

One disagreement between code and documents has a run that expects a violation (`PROJECT.json`,
"findings"): `feed_not_reconnected`. `docs/operations-runbook.md:224` says that users reconnect by
themselves after the manager restarts; `useWebSocket.ts:48` gives up for good when the ticket
request is answered with an error, which it is while the manager is down.
`ReconnectsUnlessRefused` is the part of the promise that holds.

Six properties one might expect of the manager are false and stay in the modules, under a heading
that says so. To see TLC refute one, name it in a copy of the `.cfg` that is given here:

| Property | `.cfg` | The code does |
|---|---|---|
| `OneStarterPerBot` | `lifecycle_faults` | an update clears the flag of a start in flight: two start goroutines for one bot |
| `StoppedStaysStopped` | `lifecycle_faults` | the sweep restarts what the user stopped |
| `BootLeavesNoOrphan` | `lifecycle_liveness` | a running orphan is stopped neither at boot, as the 8 characters of its user are no UUID, nor by the sweep, which removes exited containers only |
| `NoConfigLost` | `lifecycle_faults` | a self-healing start writes an older configuration over a newer one |
| `UnfinishedIsWorked` | `backtest_store` | a job interrupted within 5 minutes stays "pending" for ever |
| `SyncClearsOnlyStale` | `backtest_liveness` | one job's sync kills another's |

Others met while modelling the manager; the first five are behaviours of `InstanceLifecycle` all
the same, `:153` and `:277` of `BacktestJobs`:

* `manager/api.go:615`: `api.starting` is keyed by id alone, so the start of a paper bot is
  answered and dropped while its live twin starts, and a start that meets a flag whose goroutine
  is past its `docker run` likewise: "accepted" does not mean that the bot will be started. No
  property says it does; `Supervised` is what brings the bot back.
* `manager/api.go:888`: of two start goroutines of one id the first to end clears the flag of
  both.
* `manager/api.go:748`: start and stop find the instance by id whatever `?mode=` says.
* `manager/api.go:651`: a delete between the steps of a start in flight is followed by its `docker
  run`: a deleted bot comes up, and no sweep stops it.
* `manager/api.go:559`: an update while a start is past its self-heal leaves the bot on the old
  configuration.
* `manager/instance_store.go:420`: a row whose `bbgo.yaml` is lost is invisible to recovery when
  it was the user's last.
* `manager/instance_store.go:327`: `last_error_at = ""` is no timestamptz, so the PATCH that
  should clear an error fails and the error is never cleared.
* `manager/api.go:905`: when the 30 seconds are up between two pings the goroutine returns without
  recording why the bot is not reachable.
* `manager/backtest_job.go:153`: `SetReport` takes a `summary.json` that is no JSON; from then on
  the job cannot be marshalled, `persist` writes nothing (`:174`), and a restart takes back a
  "completed" the job list has shown. `BacktestJobs` has it as the fault `"report"`, and the
  refinement is claimed without it.
* `manager/backtest_job.go:277`: with both slots taken a submission fails at once;
  `docs/operations-runbook.md:188` speaks of a queue.
* `manager/container.go:647`: the sync directory is one per user and exchange, so concurrent syncs
  of different symbols share one `sync.yaml`; `docs/architecture.md:176` gives each job an
  isolated directory.
* `manager/api.go:1214`: the synchronous endpoint takes no slot, so more containers run than the
  two of `docs/architecture.md:175`.

What the dashboard does that a reader of a page may not expect. The properties are stated so that
they hold with it (a property's comment says which case it leaves out):

* *Tables.* "Next" onto a page not yet cached goes back to page 1, since the total is 0 until the
  answer comes (`page.tsx:173` says that Prev and Next stay accurate). `setPageSize` is documented
  to reset to the first page and keeps the page. A debounce pending when the bot stops is dropped.
  An insert while the channel is down is seen at the next focus only. An answer on its way for a
  key nobody renders counts as fresh although the invalidation came after the request. Rows are
  ordered by a timestamp that need not be unique.
* *Chart.* The candles pushed by the socket are of one minute and enter the map of whatever
  interval is shown; holes between pages are possible; a candle that closed unheard stays drawn
  unfinished until the next load. Each pushed candle and each earlier page renews the age of the
  data (`setQueryData`), so coming back to the window asks for nothing while the feed pushes, and
  a mix of intervals stays on the chart until the feed pauses for a minute.
* *Feed.* A ticket on its way at unmount, or when the mode changes, still becomes a socket of the
  old mode. The old socket's `onclose` clears the reference to the new socket and opens a second
  connection. The bot page opens two feeds.
* *Ledger.* Fees of buys paid in the base asset are not converted; the profit factor without a
  loss is infinite or 0; the win rate's denominator, and the losses, count opening rows, which
  carry only a fee (`supabase-queries.ts:266` says otherwise); queries stop at 2000 and 5000 rows,
  oldest first, so it is the newest that are missing; markers of the newest 200 trades begin at no
  position; a position closed at the instant of an earlier fill is shown open; the cost of an open
  position may become negative.
* *Summary.* With a futures order but no open futures row, or none loaded yet, the cards vanish
  while the summary falls back to the positions table. Each spot card shows the total of all spot
  positions. The strip above the chart shows the spot table's holding with the futures' gain.
  Futures positions are polled each 30 seconds, not pushed. After the first pushed order the Order
  tab is empty, since pushed orders carry no instance id. On the user's dashboard assets other
  than USDT and BTC are worth 0, and a bot's strategy is the first one of that name.
  `LeverageEditor` takes its draft from properties not yet loaded (1, cross), so saving it
  untouched resets the leverage.
* *Forms.* A strategy that is live only leaves the mode "live" for the next choice, and risk
  values carry over. Closing the dialog while its request is pending loses the warnings and allows
  a duplicate. `supportedExchanges` is never looked at. A default quoted `"false"` is shown
  checked and sent false, as is a nested boolean without a value whose default is true.
  `nestConfig` changes the nested objects of the form's own state: a field `a.b` emptied after a
  failed request is sent with the value it last had. `BacktestPanel` does not nest, so its edits
  of `a.b` go to a plain key.
* *Backtest screen.* A late answer to a submission takes the screen over, under the parameters of
  the form. The chart's range is the form's dates. Price bounds the user typed give way to 20 %
  around the close. While a new symbol's ticker loads, the previous symbol's bounds are sent. A
  job whose panel was left cannot be found again. A first poll that fails is not repeated until
  the window gets focus. A job pruned while it is polled is polled for ever, and so is one that a
  restart of the manager put back to "pending". One year of 4-hour candles is more than the limit
  of 1500.
* *Session.* The redirect without a locale goes to `/user/login`, which is no page, and from
  `/login` to `/login/login`; the failure page `/auth/login` of the confirmation route is none
  either, and the reset mail's `/auth/confirm` passes by the locale routing and matches no route.
  The notice of an expired session may be shown after an ordinary sign-out. An outage of the auth
  service reads as "no user" and redirects, although `middleware-auth.ts:93` means not to. The
  timer outlives a sign-in in the same tab. A cancelled load's 401 is heard by nobody. A list's
  answer that comes after an addition replaces it or shows it twice. The form for a key can be
  sent while the list of keys is first loaded; the invalidation that follows does not cancel a
  load without data, so an answer given before the key was added counts as fresh and hides it
  until another change or reload.

## Proofs

`InstanceLifecycle_proofs` proves for any sets of bots, handlers, starters and recoverers, any
bounds and fault kinds satisfying the module's assumptions:

* `TypeCorrect`: `Spec => []TypeOK`. `TypeOK` is inductive as it stands; it carries "a worker that
  is not idle works on a bot", without which a step of a worker could not be typed.
* `FlagsBacked`: `Spec => []StartingBacked`. Inductive together with `TypeOK`: the flag is raised
  only by `Launch`, in the step that also takes up a starter, and a starter leaves only through
  `StarterExits`, which clears the flag of its id. The argument needs no assumption on ids: when
  two starters share an id the first one to end clears the flag, which only makes `starting`
  smaller.

The module has one lemma per action and conjunct group; leaves cite the type lemmas of the
variables they read.

`BacktestJobs_proofs` does the same for any number of jobs, syncs, slots and faults. Each
invariant comes with the strengthening that makes it inductive:

* `TypeCorrect` and `SlotsCounted` (`Spec => []SlotsAccounted`) go together: that `slots - 1` is a
  natural number when a token is given back follows from the accounting. `Executors`, the set
  whose cardinality the tokens are, gains, loses or keeps one element in every step but a crash.
* `VerdictOnce` (`Spec => []OneVerdict`) from `Phases`: where an executor is tells the status of
  its job, and no job is in flight while the manager is down.
* `ResultWithVerdict` (`Spec => []CompletedIsWhole`) from `Whole`: an entry that is completed, in
  memory or on disk, has its output, no container and a concluded executor; an executor past its
  container has the output in the entry. It needs nothing of the files: torn and lost writes are
  allowed.
* `StoreKeepsItsWord` (`ASSUME FilesHold PROVE Spec => KeepsItsWord`) from `Mirror`: while the
  process is up the file is what memory holds, but for a job a restart has reset to "pending".
  `FilesHold` (no fault but crashes) is needed: with a write that is lost, or a report that cannot
  be marshalled, a restart takes back a verdict, which is what `persist` ignoring its errors
  amounts to.

`BotPage_proofs`, of the tables, for any number of rows, page sizes, clicks and failures:
`NoPagePastTheEnd`, `CaptionIsTrue` and `EmptyIsHonest`. None of `PageWithinTotal`,
`CaptionTellsTheRows` and `EmptyIsTrue` is inductive: each looks at what is rendered now, and a
click renders another key. Two facts carry them. `Settled`: when the effect is not due, the
pager's total is the count of the rendered answer (0 without one) and the page is one of that
total. `AskedOrFailed`: a rendered key without an answer has a request on its way or failed, so
"no rows" is only said of an answer. The arithmetic under them (`Ceiling`, `PagesBounded`,
`PageHasARow`) is that a page within the number of pages has a row, which comes from the quotient
rounded up.

`BotPage_proofs`, of the feed, for any modes, any finite set of connections, any number of runs of
the effect and of cuts: `NeverGivesUp`, `ConnectedIsTrue` and `NoForks`. `FeedTypeOK`, `HasChain`
(an enabled, mounted hook that was not refused has a request, a socket or a timer) and
`ConnectedIsBacked` are inductive together. `NoForks` is an action property about a count:
`StepCounts` goes through the actions with the library's facts on adding and removing one element,
and every action but a run of the effect keeps the number of chains or lowers it. That `Conns` is
finite is assumed for the cardinality only.

`CreateBot_proofs`, for any registry whose rows satisfy `IsSchema`, any exchanges and any number
of edits, bots and failures: `CreationsFit`, `RequestTellsForm` and `ConfirmIsOwn`. `CreationFits`
is about the last request, which is made from the dialog alone; the invariant is `Fits`, of the
dialog: its mode and futures settings are of the strategy chosen, its parameters are at places of
that strategy's fields, and before the registry has come the strategy is the first one, which is
not live-only (`CreateAssumption`); where a checkbox writes there is only what is on or off
(`Typed`). `EditsFit` has one step for each edit; `SessionsFit` counts the sessions by the
bijection from roles; `SentAtHome` follows a parameter's place through `ensureTypes` and
`nestConfig`, `ValueEnsured` and `ValueSent` its value, for which `PlacesApart` (no two fields
share a place, from one field for each key) is needed. `NestingFits` is there because a submission
changes the form's own state. `ConfirmIsPending` is inductive as it stands.

`KlineChart_proofs`, for any intervals, any limit and any number of candles, pushes and clicks:
`TypeCorrect` and the four properties of the chart. `TypeCorrect` is about `TypeOK` and
`Remembered`: the earliest time, the end of the page asked for and the time of an answer on its
way have passed, else what comes would not be candles. `Shows` says that what is drawn is of the
interval the chart remembers and, whenever its effects are not due, that this is the interval
shown and that series, markers and last candle are those of the data. Only `Draw` draws, every
other step leaves the data alone or makes the effects due, and `Draw` has a case for drawing all
and one for drawing the last. The series are kept from draw to draw, so `DrawnLines` shows that
none is left of an indicator that is off or has too few candles, whatever was kept;
`AverageExists` says when there are enough. That markers stand on nearest candles is a fact about
the algorithm, proved first: a recursive function is a CHOOSE, so `HalvingIsDefined` exhibits one
that satisfies the recursion; `BisectFindsFirst` takes a smallest window in which the place found
would not be the first one not before the trade and finds a smaller; `NeighboursAreNearest`
compares with the candle before it.

`BacktestScreen_proofs`, for any registry, markets, prices, candles, files and number of jobs:

* `RequestAlwaysFits` from `PanelFits`: the configuration in the form has only places of its
  strategy's fields, and a bound in it was entered or comes from a market of the exchange chosen.
  Every edit keeps that (`DefaultsFit`, `PutFits`, `EffectiveFits`), the types put right on
  sending do (`EnsureFits`), and a registry that arrives late finds an empty configuration. It
  needs of the registry what `ScreenAssumption` says: the two price bounds come together, as plain
  number fields.
* `ChartIsTrue` from `JobsNumbered` (the panel knows only jobs that were submitted) and
  `ChartIsOfJob`: a chart is mounted on data that say "completed", which the manager never takes
  back but by forgetting the job, and is unmounted with the job; its markers are computed from the
  file and the candles it was answered with. That these tell every row once and in order is
  `MarkersTell`: `InOrderLists` shows that the ranks of a finite set in a strict total order are
  all taken, each by one member, so the markers of a row are in bijection with its places in the
  file; the nearest candle is the bisection again, over any integers.
* `VerdictIsFinal`, of no run's property: the screen stops polling at a verdict, and
  `VerdictStands` says that this verdict is then the manager's for ever, or the job is forgotten,
  although the user may submit others meanwhile and restarts reset what is unfinished. It needs
  that a number is given to one job only (`JobsNumbered`) and what `JobStatus` promises
  (`VerdictMoves`), which `StoreKeepsItsWord` proves of the store.

`UserArea_proofs`, for any number of keys, channels, navigations and sign-outs: `ListsAreTrue`.
`ListsTrueWhenIdle` speaks of a moment when nothing is on its way; the invariant has to say what
is known meanwhile. For the keys, `KeysKnown`: with every change heard of, what is cached as valid
or is coming is what the manager has; a change that is heard makes the query invalid and stops its
load, so a load that still has a listener began after it. The channels are changed in place, so
`NotesKnown` says it of each channel no unheard change is about; that an addition and a deletion
of one channel are never on their way together needs `Unseen` (a channel being added is not shown
yet) and that in turn `IdsMade` (its id is new). Both are conditional on `NothingHidden`: the
model's `raced` records that a change was made which a list may not know of.

`TradeLedger_proofs`, for any fills (any number of bots, symbols, prices and quantities), any
bounds and limits and any length of the day: the five properties of the ledger and the summary.
The only state is the table, so the only invariant is `TableHolds`: rows are numbered and in time
order. Everything after it is about functions of the table, loops that the model writes as folds,
and sums. A module of TLA+ can state induction only for a set, not for an operator, so
`InductionUpTo` takes the set of numbers that is to hold them all, `FoldTrace` exhibits for any
fold the sequence of its intermediate values, and `PartsRecursion` the same for sums over finite
sets; from these come the laws of sums (`SumPlus`, `SumRenamed`, `SumByKind`, ...) and of ordered
sets (`InOrderLists`, `OneList`).

* `FifoIsRight`: `Flat` relates the queue to the stock, each item standing for as many units of
  its price in a row. A purchase keeps it (`FlatAppend`); `MatchIsFlat` follows `match` item by
  item: what is left is the stock without its front, and the cost is what the front was paid for.
  A sale beyond the stock empties both.
* `CurvesAreRight`: after each row the curve ends at the loop's running sum and its times ascend
  (`Drawn`), since rows are in time order and a point of the same instant is replaced. The report
  is summed by day and the totals by symbol; both are the sum over the fills (`SumByKind`,
  `SumSorted`), once by either.
* `TagsAreRight`: the query returns the newest first, `buildTradeMarkers` sorts them stably, and
  the tagging walks an instant backwards. Composed these are the identity: `NewestFirst` and
  `TurnOfFills` compute the place of every row.
* `SummaryIsRight`: on futures the cards and the summary sum the same gains; on spot there is one
  card at most (`SpotMatches`). The answers seen need not be of one time.
* `WorthIsRight`: `MoneyIsKept` is what stays true fill by fill: realized profits are the money
  paid or received, and what is invested in the three buckets; an empty bucket has nothing
  invested in it (`BucketSettled`), and what the buckets hold is the net of the fills. Then
  `RisksAreBuckets` shows that the latest snapshot per side is that of the bucket, empty when it
  has none, and `OpenIsShown` and `ClosedIsGone` that the latest position row is open just when
  the net is not zero. The latter needs the premise of the property: after a close within the
  instant of an earlier fill the code shows the earlier row.

## What is only checked

Liveness, and so every use of fairness, is checked by TLC only: `StartingClears`, `Supervised`,
`ErrorSurfaced`, `LeftoversReaped`, `JobConcludes`, `SlotReturned`, `TabCatchesUp`, `DataHeals`,
`ReconnectsUnlessRefused`, `JobIsFollowed` and `ExpiryIsTold`. Of every other property that a run
checks a theorem states the same for all constants, one under an assumption that TLC shows to be
needed (`FilesHold`). Refuted properties have nothing to prove.

What the models abstract from: authentication, validation and rejected requests of the manager
(they change nothing); environment variables, resources, proxies and networks of containers; texts
of errors and of notifications; the report directories and storage objects of backtests; the
content of configurations in `InstanceLifecycle`, of which only the version remains; the hash
behind an instance id and collisions of container names between users (bots are distinct by
construction). In the dashboard: rendering, styling, translation; amounts are small integers and
prices of the same size, so rounding is left out; a candle is its start, width and number of
ticks; a parameter's value is its kind, so `toPrecision(10)` (`StrategyConfigForm.tsx:25`) is left
out and a number of more digits than that is sent other than shown. Of the chart's overlays moving
averages of several periods stand for all indicators, which the same effects compute from the same
candles and draw. A bot created cancels every load of the list (`Created`), also a first one that
TanStack Query would keep, and a ticket is refused (`TicketRefused`) only while the manager is
down, not for want of a user or of a ticket in the answer; no property depends on either. The
dashboard's trading mode is fixed in `CreateBot`. A bot's own writes to the database are external:
`TradeLedger` derives them from the fills as `src/web` expects to find them.

## Not modelled

| Part | Why |
|---|---|
| Worker pool (`pool.go`) | `InstanceLifecycle` takes it as "every task runs and Wait returns after the last"; that an error of ants leaves the WaitGroup up is told under the hazards |
| Market data hub, relay, tickets (manager) | the other end of `LiveFeed`, which takes a ticket as issued while the manager is up and a socket as cut at any time |
| Rate limiter and identity | integer-time refill of a bucket; no other part depends on its state |
| Credentials, notifier | asynchronous copies of a file to the database; the open hazard is listed |
| The manager's own PnL report | the Go twin of `fifo-pnl.ts`, which is modelled |
| Strategy registry and validator | tables of field checks without state |
| Database, storage and bot clients, bot proxy | stateless calls; their failures are the faults of the models that call them |
| Metrics, logging, configuration, generated code, schema, deployment | no behaviour of their own; the restart policy and the type of `last_error_at` are used as facts |
| Pushed orders and balances, `LeverageEditor`, start and stop buttons of the list, password reset | small pieces of modelled pages; what they do wrong is told under [disagreements](#disagreements) |
| User dashboard, marketing pages, remaining views | each shows one answer of one query and keeps no state that steps could disturb |

## Plan

1. *Done*: `InstanceLifecycle`; `JobStatus` and `BacktestJobs` with the refinement; their proofs.
2. *Done*: the dashboard: `PagedTables`, `KlineChart`, `LiveFeed`, `TradeLedger` with
   `BotSummary`, `StrategyForms` with `CreateBot` and `BacktestScreen`, `UserArea`; proofs of
   `PagedTables`, `LiveFeed` and `CreateBot`.
3. *Done*: proofs of `KlineChart`, `BacktestScreen` and `UserArea`.
4. *Done*: proofs of `TradeLedger` and `BotSummary`; of all safety properties none is left.
5. `WorkerPool` (Submit and Wait against ants' errors) with an abstract task group that it should
   implement and that `InstanceLifecycle` uses.
6. The manager's end of the feed: tickets used once, the hub's reference counts; composed with
   `LiveFeed`.
7. `Credentials`: file, copies, late marks; the database converges to the file, or which writes it
   loses.
8. The merges and the YAML round trip of configurations as operators, with their laws.

Each of 5 to 7 would take the place of a run or of a property that says less: the project keeps to
a dozen runs.
