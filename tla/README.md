# AlgoEdge backend: a TLA+ model

The program is the Go backend of AlgoEdge: an HTTP server through which an owner
signs in, submits backtests of option and equity strategies and reads their
results, a job, `cmd/sync`, that brings the market data the backtests run
on into the database every day, and the two wrappers under `deploy/scripts` that
put new images of both on the server. Paths below are relative to the root of the
repository's source.

The development has eleven system modules, three abstract specifications, eight proof
modules, and one small MC module per component that gives TLC its instance. TLC checks
every property on a small instance; every safety property and refinement of the passing
runs is also proved by TLAPS, for all values of the constants.
`PROJECT.json` lists the components, the runs, the hazards of the code with the
properties aimed at them, and, for each definition, the lines it models.

1. [The system](#1-the-system)
2. [Modules and what they model](#2-modules-and-what-they-model)
3. [Runs](#3-runs)
4. [Findings](#4-findings)
5. [Proofs](#5-proofs)
6. [What is not modelled](#6-what-is-not-modelled)
7. [Plan](#7-plan)

## 1. The system

| Component | State it keeps | Operations | Modelled |
|---|---|---|---|
| **Sessions** (`services/auth_service.go`, `handlers/auth.go`, `storage/refresh_tokens.go`, `storage/users.go`) | tables `users`, `refresh_tokens`; the allowlist, read at start | exchange a Firebase token, refresh (rotate), logout, upsert a user | `AuthSessions` |
| **Access tokens** (`services/auth_jwt.go`, `middleware/auth.go`) | none: the token says it all | mint with a session or a refresh, validate | `AccessTokens` |
| **Token clean-up** (`cmd/server cleanup-expired-refresh-tokens`) | – | delete expired rows | `AuthSessions` |
| **Backtest runs** (`services/backtest.go`, `storage/backtests.go`) | table `backtest_runs`; one goroutine per accepted run | submit, execute, store the result, read | `BacktestRuns` |
| **Run history** (`storage/backtests.go`, `handlers/backtest*.go`) | – | list completed runs page by page, open one, latest run of a strategy | `BacktestHistory`, `StrategyPages` |
| **Strategies** (`strategies/registry.go`, `services/strategy.go`, `handlers/strategy*.go`) | registry, shared by all requests | list, detail | `StrategyPages` |
| **Rate limiter** (`middleware/rate_limit.go`) | map of entries under a mutex | allow, evict | `RateLimiter` |
| **Market sync** (`cmd/sync`, `services/sync.go`, `storage/candles.go`, `storage/instruments.go`, `storage/sync_runs.go`) | tables `instruments`, `candles`, `sync_runs` | one day, backfill, catch-up | `MarketData`, `MarketSync` |
| **NSE provider** (`providers/nse`) | cache of the day's F&O file | fetch instruments, fetch candles, near-month choice | `MarketSync` (in part) |
| **Engine** (`engine/backtest.go`, `stats.go`, `charges.go`) | the book of one run | run a backtest, statistics, chart | `Engine` (in part) |
| **Indicators and evaluators** (`engine/indicators.go`, `evaluator.go`) | – | SMA, RSI, ATR, Supertrend, VWAP, momentum; five evaluators | `Indicators` |
| **Configuration and identity** (`config/config.go`, `database/database.go`) | the env file, read at start | load, overlay of `DATABASE_URL`, checks at start, connect | `ServerConfig` (in part) |
| **Health** (`services/health.go`, `handlers/health.go`) | – | ready, version | `Deployment` |
| **Deployment** (`deploy/scripts`, `deploy/docker-compose.yml`, `.github/workflows`) | the compose `.env` with both pins, containers, `schema_migrations` | deploy to staging, promote, roll back | `Deployment` |
| Market registry, HTTP plumbing, Firebase client and fixtures | little or none | | no, see section 6 |

How they interact:

- **Handlers and the database.** Each request is a goroutine; the state they
  share is in PostgreSQL, statement by statement. Only the rotation of a refresh
  token and the batch insert of candles are transactions.
- **Submit and its goroutine.** `Submit` inserts the row, marks it RUNNING,
  starts a goroutine and replies 202. From then on the two share the run's
  struct and its row. Nobody waits for the goroutine, not even at shutdown.
- **The job and the server** share the tables of instruments and candles; `flock`
  around the job keeps it to one process. A strategy page and a submission read
  candles statement by statement while the job stores a day.
- **The two deploy wrappers** share one `.env`; one concurrency group of the
  workflows keeps them apart. The job runs whatever is pinned, with the
  env file as it is by then; a restarted container keeps the image and the
  environment it was created with.
- **Engine and indicators** are pure: a backtest calls an evaluator for signals
  on the signal candles, then walks along the trade candles.

What is hard in this code, and what makes each part correct:

- *Sessions.* Two refreshes with the same token both pass the look-up and then
  rotate; a logout or a restart with another allowlist falls in between; the
  INSERT, the COMMIT or the reply fails. A refresh token must buy one successor,
  a session have one live token, a failure burn no credential, a logout be final for
  its token, a 401 tell the truth, and an e-mail address that moves to another Firebase
  account must not carry a session along.
- *Access tokens.* Nothing can take one back: all there is to end access is the
  hour, and that nothing mints one for a session that was ended. A logout that comes
  after the commit of a refresh ends nothing, and does not say so.
- *Backtest runs.* Panics and errors at every stage, an UPDATE that fails, a
  process that dies, a reply written while the goroutine already works. Readers
  must never meet half a result, a run must end once and, if nothing died, must end.
- *History.* COUNT and SELECT without a transaction, OFFSET paging while runs
  complete.
- *Strategy pages and submissions.* Several statements and no transaction, against
  tables that two other actors write; a map of the registry shared by all requests.
- *Rate limiter.* The clock is read before the mutex is taken, and a sweep removes
  entries; budgets must hold and the map must not grow.
- *Market sync.* Files that come late, one by one, corrected or empty; failures with or
  without effect; kills. No half day, no lost or changed candle, no failed day
  that costs the next.
- *Configuration and deployment.* The identity checked is not computed from what
  is connected to; each step of a wrapper may fail with the pin already written; a
  rollback rewrites the pins of both environments; a wrapper may be killed.
- *Engine and indicators.* Index arithmetic: a signal executed on data of its
  future, a rule slept through, a window off by one, two loops that compute one
  figure differently.

## 2. Modules and what they model

### `AuthSessions` implements `OneTimeCredentials`

| TLA+ | Code |
|---|---|
| `users`, `tokens` | the two tables. A deleted row differs from one never inserted, because a UUID or a random token is never drawn twice |
| `allowed` | `AuthService.allowedUIDs` |
| `req[r]` | one handler: where it is, and the variables it goes on with |
| `Exchange`, `UpsertByFirebaseUID`, `CreateSession` | `ExchangeFirebaseToken` and its two statements |
| `Refresh`, `FindUser`, `BeginRotation`, `RevokeOld`, `CommitRotation` | `RefreshSession`, `LookupActiveUserID`, `FindByID`, `RotateRefreshToken` |
| `Logout`, `DeleteExpired` | `Logout` with `RevokeByHash`, whether a row matches or not (204 in both cases); `DeleteExpired` |
| `DatabaseError` | any statement fails, a COMMIT with or without effect |
| `Deliver`, `LoseReply`, `Restart`, `DeleteUser`, `Tick` | the environment |
| `held`, `lineage`, `loggedOut` | history variables: no action's guard reads them |

The grain is one statement. The UPDATE inside `RotateRefreshToken` takes a row
lock, which the model keeps until the commit (`Locked`): logout, clean-up and
other rotations of that row wait for it. The INSERT and the COMMIT are one step
because nothing can be observed between them.

Simplifications: the server's `time.Now()` and the database's `NOW()` are one
clock; a new token's expiry is taken at the begin of the transaction; `"403"`
stands for the 503, 401 and 403 that refuse an exchange before anything is
written; access tokens are left to `AccessTokens`. `DeleteUser` has no code in the
repository, but `RefreshSession` expects it to happen and the schema cascades it.

`OneTimeCredentials` is the promise without handlers or clocks: a credential is
issued, which begins a session; redeemed for one successor in the same session, in
the step that kills it; or withdrawn. It never lives again. The refinement maps
`live` to the unrevoked rows, `dead` to the revoked and deleted ones and `session`
to the root of a token's lineage.

### `AccessTokens` (composes with `AuthSessions`)

Every action of `AuthSessions` taken together with what it means for access
tokens. `MintForSession` and `MintForRefresh` are the two calls of
`mintAccessToken`, steps of their own because the one comes before the refresh
token is stored and the other after the rotation has committed; `Claims` is what
is signed; `DeliverTokens` is the 200 reply, from which on the client holds the
token. `Validates` is `ValidateToken`: the expiry, and nothing else. The
`env` claim is left out, since there is one environment. `allowedUntil`, `endsBy` and
`late` are history: until when the process's allowlist has justified access, when it
has to be over after the first logout of a token, and which tokens a refresh had
already replaced when they were logged out.

### `BacktestRuns` implements `RunLifecycle`

| TLA+ | Code |
|---|---|
| `rows[r]` | a row of `backtest_runs`: status, owner, and what `UpdateResult` writes |
| `submit[r]` | the handler of one submission; `snapshot` is the copy `Submit` takes before `go` |
| `work[r]` | the goroutine's struct: the status and the outcome it is about to store |
| `Submit`, `SubmitRefused`, `CreateRun`, `StartRun`, `Reply` | `Submit` up to the 202, or its refusal |
| `RunEngine`, `ComputeStatistics`, `PersistResult` | `executeRun`, `applyResult`, `failRun` and the deferred `recover` |
| `Crash` | the process ends with everything in flight |
| `abandoned` | history: runs whose goroutine died or could not store the end |

`outcome.result` is `"partial"` once `applyResult` has put the metrics on the
struct and `"whole"` when statistics and chart are there too: a panic between the
two is the interesting case. `completed_at` (`NOW()` of the statement) and the
commit are one moment.

`RunLifecycle` is what the table promises a reader: recorded for one owner,
started, and finished at most once, with a result or an error.

### `BacktestHistory` (composes with `BacktestRuns`)

Extends `BacktestRuns` by a client that walks through `GET /backtests`. Each
page is `CountRuns`, then `SelectPage`, with any step of the runs in between.
The WHERE clauses of the two statements are separate definitions (`Counted`,
`Selected`), as they are in the code. The order is that of `completed_at`; ties,
which the code breaks by `created_at`, do not arise in the model. `Opens` is what
`GET /backtests/:id` and its `/trades` make of a row, with a WHERE clause of their own.

### `RateLimiter`

`ReadClock` is `time.Now()` before the mutex, `Allow` the body under it, `Evict`
one sweep. A reading may be up to `MaxLag` old when it is used, which is what
waiting for the mutex amounts to; a ticker that fires late lags likewise.
`granted` is a history variable: for each key, the true times at which its requests
were let through, in order. The properties are about this list and not about the
limiter's counters: `TwoBudgetsAtMost` compares the times of a request and of the one
two budgets later, `DenialIsEarned` that of the request a whole budget back.

### `StrategyPages` (composes with `MarketData` and `RunLifecycle`)

The readers. `ReadMaxDate` and `ReadLastRun` are the two statements of
`GetBySlug`, `Render` is `toStrategyInputResponses`, which copies the constraints
of the registry's strategy before it puts the date in, and `Send` the JSON
encoder, which reads the map that was chosen. `FetchFirst` and `FetchSecond` are
the reads of `fetchEngineInputs`. The writers are the abstract specifications,
taken as they are: since `MarketSync` implements `MarketData` and `BacktestRuns`
implements `RunLifecycle`, the readers meet everything those may do.
One strategy is registered, so that all requests render the same inputs.
`since`, `sawRun` and `held` are history.

### `MarketSync` implements `MarketData`

| TLA+ | Code |
|---|---|
| `archive[d][f]` | which version of a day's three files NSE serves, 0 for a 404 |
| `instruments`, `candles`, `runs` | the three tables |
| `job` | the process: mode, day, files fetched, outcome |
| `StartCatchUp`, `StartBackfill`, `StartSingleDay` | the modes of `cmd/sync/main.go` |
| `CreateRun` … `CompleteRun` | `SyncProvider` for one day |
| `FetchFO`, `FetchIndex`, `FetchCM` | the downloads of `SyncInstruments`, kept for `SyncCandles` |
| `FetchAgain` | the second download of an F&O file without rows: `cachedRows` is nil then, which looks like no cache |
| `SyncCandles` | the candle stage: `StoreCandles`, `NothingToStore` when no candle came out, or an error |
| `Advance` | the loop of `main.go`: log the error and go on |
| `Tick`, `Publish`, `Revise`, `Kill` | the environment |

`MarketData` is what the table promises its readers: a day's candles come as one
batch made of all its files, and what is stored stays. `PossibleBatches` are the
batches that the versions of the three files of a day allow. `MarketSync` maps to
it by the calendar of the `candles` table.

A file is a set of rows for each day and version, and may be empty: a header alone, or
only rows that do not parse, is no error in any of the three parsers. F&O rows are futures
and options, with or without an underlying and an expiry, so that the guards of the
near-month choice (`eod.go:242-248`) choose among all of them (`Futures`, `NearMonths`).
`SyncCandles` leaves out rows whose instrument is unknown, which happens when the file
downloaded again lists what the first did not. `runs[r].files` is history: the versions
that `SyncInstruments` downloaded. `CompletedMeansStored` is about what those files owe
(`OwedCandles`), to the last candle; it may be none. A row carries the date of its file, or none
and is given it: `parseRow` would take any other date as well (`eod_fo.go:284-290`), and
that NSE puts none there is an assumption of the model.

A call may fail with or without its effect; the day's deadline is one of the
ways to fail. `cmd/sync` always sets a target date, so a missing file fails the
day. A candle carries the version of the file it came from and, for a
continuous future, the contract whose prices it shows.

### `ServerConfig` and `Deployment`

| TLA+ | Code |
|---|---|
| `Config`, `Overlaid`, `Loads` | `newFromEnv`, `applyDatabaseURL` |
| `IdentityValid`, `FirebaseValid` | `ValidateStartupIdentity`; `ValidateFirebaseAuthConfig`, which the server alone calls |
| `Target` | the database the DSN leads to, computed from the URL and not from the fields |
| `pins`, `envFile`, `container`, `schema` | the compose `.env`, `<env>.env`, the backend containers, `schema_migrations` of each database |
| `wrapper[e]` | the deploy wrapper of an environment: its step, its image, its backup of the `.env` |
| `WritePin` … `Smoke` | the steps of the scripts, in their order; `Rollback` is `rollback_and_fail` |
| `Promotable` | what `algoedgefno-deploy-prod.sh` asks of staging before it touches anything |
| `UnknownSmokeMode`, `Die`, `RollbackFails` | the ways a wrapper ends half-way |
| `Boot`, `Restart`, `RunSync`, `EditEnvFile` | the containers, cron, the operator |
| `proved`, `unsettled`, `worked`, `wrapper[e].before` | history |

`ServerConfig` knows of a name only the environment markers it contains. The
scripts differ between the environments in little: production takes its image
from the staging pin, does not compare `/version` before the smoke test, and
compares the container's image after it. One `e` stands for both. `docker compose up`
leaves a container alone whose image and environment have not changed (`Up`).
golang-migrate is external: it refuses a dirty schema and one newer than
its files, and a run that fails leaves the version it got to. The row of
`environment_identity` is written by the operator when a database is set up
(`docs/one-vps-deployment.md:314`), so that each database is one environment's (`Home`);
the migrations have an env file of their own and reach that one. What a promotion asks of staging is read in one step,
since the steps of the other wrapper exclude it and a restart in between only
makes it fail. `NamingAssumption` is what the names of the operator's files and databases have to be for
the code's checks by name to mean anything: an env file says its own `APP_ENV` or none, and
only the database of an environment has that environment's marker in its name. It constrains
names alone; where a URL leads is free.

### `Engine`

| TLA+ | Code |
|---|---|
| `stamps`, `signals` | the timestamps of the trade candles; what the evaluator emitted |
| `cursor`, `queue` | `scheduleSignals`: the signal it has come to, `matchTradeIdx`, `executionTradeIdx`; the schedule built so far |
| `bars`, `sigIdx` | the candles the loop of `RunBacktest` has reached; how many scheduled signals it has executed |
| `book` | `openTrade`, `result.Trades`, `equity`, `peakEquity`, `maxDrawdown` |
| `ScheduleSignal` | one iteration of `scheduleSignals` |
| `WalkCandle` | the next candle: its exit check |
| `ExecuteSignal` | one iteration of the inner loop over the signals due on that candle |
| `Finish` | what is open is closed, then totals, `ComputeTradeStats` and `BuildChartData` |

`Init` chooses at which slots there are trade candles and which signals there are.
Bars are chosen one by one when the loop gets to them, which yields every series
without an initial state for each. A loop over the trades is a recursive function of how
many it has passed: `Sums`, `Peaks` and `Streak` are the three there are, and every figure is
made of them, as each loop of the code makes it. Money is an integer, divisions round down, ratios
are pairs of integers compared by multiplying. Charges keep their structure (cap, percentage,
tax on the sum) with one set of rates.

### `Indicators`

One action, `ReadCandle`: another candle arrives and every indicator and evaluator
moves on by one iteration of its loop. The five evaluators run side by side on
the same candles. Sums slide in the model as they slide in the code, and the
properties compare them with the sums of the windows (`Sum`). `inf` and `NaN` do not arise:
the code guards the two divisions, and so does the model. `Caught` names the candles between
Supertrend bands that have crossed (section 4).

## 3. Runs

| Run | Instance | Checks | Result |
|---|---|---|---|
| `auth_sessions` | 2 requests, 2 uids, 1 e-mail, 1 user row, 3 tokens, clock 0–2, lifetime 1, production rules | seven properties of tokens and the refinement | pass, 1,257,253 states |
| `auth_access` | 1 request, 2 uids, 2 tokens, clock 0–3, lifetimes 2 and 1, fair | access ends within the hour of a logout and of leaving the allowlist; expired rows go | pass, 1,039,216 states |
| `backtest_runs` | 2 runs, 2 owners, crashes, fair | readers, replies, refinement, settling | pass, 14,156 states |
| `backtest_polling` | the same without crashes | `PollingTerminates` | **violated** |
| `backtest_history` | 3 runs, 2 owners, pages of one, crashes | listed runs open, totals, nothing missed | pass, 1,567,847 states |
| `rate_limit` | 1 key, 2 goroutines, budget 2, window 2, lag 1, clock 0–8 | budgets, honest refusals, reclamation | pass, 4,318,115 states |
| `market_sync` | 3 days with a weekend, 2 futures and an option, 2 stocks, 1 index, empty F&O and index files on day 3, 2 starts, one corrected file | run rows, continuous futures, the refinement, the walk goes on | pass, 500,296 states |
| `strategy_pages` | 2 requests, 2 days, 2 runs, 2 users | current dates, last backtests, trade streams | pass, 1,464,934 states |
| `engine` | 4 slots, six bars, target and stop 50 %, time exit 2 | no look-ahead, positions, exits, figures | pass, 579,917 states |
| `engine_entry_bar` | the same | `ExitsOnEveryBar` | **violated** |
| `indicators` | up to 7 candles of six shapes, periods 2 and 3 | window sums, signals, ratchet | pass, 335,923 states |
| `deployment` | 3 images with two migration versions, 3 wrapper runs, 1 edit, four or five env files each | promotion, rollback, schema, isolation, databases | pass, 1,415,340 states |

What the runs of more than one component show:

- `auth_access`: `AccessFollowsAllowlist` and `LogoutEndsAccess` say how far a
  decision taken on the refresh token binds access, which no code checks: an
  access token signed late, for a refresh that the logout or the restart has
  overtaken, is the case they rule out. A restart ends the refreshes in flight,
  and rotation finds nothing after a logout. A logout behind the commit of a refresh
  is excepted (`late`): it finds nothing in its turn, and the session goes on
  (section 4).
- `strategy_pages`: `DateLimitIsCurrent` (the date shown lies between the last
  stored day at the request and that at the reply, and is nobody else's),
  `LastBacktestMovesForward` (in whatever order runs end) and
  `TradeStreamCoversSignals` (the order of the two reads matters: a day stored
  between them may be missing in the signals, never in the trades).
- `deployment`: `PromotedWasProved` holds as long as every staging wrapper ended in
  order; with one killed, or stopped by an unknown smoke mode, its image stays
  pinned, becomes ready, and passes for proved. `OnOwnDatabase` excludes syncs
  whose URL hides its database from the check at start: for the server `/ready`
  catches that, for `cmd/sync` nothing does.

Type invariants (`TypeOK` and its like) are stated in every detailed specification. All of them are proved, as
part of the inductive invariants of section 5; none is among the runs' properties.

**Why the bounds are enough to meet the interesting cases.**

- *Sessions.* The races are between pairs: two refreshes of one token, refresh
  and logout, two first sign-ins. Three tokens make a chain of two rotations, or
  two sessions and a rotation. Two uids and one address make the conflict. With a
  lifetime of 1 and a clock of 2 a token expires while a handler holds it.
- *Access.* One request suffices: what races with it is a logout, a restart and the
  clock, none of which needs a handler. Two tokens make a rotation; three ticks let
  an access token expire, be renewed, and the row expire.
- *Runs.* Runs share nothing but the table, so two show every interference there is
  (the theorems hold for any number). The history needs three: with pages
  of one, a run that completes pushes another to a later page.
- *Rate limiter.* Eight ticks are four windows, and more than the TTL, a sweep and
  the lags together, so an entry is created, used up, renewed, idle and evicted.
  One key suffices: keys share only the sweep, which treats them apart.
- *Sync.* Three days allow a failed day before and after one that succeeds; the
  near contract expires on day 1 and is still listed on day 3; the first F&O file
  of day 1 misses it and the corrected one has it; an option of the same expiry is there
  to be mistaken for it. On day 3 the index file has no row that is kept and the first F&O file
  none at all, so that a day is completed with nothing stored, and the corrected file may
  come between the two downloads. `MaxStarts = 2` lets a catch-up
  follow a backfill that was killed. Only the F&O file may be corrected, since the
  others enter candles the same way.
- *Pages.* Two requests share the registry's map, two days and two runs can be
  stored and end in either order, and a day may come without the future and be
  completed later.
- *Deployment.* Three wrapper runs are a staging deployment, a promotion and one
  more of either kind, which includes deploy, fail and promote, and two failures in a
  row. The three images are an older one, one with two more migrations (so that
  a run may stop half-way), and a patch of the latter with the same migrations,
  which only its digest tells apart. One edit swaps in a file with the other
  environment's database or user, automatic migrations, or a URL that leads elsewhere.
- *Engine.* Four slots hold an entry, an exit, a re-entry and an exit; the bars
  include one that touches target and stop at once and gaps beyond both. The time
  exit of 2 can fire before, with, and after a price rule.
- *Indicators.* Windows of 2 and 3 slide at least four times in seven candles.
  Prices are multiples of 2^5·3^5, so that each division within seven candles is
  exact and the integers of the model are the code's rationals. Every evaluator
  emits at least three signals in some series, and RSI repeats a side.

Every bound is a constant: `MaxNow`, `MaxLag`, `MaxStarts`, `Horizon`, `Corrected`,
`Versions`, `TradeCounts`, `MaxDeploys`, `MaxEdits` and the sizes of the sets. `CHECK_DEADLOCK FALSE` is given
where the model ends on purpose: when the calendar or the series is over
(`market_sync`, `strategy_pages`, `engine*`, `indicators`) and when all runs are done
without crashes (`backtest_polling`).

**Fairness.**

- `AccessTokens!FairAccessSpec`: handlers run on, time passes, and the clean-up is
  started every night by cron (`docs/production-checklist.md:111`). The last is an
  assumption about the operator. Nothing is assumed of clients.
- `BacktestRuns!FairSpec`: handlers and goroutines run on. Every loop of the engine
  is bounded by the number of candles, and every statement returns or fails.
- `MarketSync!Spec`: weak fairness of `JobStep`. Every call ends with an
  answer, an error or the deadline of its context; `main.go` adds no wait of
  its own. `Kill` and the environment have no fairness.
- The other specifications state safety only.

**What `Restart` and `Crash` do not exclude.** `AcceptedRunsSettle` says
"ends, or its goroutine died or could not store the end": the second half is
not an escape but what the code does, since nothing looks at old rows at start.
`backtest_polling` shows the consequence.

## 4. Findings

Each is a sentence of the repository that the code does not live up to; the run
exhibits it.

1. **`backtest_polling` / `PollingTerminates`.** The comment on `Submit` tells
   clients to poll until COMPLETED or FAILED. `executeRun` logs the error of
   `UpdateResult` and `failRun` drops it; one failing UPDATE leaves RUNNING for good.
2. **`engine_entry_bar` / `ExitsOnEveryBar`.** The contract says exits are
   evaluated on every trade-side bar; the entry bar is not, because exits come before
   entries in the loop.

Seen while modelling, without a run of their own:

*Sessions and limits*

- The comment at `internal/middleware/rate_limit.go:14` calls the window rolling; it
  is fixed, and up to two budgets pass around its edge. What does hold is
  `TwoBudgetsAtMost`.
- The field's comment at `internal/middleware/rate_limit.go:42` says that `lastSeen` is updated
  on every request; the code updates it on the requests it lets through, as the comment at
  line 130 says, and `Allow` models that. With the former an address that keeps
  knocking would never be evicted.
- A logout that comes after a refresh of the same token has committed matches no row. It is
  answered 204 ("Idempotent", `internal/services/auth_service.go:176`), while the successor lives and
  the access token of that refresh may still be signed: the client is told that it is logged
  out of a session that goes on. `LogoutIsFinal` is about the token, and `LogoutEndsAccess`
  excepts this case.
- The `Auth` middleware looks neither at the allowlist nor at the `users` table: a
  deleted user is let in until the access token expires, an hour at most.

*Sync*

- The comments at `internal/providers/nse/eod_index.go:65` and `eod_cm.go:57` say that on daily
  runs a failed fetch of the index or CM file is not fatal and its data are skipped. The daily
  catch-up sets a target date (`cmd/sync/main.go:142-144`, `177-179`), and with one such a failure
  fails the day (`eod.go:165-171`, `177-183`). The comments are true of a provider
  without a target date, which only `cmd/server/main.go:112` makes and nothing syncs with.
  `ImplementsMarketData` depends on the code being as it is: to skip the file would store half a day for good.
- A day whose files yield no candle is COMPLETED with nothing stored (`eod.go:336-338`), and the
  next catch-up tries it again, as `LastSyncedDate` has not moved.
- An F&O file without rows is downloaded twice: `cachedRows` is a nil slice then
  (`eod_fo.go:106`, `226`), although the comment at line 95 says the results are cached
  so that no file is. If NSE has corrected the file in between, its rows meet
  instruments that do not know them, are skipped, and the run is COMPLETED all the same.
- `docs/scheduled-sync-setup.md:148` has the operator check that the newest row of
  `sync_runs` is never stuck RUNNING. The closing UPDATE (`services/sync.go:69`) shares
  the day's context, whose deadline may be what failed the day, and is not retried.
- `docs/scheduled-sync-setup.md:16` says that `ValidateStartupIdentity` enforces that
  `APP_ENV` matches the database. It compares names; a URL with a `dbname` parameter, or
  without host or path, leads elsewhere than the names say.

*Deployment*

- `docs/one-vps-deployment.md:633` promotes what "previously passed staging smoke
  checks". The production wrapper asks whether staging is ready and at the version,
  not whether its smoke test passed; a wrapper that is killed, or called
  without a smoke mode (`algoedgefno-deploy-staging.sh:309` ends it without a
  rollback), leaves an image that is ready and unproved.
- A killed wrapper leaves the pin on its image, so that the next rollback
  restores that one and not a known-good one (`docs/backup-restore.md:222`).
- An older image cannot be deployed by a wrapper once a newer one has migrated:
  its `up` refuses the schema. A rollback neither checks the minimum migration version
  nor runs migrations.
- `rollback_and_fail` calls the restoration inside `if !`, where `set -e` is off
  (`algoedgefno-deploy-staging.sh:208-213`, `225`; `algoedgefno-deploy-prod.sh:247`). When the `install` of the
  backup fails and `compose up` succeeds, the new pin stays, its image is what is brought up, and
  the wrapper reports the previous one as restored. The model has this among the ways a
  rollback fails (`RollbackFails`), after which `RestoresWhatRan`, `PromotedWasProved` and
  `NeverAheadOfSchema` promise nothing for that environment.
- `migration_applied` stays false when the migrations stop half-way, so that the
  note about migrations that are not rolled back is left out where it matters.
- The sync job may start between the writing of a pin and the migrations, and then
  runs new code on the old schema.
- `GET /version` says 0 while the schema is dirty, since the table has one row: the
  comment at `internal/storage/health.go:32` speaks of the highest applied version.

*Strategy pages and history*

- The history leaves out completed runs without trades and is ordered by `completed_at`;
  the last backtest of a strategy may be one of them and is chosen by `created_at`.
- When a sync commits between the two reads of a submission the trade stream
  has a day more than the signal stream.

*Backtests and engine*

- `docs/decisions.md:68` speaks of a bounded worker queue; `services/backtest.go`
  starts one goroutine per run.
- The text of built-in strategies promises a stop-loss exit
  (`internal/strategies/ma_crossover.go`, `vwap.go`) while they set no stop.
- A test asserts that the drawdown is at most 1; with leverage the equity may fall
  below zero and the figure exceed 1. `FiguresAgreeWithTrades` therefore compares the two
  figures and does not bound them.
- `validateBacktestPnlIdentity` compares a number with the formula it was computed by.
- `docs/scheduled-sync-setup.md` queries `finished_at`; the column is `completed_at`.
- An intrabar exit and a re-entry at the same candle's open carry one timestamp.
- The comment of `evaluateMomentum` (`internal/engine/evaluator.go:131`) has the price drop below
  the high of its window before the next BUY; the code resets its flag at a close equal to that high (`<=`), and so does
  `SignalsFollowTheMarket`.
- A VWAP crossing next to a window without volume is lost; `SignalsFollowTheMarket`
  has to except it.
- Supertrend chooses its first direction from the upper band alone;
  `SupertrendRatchets` has to except the first line.
- A candle far from those before it can move one Supertrend band past the other, since each
  band is latched on its own (`indicators.go:192-207`). Its close is then above the upper and
  below the lower band, and the line it switches to is on the wrong side of it.
  `SignalsFollowTheMarket` and `SupertrendRatchets` except such a candle (`Caught`).

## 5. Proofs

| Module | About | Assumptions | Inductive invariant |
|---|---|---|---|
| `AuthSessionsProofs` | `AuthSessions`, `AccessTokens`, the refinement of `OneTimeCredentials` | `AuthAssumption`, `AccessAssumption` | `AuthInv`, `AccessInv` |
| `BacktestProofs` | `BacktestRuns`, `BacktestHistory`, the refinement of `RunLifecycle` | `RunsAssumption`, `PageAssumption` | `RunsInv`, `HistoryInv` |
| `RateLimiterProofs` | `RateLimiter` | `LimiterAssumption` | `LimiterInv` |
| `MarketSyncProofs` | `MarketSync`, the refinement of `MarketData` | `MarketSyncAssumption` | `SyncInv` |
| `StrategyPagesProofs` | `StrategyPages` | `PagesAssumption` | `PagesInv` |
| `EngineProofs` | `Engine` | `EngineAssumption` | `EngineInv`, `AccountInv` |
| `IndicatorsProofs` | `Indicators` | `IndicatorsAssumption` | `IndInv` |
| `DeploymentProofs` | `Deployment` with `ServerConfig` | `DeploymentAssumption`, `NamingAssumption`, `ConfigAssumption` | `DeployInv` |

TLAPS has checked every theorem to the last leaf for every value of the constants that
satisfies these assumptions: any number of users, tokens, requests, runs, keys, days, images,
candles and trades. The constants that bound a model (`MaxNow`, `MaxStarts`, `Horizon`,
`MaxDeploys` and so on) are arbitrary too. Each inductive invariant was an invariant of the
component's run before it was proved.

Every proof has the same shape: `Init` implies the invariant, each action keeps it (one lemma
per action or per group of actions that change the same thing), and each property follows
from it, or from it and one step.

**Sessions.** `OneLiveToken`, `RedeemedOnce`, `NoCredentialBurnt`, `HonestRefusal`
and `IdentityKept` are the invariants of the run `auth_sessions`, `AllowlistObeyed` and `LogoutFinal` its
action properties and `Refinement` the implementation of `OneTimeCredentials`. None of them is inductive: that a commit
keeps `SingleSuccessor` depends on what the request read several steps earlier. `AuthInv` adds

- `TableInv`: how rows and lineage hang together (a parent is dead, and so is what was
  logged out; a stored token's user row is present and has the uid of its lineage);
- `RequestInv(r)`: what a handler has read is still true of what it will write (in
  `commit` the old row is live; from `begin` on the user is allowed);
- `LockInv`: two requests in `commit` hold different rows. This is where the row
  lock enters, and without it `SingleSuccessor` fails.

`StepsMoveForward` (rows never come back, expiries never change) carries `RequestInv` of the
requests that do not move; `OneRequestMoves` reduces a step to the one request it changes.

**Access.** `AccessBoundByAllowlist` and `AccessBoundByLogout` need `AuthInv` and what
`AccessInv` adds: a live token, and the one a 200 reply on its way carries, is the last
of its chain (`LastOfChain`, in `ChainInv` and `PendingOK`: every other token with that root has been
superseded); after a logout that was not late no token of the chain is live (`ChainDead`); and what is signed ends before the allowlist (`SignedOK`) or
such a logout (`EndedOK`) stops justifying it.

**Runs and their history.** `RunsInv` is, run by run, `RowOK` (what a row
can hold), `HandlerOK` (how far the handler is against the row) and `WorkerOK` (a
goroutine between engine and persist finds its row RUNNING, and what it is about
to persist is a whole outcome). `OneRunMoves` gives the other runs. `RunsAssumption`
contains that the set of runs is finite, for `completed_at` to be counted. For the history,
`DoneInv` says that completions are numbered without ties, and `WalkInv` what a
walk through the pages knows: whatever was shown or is due is still listed, and a due run in
front of the next page has been shown. Since completions are added in front, a run only moves
to later pages, and `NothingMissed` follows by counting positions.

**Rate limiter.** `LimiterInv` places an entry in the list of the times its key was let
through. Its count is the length of the part that belongs to the current window; this
part begins at most one wait after `windowStart`; whatever lies more than a budget before
it is at least a window older. `GoneOK` says the same of a key without entry, because the
sweep takes only what has been idle for the TTL. `BurstIsBounded` compares two positions of the
list, which is why the history is a list of times.

**Market sync.** `JobOK` is what each stage of a day knows of the stages before it: the files
fetched, the instruments written, and that the F&O file is downloaded again only when the first one
was empty. `SeriesKnown` and `SeriesComplete` are about the tables: a stored future has the
continuous instrument of its underlying, and a day with the candle of an unexpired future
has the continuous one. `WholeBatch` makes of this what `candles` commits: the rows that are
known (`BatchRows`), which are all of them unless the first file was empty. Hence it is one of the
`PossibleBatches`, the step of the refinement (`SyncRefinesMarketData`), and holds everything
owed (`OwedIsOffered`), which is `CompletedRunsStored`. Files are arbitrary sets, empty ones included.

**Strategy pages.** The writers are the abstract specifications, so the proof uses only that the
calendar grows and that a run never goes back. `DateOK`, `RunOK` and `FetchOK` say what a
request has read is still there; `TablesOK` numbers the runs in the order they were created.

**Engine.** `EngineInv` says where the two indices of `scheduleSignals` have come (`CursorOK`:
what they have passed is too early for every signal to come, which is why indices that never move
back lose nothing), that the schedule holds every executable signal at its first candle and in
order (`QueueOK`), that the walk has executed exactly what was due (`WalkOK`), and how every
position was entered and ended (`BookOK`). `EntriesUseNoLaterData`, `PositionsFollowSignals` and
`RulesAreNotSleptThrough` follow. For the figures, the lemmas on `Sums`, `Peaks` and `Streak`
say what each loop computes (`LongestIsLongest`: the longest streak is the length of the
longest run of flagged trades), and `AccountInv` that equity, peak and worst drawdown, as
`recordTrade` keeps them, are those of these loops. `FiguresFollowFromTrades` then compares them with
the report. That the worst drawdown stays the worst rests on comparing fractions being
transitive, hence on a positive peak, hence on a positive capital.

**Indicators.** `IndInv` says what every running value is after any number of candles: each
sum that of its window, the flag of momentum and the direction of Supertrend what the candles say, and
the last signal of each evaluator the side this value tells. Of the averages of RSI and ATR only
the types are known: no property says what they average.

**Deployment.** `OneWrapper` comes from the concurrency group, and everything else from it:
a wrapper's backup is the `.env` as everybody else left it (`WrapperOK`), so that restoring the whole
file takes nobody's pin back but its own; an environment whose wrappers ended in order runs what
it is pinned to (`SettledOK`) on a schema that is new enough (`SchemaOK`); production is given only
what was proved (`ProvedOK`). `WorkedAtHome` needs `NamingAssumption`.

**Induction.** The library's induction theorems take an operator, which the provers at hand
cannot instantiate. What the proofs need of it they get from a least counterexample: a set of
natural numbers that is not empty has a least element (`LeastNumber`, by the
well-foundedness of `<`). `LoopExists`, `AlikeThroughout` and `HoldsThroughout` in
`EngineProofs`, and their like in `IndicatorsProofs`, make this existence, uniqueness and
induction for recursive functions over `0..n`.

**Model-checked only.** Liveness, which is beyond TLAPS here: `ExpiredRowsReclaimed`,
`AcceptedRunsSettle`, `FailedDayDoesNotStopTheRest`. And the two violations, which are counterexamples.
The bounds of the constants that the arithmetic of `MCIndicators` needs (prices on which every
division is exact) are a matter of the instance: the theorems hold with rounding.

## 6. What is not modelled

- **Market service and provider registry**: a map written once at start, a stub, and
  look-ups of one statement each, which nothing can come between.
- **HTTP plumbing, Firebase client and fixtures, `cmd/healthcheck`**: stateless
  wrappers, or calls of external services and operator tools around them.
- **In modelled parts**: signatures and the `env` claim of access tokens; the parsing of
  numbers, booleans and lists of the environment, TLS, and limits handed on to services;
  proxy, backups and monitoring; how the stored trades of a run are sliced into pages, and
  `int` overflow of page numbers there and in the OFFSET of the history; a strategy that
  leaves the registry while runs of it are stored, which makes the list of runs
  answer 500 (`ListFails` has the error, not that it stays); file formats, unzipping and
  which rows do not parse (a file is what is left of it); rows dated another day than their file; the
  provider without a target date, which `cmd/sync` never uses; an error while trades or
  chart are encoded for storage, which `backtests_mapper.go:90-99` swallows and would store an empty
  result (only NaN and infinity cannot be encoded, and `stats.go` guards its divisions); float rounding, NaN and display rounding in engine and
  indicators; EMA, which no evaluator calls.
- **In the model, judged by no property**: that a target goes before a stop on the same candle, and
  the price an exit is booked at (`CheckExitConditions` has both; `ExitsAtFirstChance` is about
  whether and when a rule ends a position).

## 7. Plan

The order is by what hurts most if wrong: credentials, then results, then the
data the results are computed from.

Done: 1. `OneTimeCredentials`, `AuthSessions`. 2. `RunLifecycle`, `BacktestRuns`.
3. `BacktestHistory`. 4. `RateLimiter`. 5. `MarketData`, `MarketSync`. 6. `Engine`.
7. `Indicators`. 8. `AccessTokens`. 9. `StrategyPages`. 10. `ServerConfig`, `Deployment`.
11. The proofs: every type invariant, safety property, action property and refinement.

Next, in this order:

- `Engine` behind `Indicators`: signals by an evaluator instead of any signals, composed so
  that both sets of theorems apply (`Emitted` gives ascending signals, which is all that
  `Engine!StreamsOK` asks).
- `ServerConfig`: which of the checks at start make which part of `NamingAssumption`
  unnecessary.
- The paging of stored trades with its `int` arithmetic, if rows of earlier schema versions are
  modelled with it.
