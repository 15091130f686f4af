# Goldie in TLA+

Goldie is a read-only trading research platform.  A collector next to a MetaTrader
terminal sends quotes and M1 candles; the platform stores them, lets *bots* raise
signals with versioned strategy configurations, and follows every BUY or SELL
signal as a *theoretical* ("shadow") position until a quote closes it.  Backtests
and parameter optimizations run asynchronously in worker processes.  Nothing is
ever traded.

This directory models the parts of it whose correctness depends on the order in
which concurrent transactions, messages, crashes and users' requests meet, and the
replay engine with its strategies, where one wrong incremental update stays for the
rest of a run: TLA+ modules, TLC configurations that check them on small instances,
and proofs TLAPS checks for all instances.

Paths below are relative to the repository; `api/` abbreviates
`src/apps/api/src/goldie_api/`, `collector/` abbreviates
`src/apps/market-data-collector/src/goldie_collector/`, `domain/` abbreviates
`src/packages/trading-domain/src/goldie_domain/`.

## 1. Inventory

```
 MT5 terminal -> collector --HTTP--------------------> API ----+
                    |   \--Redis stream--> ingestion worker ---+--> PostgreSQL
                    |                                          |      ^    ^
                    +--- polls commands / configuration <------+      |    |
 browser -- REST, websocket --------------------------> API    backtest   optimization
                                                               worker     worker
```

Everything meets in PostgreSQL.  The API serves each request in a thread with a
session of its own; the ingestion worker calls the same two functions
(`process_quote_batch`, `process_candle_batch`) on messages of a Redis stream;
the workers claim jobs from tables.  Redis channels only wake sleepers.

| Component | State it keeps | Operations | What is hard | Correct means |
|---|---|---|---|---|
| Quotes and candles (`api/ingestion.py`) | `market_ticks`, `candles`, `ingestion_events` | store a batch, evaluate open outcomes, raise signals | batches of one feed overlap; events arrive twice; instances loaded before a loop are used after it | each event is applied once; no tick is missed; one signal per candle and run |
| Shadow outcomes (`api/shadow.py`, `domain/shadow.py`) | `signals`, `signal_outcomes` | create an outcome, evaluate it, close it | the check for an open position and the insert; two sessions write back one row; boundaries of gap, barriers and timeout; feed pauses | one open position per bot; an open one is within barriers and deadline; a resolved one is final; every one is resolved |
| Configuration lifecycle (`api/services.py`, `api/routers/bots.py`, `strategies.py`) | `bots`, `config_versions`, `runs` | create, edit, apply, activate, change mode, archive | activations and edits overlap each other and candle batches; archiving races signals | one active version and run; a signal belongs to its run's version; an archived bot is inert |
| Collector control plane (`api/routers/collector.py`, `feeds.py`) | `collector_instances`, `collector_commands`, `collector_instrument_configurations`, `market_feeds` | create, poll, update and delete commands; register; pause and resume; enable and disable an instrument; delete a feed | commands are delivered at least once, carried out late and applied when reported; heartbeats commit after a pause they did not see | the last command decides; a pause lasts until a resume succeeds; every command ends; what is wanted is collected |
| Collector (`collector/__main__.py`, `provider.py`) | workers per instrument, pause flags, catch-up cursor | reconcile, catch up, backfill, handle commands | failures between commands, quiet markets | every closed candle is sent; workers match the feed's state |
| Collector client (`collector/client.py`) | buffer of quotes | buffer, flush, publish to the stream or send over HTTP | the stream fails after taking a message | nothing acknowledged is lost, nothing is applied twice |
| Ingestion worker (`goldie_ingestion_worker/__main__.py`) | pending entries of a consumer group | consume, acknowledge, dead-letter, reclaim | crash between commit and acknowledgement; slow message reclaimed | every message is applied or dead-lettered, and applied once |
| Backtest jobs (`api/backtests.py`, `routers/backtests.py`, `goldie_worker`) | `backtest_experiments`, `backtest_trades` | create, claim, execute, report, cancel, restart | crash of a worker; cancel races claim and completion; several workers | every job ends, once, with one execution's trades or none |
| Optimization jobs (`api/optimizations.py`, `routers/optimizations.py`, `goldie_optuna_worker`) | `optimization_runs`, `optimization_trials` | the same, trials committed on the way | the same, and partial results | trials of one execution only; the best candidate and the progress agree with the stored trials at every commit; a request seen in time is honoured |
| Backtest engine (`domain/backtest.py`) | a pending signal, an open position, the balance, the trades | replay a candle, fill, evaluate, close at a gap or at the end, report | four stages of one loop body set and clear the same variables; gaps; both barriers in one candle; one-pass figures | one position at a time, filled at the next open, never held over a gap or past its duration, closed for the reason its excursions give, sized by the equity it meets; the report agrees with the trades |
| Strategies, indicators (`domain/strategies/*.py`, `rolling.py`, `indicators.py`) | rolling sums, deques and EMAs from candle to candle | decide, once from a window and once incrementally | an update that is off by one stays; state that is older than the window | the fast evaluator answers what `evaluate()` answers |
| Realtime relay (`api/realtime.py`, `websocket.py`) | subscriptions | forward notifications | lossy by design | best effort |
| Analysis (`optimization_analysis.py`, `optimization_diagnostics.py`, `routers/analytics.py`) | none | reports | numerical | read-only |
| Auth, status, overview (`security.py`, `routers/auth.py`, `status.py`) | tokens, heartbeats | request/response | -- | single-row |
| Web (`src/apps/web`) | client state | presentation | -- | all changes go through the API |

`PROJECT.json` lists the same components with what is modelled of each, and every
hazard at its line with the properties that would notice it.

## 2. Modules

| Module | What it is |
|---|---|
| `ShadowTrading` | the shadow-trading core: ingestion of quotes and candles, signals, outcomes, activation, editing, archiving, pausing, as overlapping database transactions |
| `PositionSlots` | the abstract specification of positions: one slot per bot, taken once by each position and left once |
| `BacktestJobs` | the rows, workers and cancel requests of asynchronous backtests |
| `OptimizationJobs` | the same for parameter optimizations, whose trials are committed on the way: search, validation, best candidate |
| `CandleDelivery` | how closed candles get from the provider to the database: catch-up cursor, stream, HTTP fallback, consumers, idempotence, pauses, backfills |
| `CollectorControl` | commands, instruments and feeds in the database; the supervisor that polls, reconciles, carries out and reports |
| `BacktestEngine` | the replay loop with arbitrary decisions: the abstract specification of a backtest |
| `BacktestSummary` | the report of a run in one pass, and what its figures mean |
| `Indicators` | the indicators computed from a window of candles |
| `RollingIndicators` | the structures that compute them incrementally |
| `Strategies` | the thirteen strategies as `evaluate()` writes them, over the indicators of a window |
| `FastEvaluators` | their fast forms, from their own text: the rolling structures of each and its conditions once more |
| `BacktestReplay` | composes the five: a run of one strategy, with the reference evaluation beside the fast one |
| `MCShadowTrading`, `MCBacktestJobs`, `MCOptimizationJobs`, `MCCandleDelivery`, `MCCollectorControl`, `MCBacktestReplay` | the instances for TLC: symmetry, candles and parameters |
| `ShadowTrading_proofs`, `ShadowSequential_proofs`, `BacktestJobs_proofs`, `OptimizationJobs_proofs`, `CandleDelivery_proofs`, `CollectorControl_proofs`, `BacktestReplay_proofs` (engine, accounts, report), `RollingIndicators_proofs` (evaluators) | the theorems and their proofs |

Where a definition is followed or preceded by one that says "Mutant" or "Mutated",
that is the form a plausible bug would give it; nothing uses it, and with it in place
of the definition TLC finds the property `PROJECT.json` names violated.

`ShadowTrading` begins where `CandleDelivery` ends: a `Claim` and `Commit` of the
latter are one candle transaction, which the former refines into its reads, row
locks and writes.  The two are checked separately.  `CandleDelivery` needs of the
transaction only that it is atomic and that two claims of one key exclude each
other; `ShadowTrading` needs of delivery only that batches arrive in any order,
more than once and in any size.  `CollectorControl` decides when the worker that
`CandleDelivery` has exists; the latter stops and starts it arbitrarily.
`BacktestJobs` takes an execution of `BacktestReplay` as one step.

### 2.1 `ShadowTrading`

State: the tables (`tick`, `candles`, `feed`, `bot`, `config`, `runs`,
`outcomes`; an element of `outcomes[b]` is a signal together with its outcome
row) and, for every session, the local state of its transaction: what it does
(`op`), the row locks it holds on bots (`lock`), the rows it has inserted but not
committed (`inserted`), the ORM instances it has loaded with the values at
loading time and now (`loaded`), and the rest (`work`, `todo`).

| Actions | Code |
|---|---|
| `QuoteBegin`, `QuoteEvaluate` (one pass of the loop), `QuoteCommit` | `ingest_quote_batch`, `evaluate_open_outcome`, `evaluate_shadow_position`, `process_quote_batch` |
| `CandleBegin`, `CandleSignal`, `CandleOutcome` (one row each), `CandleCommit` | `ingest_candle_batch`, `evaluate_signal_from_context`, `create_signal_outcome`, `process_candle_batch` |
| `ActivateBegin`, `EditBegin`, `EditFlush`, `Supersede`, `ActivateCommit` | `activate_config`; `apply_strategy`, `update_overrides` and the mode change of `update_bot`; `activate_config_version` with its autoflush and commit |
| `ArchiveBegin`, `ArchiveCommit` | `archive_bot` |
| `PauseFeed`, `ResumeFeed` | `pause_feed`, `resume_feed` and their callers |
| `Rollback` | an exception or a deadlock victim, at any point of a transaction |

What the database and the ORM contribute is in the model and marked external in
the map: conflicts of row locks (foreign keys share a row, UPDATE and SELECT FOR
UPDATE take it), `ON CONFLICT DO NOTHING` waiting for another inserter, and the
unit of work that writes exactly the columns that changed (`Flush`).  The last
one is essential: with whole rows written back, a stale copy would reopen a position
and the refinement would fail.

Abstractions: prices are points and barriers are distances in points; volume and
P&L are left out, except that sizing may fail; a strategy decides anything of
`Decisions`; one feed.  The reads a transaction makes before its first write are
taken at one moment, although under READ COMMITTED each statement has its own;
they are split where something is read again later (`EditBegin`/`EditFlush`,
`Supersede`).  Two requests are coarser than the code: archiving loads the bot and
updates it in one step (the code loads it first, so that an activation in between
could leave the archived bot's `state` as it is; nothing reads the state of an archived
bot), and `PauseFeed` and `ResumeFeed` read and write in one step (the code reads
`paused_at` without a lock and writes at commit, so that two reports of one RESUME that
overlap could credit the pause twice).  `update_profile`, which edits all bots of a profile in one
transaction, is a sequence of edits; a signal always finds an instrument
specification (`MISSING_SYMBOL_SPEC` cannot happen on this path, the collector
registers the instrument before it sends candles).

### 2.2 `BacktestJobs`

State: `experiment`, `run` and `trades` are the rows; `worker` is where the loop
of each process is, with what its execution has loaded; `cancel` is what the
request of each user has loaded.  `Start` is `reset_interrupted_backtests`,
`Claim` is `claim_next_backtest`, `ExecuteBegin` to `Fail` are `execute_backtest`
with `BacktestProgressReporter`, `CancelRead` and `CancelCommit` are
`cancel_backtest`.  An execution is one long transaction: its deletes and inserts
show at `Succeed` only, while the cancel check of a progress report uses a short
session and sees what is committed.

`Spec` lets a worker start at any time.  `QuietSpec` lets it start only while no
worker has a RUNNING experiment (`Quiet`, `StartQuietly`): a single worker, whose start
finds nobody executing, or several that are started in a quiet moment.  Crashes and
restarts are in both.  What needs the second is checked and proved for it, and the run
`jobs_scale_out` shows what the first does.

`claim_next_backtest` has no LIMIT, so its `FOR UPDATE SKIP LOCKED` locks every
pending row until the commit; a second worker finds nothing meanwhile.  That is
what makes `Claim` one atomic action.

### 2.3 `CandleDelivery`

State: `market` is what the provider has quoted, `collector` the worker of the
feed with its cursor and the rest of the window it is sending, `events` the
batches in the order of sending, `stream` the state of each entry in the consumer
group, `job` what each consumer and API thread works on, and `applied`, `stored`,
`dead`, `dropped` what became of them.

| Actions | Code |
|---|---|
| `Register`, `Poll`, `Accepted`, `Refused`, `CollectorFails` | `InstrumentWorker._run`, `_run_forever`, `register_market_feed` |
| `Publish`, `Post` | `GoldieApiClient.candles`, `_send_batch` with the fallback to HTTP |
| `StopWorker`, `StartWorker` | `CollectorSupervisor.reconcile` |
| `Backfill` | `execute_backfill`, `run_backfill` |
| `Read`, `Reclaim`, `DeadLetter`, `Acknowledge` | `consume_stream`, `reclaim_pending`, `process_message` |
| `Known`, `Drop`, `Claim`, `Commit`, `Reject`, `Abandon` | `ingest_candle_batch`, `process_candle_batch`, and the exceptions around them |
| `PauseFeed`, `ResumeFeed` | `create_command`, `pause_feed`, `resume_feed` |

A failure can strike everywhere: XADD fails before or after it stored the entry,
a request times out while its thread goes on, a transaction is rolled back, a
process ends, an event is rejected.  Abstractions: `XREADGROUP` hands out entries
one at a time (a hundred at once would only hold more of them pending); an entry
may be reclaimed whenever it is pending, which covers consumers that are slow for
more than a minute; claim and insertion of the candles are one step; a backfill
sends its range as one event; the 30-day horizon is minute 0; a worker is stopped
between two windows (`stop` waits ten seconds for it).  Not modelled: the hourly
trim of the stream, the legacy stream name, quote batches (same path; a buffered
quote may be lost and need not be recovered).

### 2.4 `OptimizationJobs`

State: `optimization` (the row with progress, best candidate and summary), `run`,
`trials` (the committed ones), `worker` (what each process has made, what of it it
has committed, its best candidate and the one it has committed), `cancel`.

| Actions | Code |
|---|---|
| `Create`, `CancelRead`, `CancelCommit` | `create_optimization`, `cancel_optimization` |
| `Start`, `Claim` | `reset_interrupted_optimizations`, `claim_next_optimization` |
| `Begin`, `SearchTrial`, `Select`, `ValidationTrial` | `execute_optimization` with `_is_commit_checkpoint`, the updates of the best candidate, `_top_candidates` |
| `EndCancelled`, `Succeed`, `Fail`, `FailUnstored` | `_is_cancellation_checkpoint`, `_should_cancel`, `_terminal_summary_payload`, and the exception handlers |
| `Crash` | the process ends at any point |

A trial is its number, the search trial it validates, the rank of its score and its
execution; which parameters the sampler takes and what the backtest of them yields
is arbitrary.  `Save` writes the best candidate only if it differs from the one this
session has committed, as the unit of work does; `Free` is the unique constraint on
the number of a trial.

What the code does here and no property excludes: the summary of a failed
optimization counts trials that were rolled back with the failure.  A run in
CANCEL_REQUESTED whose worker crashes stays so, because the reset at the start only
looks for RUNNING (section 3, "Contradicted, without a run").  `SearchTrial` and
`ValidationTrial` look for a cancellation and make the trial in one step; a request
that commits during a trial counts as ahead of the next checkpoint.

### 2.5 `CollectorControl`

State: the rows `instrument`, `feed`, `globallyPaused`, `commands`; `collector`, the
supervisor, with what its last poll wanted collected, what it holds back by itself,
the workers it has, the commands of the poll that are left and its backfill threads;
`beat`, a heartbeat that was let in and not committed.

| Actions | Code |
|---|---|
| `CreateCommand`, `DeleteCommand` | `create_command` with `pause_feed`, `delete_command` |
| `Enable`, `Disable`, `DeleteFeed` | `create_instrument`, `update_instrument_settings`, `delete_feed` |
| `Start`, `Poll`, `PollLost` | `register_instance`, `poll_control` with `get_configuration`; the loop of `CollectorSupervisor.run` |
| `Reconcile`, `Handle`, `Report`, `ReportFails`, `Crash` | `CollectorSupervisor.run`, `reconcile`, `handle_command`, `execute_backfill`; `update_command` |
| `RegisterFeed`, `HeartbeatRead`, `HeartbeatCommit`, `BackfillEnd` | `register_market_feed`, `heartbeat`, `run_backfill` |

Consequences of the code that the properties leave room for, each for a reason the
code or a test gives:

* A PAUSE that was polled before a user cancelled it still holds the instrument
  back in the collector (`HeldBackIsPaused` excepts cancelled commands).
* A feed that is deleted while the supervisor holds its instrument back, and enabled
  again later, is not collected before a restart or a RESUME of every feed
  (`EnabledIsCollected` excepts it; `tests/test_api.py:467` expects the deletion to
  leave nothing behind in the database).
* A worker or backfill that is running registers a feed again after it was deleted.
* A report or poll that fails leaves the commands of that poll RUNNING until the
  collector is started again; they are then carried out after newer ones
  (`LastWordHolds`, `CommandsEnd` assume that none fails; `PausedUntilResumed` and
  `HeldBackIsPaused` do not).
* RESUME of one feed clears `globally_paused` (intended: `tests/test_api.py:1564`).

`CreateCommand` and `Report` are one step each; in the code they read commands and
feeds without a lock and write when they commit.  Heartbeats, which the properties turn
on, are split (`HeartbeatRead`, `HeartbeatCommit`).

One collector; several instruments are possible, one is checked and all are covered
by the proofs.  Left out: overrides of settings, the heartbeat of the instance,
deletion of an instrument configuration, read-only overviews.

### 2.6 `BacktestEngine`, `BacktestReplay` and what they use

`BacktestEngine` is `BacktestEngine.run` of `domain/backtest.py` with whatever an
evaluator answers: `Candle` is one pass of the loop (`AfterGap`, `AfterFill`,
`AfterEvaluation`, `AfterSignal` in the order of its body), `Finish` the end of the
data, `Cancel` a progress callback that raises.  Volumes, profits and the sanity
limits of a trade are in the model; an invalid result ends the run.

`BacktestReplay` feeds the engine with the decisions of a strategy.  `Indicators`
computes what `indicators.py` computes from a window; `RollingIndicators` has the
structures of `rolling.py` and of the two strategies that bring their own;
`Strategies` has the conditions of every strategy as `evaluate()` writes them, over what
the indicators say of the window, and `FastEvaluators` has them as the fast evaluator
writes them, over what its structures say; the code has two texts and so has the model.
`BacktestReplay` runs the structures (`bank`) and the reference's window side by side and
compares readings and decisions.

The two texts share what is one piece of code (`_decision` of `pine_bb_rsi_stoch.py`,
`required_candles`, the guards) and terms that are one line in both: a distance from a
band, an RSI against a level, the test whether a candle touches the zone of the EMAs, the
newest gap, the volume profile.  `basic_momentum` has no fast form; its second text is the
incremental evaluator the engine takes instead.  The Decimal evaluators that
`ema_rsi.py` and `pine_bb_rsi_stoch.py` have besides are not modelled: the engine prefers
the fast ones.

Prices are multiples of 324, so that every quotient of the periods in use is whole:
rounding of floats and decimals is not part of the comparison.  RSI and the bands
are compared as the pairs they are formed from.

What `BacktestReplay` assumes of its constants, for the proofs and in every run: the
strategies are those of `registry.py`; their periods are positive (every period has a
`ge` of at least one in its parameter model); a candle's low is not above its high
(`api/ingestion.py:223` refuses others) and its volume is a natural number; where bands are computed every close is a
multiple of the Bollinger period, which any finite set of prices is in a unit small
enough; `None` is no reading.

What the code does and the instances make visible: the rolling structures are not
reset at a gap (neither is the window of the reference, so they agree); the fill
timeout can never be what drops a signal, since a pending signal is filled or
dropped at the next candle (`FilledAtNextOpen`).  `FastAgreesWithReplay` demands
equal decisions of every strategy and fails for two (see the findings);
`FastAgreesWithinWindow` is what holds: it leaves out `ema_atr_pullback_continuation`, and
`fvg_ma_volume_profile` where its scan for gaps (`fvg_lookback + 3` candles) is longer
than the window.  `backtest_replay` gives the latter lookbacks as the defaults do, with
the volume profile the longest; `backtest_equal_answers` gives it the others.

## 3. Runs

All passing runs are exhaustive.  "Bound" lists what keeps them finite.

| Run | Shows | Bound, and why it is enough |
|---|---|---|
| `shadow_concurrent` | `Inv`, `OneOpenPerBot`, `OpenWithinLimits`, `SignalMatchesRun`, `ImplementsSlots` with two overlapping transactions of any kind | two sessions, two candles, two versions, clock up to 1; prices at both barriers and a deadline of 1, so that every close reason but the gap occurs. Every hazard is a race of two transactions; the safety theorems cover more |
| `shadow_sequential` | what holds when transactions do not overlap: `SignalOncePerCandle`, `EvaluatedUpToNewestTick`, `PausedWithinLife`, `LifecycleIsConsistent`, `ResolvedIsFinal` | one session; quotes up to one unit late, pauses, archiving and applied strategies in any order, a bot that starts without a version, BUY and SELL with a spread |
| `shadow_resolution` | `OpenWithinLimits` and `GapCloses` with pauses and resumptions around a position; liveness: `PositionsResolve` | clock up to 4 with positions of at most 3, gaps of more than 1, quotes one unit late: a pause before, in and after a gap, quotes exactly at a barrier and at the shifted deadline; archiving allowed, no activation; one candle and one quote per batch (the theorems `GapsClose` and `NeverPastLimits` cover more) |
| `jobs_workers` | `ExecutedAlone`, `RunAgrees`, `ResultsOnce`, `CancelIsHonoured`, `JobsTerminate` for two workers | two experiments, one worker that runs and one that starts, two crashes (so that an experiment is executed three times), two users whose requests overlap each other, the claim, the restart and the end; a worker starts while nothing executes (`QuietLiveSpec`) |
| `optimization_trials` | `CommitsAgree`, `SucceededIsComplete`, `RunsTerminate`, `CancelIsHonoured` for one worker | one run of four trials, a commit and a cancel checkpoint every two (so that both lie within search and validation), two candidates, two scores and failure (so that trials tie and lose), one crash, one failure that is not stored, one user |
| `candles_delivery` | `AppliedOnce`, `AckedIsSettled`, `NothingSkipped`, `StreamDrains`, `CandlesArrive` | two consumers and one thread, both transports, windows of two minutes sent in batches of one (so that a window is sent in part), one failure, one pause or backfill, two minutes with gaps of one |
| `control_commands` | `LastWordHolds`, `HeldBackIsPaused`, `PausedUntilResumed`, `CommandsEnd`, `EnabledIsCollected` | one instrument, two commands of every kind with both targets, polls of two (so that one poll brings a PAUSE and a RESUME), one crash, one deletion; failed requests are not bounded. Every order of two commands occurs; more commands and instruments are covered by the theorems |
| `backtest_replay` | `OneAtATime`, `FilledAtNextOpen`, `NeverHeldBlind`, `ExitExplained`, `SizedByEquity`, `SummaryAgrees`, `IndicatorsAgree`, `FastAgreesWithinWindow` for all thirteen strategies | `basic_momentum` explores the engine: every path of six candles out of a calm one, one through each barrier and one through both, with gaps of a minute. The other strategies: every path of two candles more than they need (so that their windows slide twice) out of a level, a rising, a falling one and one outside the session |

`jobs_*`, `optimization_*`, `candles_*`, `control_*` and `backtest_*` do not check
for deadlock: the systems stop when all jobs have ended, when everything is
delivered and the bounds are used up, or when the data of a backtest end.

Where a property is only checked in one of the settings, the other one breaks it,
and the code is the reason:

* `LifecycleIsConsistent`: two activations that overlap read the
  same previous version and both write; no lock or constraint prevents it.
* `ResolvedIsFinal`: a quote batch and archiving, or two quote batches, that have
  loaded the same open row write it one after the other; its columns change again
  (it stays resolved: `ImplementsSlots`).
* `FastAgreesWithReplay` is `FastAgreesWithinWindow` without its two conditions
  (`ema_atr_pullback_continuation`, and a scan for gaps that reaches behind the window);
  the finding `backtest_equal_answers` is what each leaves out.
* `GapCloses`: of two quote batches that have loaded the same row the older one may
  write last and moves the last evaluation back, so that a next step seems a gap.
* `ExecutedAlone`, `RunAgrees` and `ResultsOnce`, `CommitsAgree` and `OneExecution`, with
  a worker that starts while another one executes: findings `jobs_scale_out` and
  `optimization_scale_out`.
* `NothingSkipped`, `CandlesArrive` are conditional on no manual backfill.
* `LastWordHolds`, `CommandsEnd` are conditional on no failed request of the
  collector, `RunsTerminate` on no cancel request under way and every failure
  being stored.

### Findings

Each is a run that TLC must find violated: a line of the repository says one thing
and the code does another.  `PROJECT.json` quotes the lines.

| Run | Disagreement |
|---|---|
| `shadow_closed_twice` (`ClosedIsNotEvaluated`) | a quote that follows the closing one in its batch evaluates the closed outcome again: `evaluate_open_outcome` looks at the status only when it loads the row itself |
| `optimization_scale_out` (`OneExecution`) | a worker that starts beside another one queues again what that one executes, and the trials of both are stored in one optimization. `09_RAILWAY_HOSTED_SHADOW.md` promises that these workers scale horizontally because claims are atomic |
| `backtest_equal_answers` (`FastAgreesWithReplay`) | the runbook for strategies asks that `evaluate()` and the fast evaluator answer alike. The fast evaluator of `ema_atr_pullback_continuation` remembers a touch of the EMA zone that `evaluate()` cannot see in its window (the parity test leaves this strategy out): the counterexample TLC prints. The fast evaluator of `fvg_ma_volume_profile` scans `fvg_lookback + 3` candles or more, `evaluate()` sees the required ones, `fvg_lookback + 2` or more: where that is the longest lookback, the fast one answers BUY from a gap the reference does not see. With `Strategies <- GapScanOnly` in the cfg TLC prints that one. The defaults of this strategy agree; `fvg_lookback` 60 with the other defaults does not |
| `jobs_scale_out` (`ExecutedAlone`) | the same for backtest workers: one that starts takes what another one is executing and replaces its results.  `09_RAILWAY_HOSTED_SHADOW.md:225` promises scaling here too |

Contradicted, without a run: the properties make room for these behaviours, which
a line of the repository excludes.

* A cancel request on a job whose worker dies leaves the job in CANCEL_REQUESTED for
  ever: the reset at a start looks for RUNNING, a claim for PENDING.
  `09_RAILWAY_HOSTED_SHADOW.md:195` and `:196` say that backtests and optimizations reach
  a terminal state.  `JobsTerminate` excepts exactly this (`Abandoned`), `RunsTerminate`
  assumes that nobody cancels.
* The pauses a position has accumulated are taken off every later gap too, so that it
  survives a gap behind a pause; `12_SHADOW_OUTCOME_EVALUATION.md:23` says that "a data gap
  longer than `stale_after_seconds` closes".  `GapCloses` allows for them (`LongestGap`).
* Two activations that overlap supersede the same version and leave both of theirs
  ACTIVE; `03_CONFIGURATION_CONTRACT.md:11` says that "activation supersedes the previous
  active version".  `LifecycleIsConsistent` is checked and proved without overlap.

Known behaviours of the code that the models show and no line of the repository
contradicts; the properties are stated so as to leave room for them:

* Activating a version supersedes the run of an open position.  No quote evaluates
  that position any more, and it blocks the bot's later signals.
* A bot that is archived while a candle batch has already joined it may keep a
  position that is never resolved, and a change of mode that loaded the bot before an
  activation may point it back at the superseded version.
* A cancel request that commits after the end of a backtest overwrites the terminal
  status, for ever.
* After a manual backfill of later minutes, a worker that starts again begins behind
  them and never fetches the minutes before.
* Those of the control plane and of optimizations listed in 2.4 and 2.5.

## 4. Fairness

* `ShadowTrading`: the collector samples the current quote again and again and a
  failure to store it does not last for ever (strong fairness of `QuoteBegin`,
  of a pass with a fresh quote and of its commit, because other transactions and
  rollbacks disable them in between); transactions end.  Users owe nothing:
  `PositionsResolve` speaks of the behaviours in which they leave the feed running in
  the end (`<>[]~Paused`), since a feed that stays paused resolves nothing.
* `BacktestJobs`: the platform restarts a worker that has ended
  (`railway/worker.toml`, restart policy ON_FAILURE) and it keeps polling;
  executions and requests end; crashes are bounded by `MaxCrashes`.  Nobody owes
  a cancel request.  `QuietLiveSpec` is the same with starts in quiet moments: weak
  fairness of `StartQuietly`, so that a worker that never meets one need not start.
* `OptimizationJobs`: the same; an execution goes on (weak fairness of one disjunction
  of its steps, so that it may end by a failure at any point), crashes and failures
  that cannot be stored are bounded.  Nobody owes a cancel request.
* `CollectorControl`: the platform restarts the collector, its loop goes on
  whatever a request raises (`Poll`, `Reconcile`, `Handle`, and `Report` or
  `ReportFails`), a backfill ends, a worker registers its feed.  Users and heartbeats owe
  nothing.
* `BacktestReplay` has no liveness property: a run is a loop over finite data.
* `CandleDelivery`: the clock, the collector's loop, the consumers' loops
  (including the reclaim every minute) go on, transactions end, a paused feed is
  resumed in the end; failures are bounded by `MaxFailures`.  Nobody owes
  a pause, a backfill or a failure.

`CandlesArrive` needs `MaxQuiet < Window`: the catch-up cursor only advances when
its window of 5000 minutes has candles.  A market quiet for longer, or a symbol
listed recently when the worker starts at the 30-day horizon, holds it there.

## 5. Proofs

TLAPS proves, for all values of the constants that satisfy the named assumption
of each module:

| Theorem | Statement | From |
|---|---|---|
| `TypeCorrect`, `Invariance` | `Spec => []TypeOK`, `Spec => []Inv` of `ShadowTrading` | `ConstantsAssumption` |
| `OneOpenPosition` | `Spec => []OneOpenPerBot` | the same |
| `Refinement` | `Spec => ImplementsSlots` | the same |
| `SignalsMatchRuns`, `CreditWithinLife`, `NeverPastLimits` | `Spec => []SignalMatchesRun`, `Spec => []PausedWithinLife`, `Spec => []OpenWithinLimits`, for any number of sessions | the same |
| `ResolvedForGood`, `LifecycleSound`, `OneSignalPerCandle`, `NoQuoteMissed` | `Spec => ResolvedIsFinal`, `Spec => []LifecycleIsConsistent`, `Spec => []SignalOncePerCandle`, `Spec => []EvaluatedUpToNewestTick` | the same and `OneSession`: transactions do not overlap |
| `GapsClose` | `Spec => GapCloses`, with any pauses and batches of any size | the same and `OneSession` |
| `ClaimedOnce`, `EndsAgree` | `QuietSpec => []ExecutedAlone`, `QuietSpec => []RunAgrees` | `JobsAssumption`: any number of workers, experiments, crashes, restarts and cancel requests |
| `StoredOnce` | `QuietSpec => []ResultsOnce` | the same |
| `SoleWorkerAgrees`, `SoleWorkerStoresOnce` | `Spec => []RunAgrees`, `Spec => []ResultsOnce` | the same with one worker, without a condition on its starts |
| `DeliveryInvariance`, `AppliedAtMostOnce`, `AcknowledgedIsSettled` | `Spec => []Inv`, `[]AppliedOnce`, `[]AckedIsSettled` of `CandleDelivery` | `DeliveryAssumption` |
| `WorkerLeavesNoHole` | `Spec => []NothingSkipped` of `CandleDelivery` | the same: any windows, batch sizes, quiet markets, consumers, pauses and failures |
| `TypeCorrect` (two) | `Spec => []TypeOK` of `OptimizationJobs` and of `CollectorControl` | `OptimizationAssumption`, `ControlAssumption` |
| `CommitsAgreed`, `OneExecutionStored` | `Spec => []CommitsAgree`, `Spec => []OneExecution` | `OptimizationAssumption`, one worker; any number of runs, trials, users, crashes and failures |
| `SucceededComplete` | `Spec => []SucceededIsComplete` | the same |
| `PauseLasts` | `Spec => PausedUntilResumed` | `ControlAssumption` |
| `HeldBack_IsPaused`, `LastWord` | `Spec => []HeldBackIsPaused`, `Spec => []LastWordHolds` | `ControlAssumption` |
| `EngineOneAtATime`, `EngineFilledAtNextOpen`, `EngineNeverHeldBlind`, `EngineExitExplained` | `EngineSpec => []OneAtATime`, ... | the four assumptions of `BacktestEngine`: any candles, decisions, costs and barriers |
| `ReplayIsEngine` | `Spec => EngineSpec` of `BacktestReplay` | the same and `InputAssumption`: any strategies and parameters |
| `ReplaySizedByEquity`, `ReplaySummaryAgrees` | `Spec => []SizedByEquity`, `Spec => []SummaryAgrees` | the same |
| `ReplayRollingAgrees` | `Spec => []RollingAgrees`: all structures but the exponential averages, in every strategy | all assumptions of `BacktestReplay` |
| `ReplayIndicatorsAgree` | `Spec => []IndicatorsAgree` | the same and `WithoutEma`: the strategies are among the six that read no exponential average |
| `ReplayFastAgrees` | `Spec => []FastAgreesWithinWindow` | the same: for those six, structures and both texts decide alike on every candle |

*One open position.*  `OneOpenPerBot` is not inductive: a candle batch may hold an
open row it has not committed.  `Inv` adds what the code relies on: locks held on a
bot do not conflict; an uncommitted open row is the only one of its bot, and its
session holds the bot FOR UPDATE (so no other session passes the check before the
commit); a row written back is resolved or keeps its status (so no write-back
opens one).  The proof has a lemma per action for the types and one for the
positions.  The refinement follows from the same invariant: a commit of a candle
batch takes slots that are free, any other write leaves or keeps them.

*What copies may do.*  The next three theorems hold for overlapping transactions, so
their invariants say what is known of a copy that may be stale.  `RowsMatch`: the
rows a candle batch has read and the signals it has inserted name runs of the bot with
the version they ran, because runs are only ever appended and keep their version.
`Lives`: a position and the pause it is credited with end by the moment up to which
pauses have been credited (`Credited`: the clock, or the beginning of the pause that
goes on), and so does the tick at which a batch under way opens positions; a resume adds
exactly what lies between.  `Limits`: a copy was loaded from an open row that still has
the same opening and at least its pauses, and the copy is itself within its limits;
so a write-back that takes some columns from the row and some from the copy stays
within them.

*Without overlap.*  The four theorems for one session need to know that a copy is not
stale.  `Fresh`: a row the session has loaded is an open one that nobody has evaluated
since, and an archiving session has loaded every open row of its bot; so a write-back
changes open rows only.  `Archived`: a candle batch under way has nothing of an
archived bot, neither signals nor rows to evaluate.  `Activations`: what a request has
read of its bot, of the versions and, after the autoflush, of the active runs is still
so; hence what it supersedes is all there is.  `Distinct`: the rows a candle batch has
yet to evaluate are of different runs, none of which has a signal at the newest candle.
`Current`: an open position of an active run has seen the newest tick, or, while a
quote batch is under way, its copy has, and also every quote of the batch so far;
a position that a candle batch opens starts at the newest tick.  `Gaps`: while a
position that a quote batch has loaded is open, each quote of the batch so far has
moved its last evaluation on by no more than the gap allowed and the pauses it is
credited with (`Spanned`); so what the commit writes cannot exceed `LongestGap`, which
`GapCloses` says.  With two sessions each of these is false, and so are the
properties (section 3).

*Backtests.*  What a worker executes is never pending, so that nobody claims it once
more, and has not succeeded, so that the status written back differs from the one loaded
and is indeed written; hence run and experiment change together (`Inv` of
`BacktestJobs`).  The only step that can break this is a start: it queues every RUNNING
experiment again, whoever executes it.  `Quiet` says that nobody does, and is used in
that one step.  A single worker starts when it is down and executes nothing, so for it
every start is quiet (`SoleIsQuiet`) and the theorems hold of `Spec`.  What a worker
executes has no trades, whatever status a cancel request has given it meanwhile, and
neither has what waits or failed (`OnceInv`): a crash leaves no trades behind, and only
the one commit that stores all of them ends the execution with any.  A cancel request
that comes late only changes a status from which nobody claims.

*Delivery.*  A claimed event has not been applied and nobody else has claimed it:
`ON CONFLICT DO NOTHING` waits for the other claim, and the event log is read
before.  A commit thus applies for the first time.  A consumer reaches a state in
which it may acknowledge only by finding the event applied, applying it, dropping it
or moving it to the dead letters, and none of these is ever undone; so what is
acknowledged has been handled.

*No hole.*  `NoHoleBehindCursor` speaks of the cursor only and is not inductive: a
worker that starts again takes its cursor from the newest stored candle.  `Records`
adds that what was applied is stored and that a success means applied or dropped;
`InOrder` that candles reach the database from the oldest on: before every candle of
an event all are accounted for or in the same event, before every stored candle all
are accounted for, and while a window is being sent all before its end are, or are
still to be sent (`Covered`).  The oldest part of a window is sent first
(`BatchIsPrefix`), and an event is stored as a whole.  What accounts for a candle
is lost only when an entry is acknowledged, and then the event was handled
(`AckedIsSettled`).  A candle that appears behind the cursor lies before a
resumption, which gives it up (`Settles`).  A manual backfill may send a later range
first: it breaks `InOrder`, and without the condition the property fails.

*Optimizations.*  `CommitsAgree` speaks of the database and needs what the process
has in memory.  `SoleInv` adds: the trials made have the first numbers and carry the
attempt of the process; its best candidate leads the search, and once a validation
has succeeded the validations (`Leads`: highest score, then lowest number); what it
has committed, `saved` and `stored`, is what the row and the trials say (`Stored`),
so that a write which is skipped because nothing changed leaves the right value.
`Begin` establishes this for a process that has just claimed (`Fresh`), `MakeAgrees`
keeps it for a trial and its optional commit, `CommitAgrees` for every commit.  With
a second worker that starts, `Stored` fails, and so does the property.
`SucceededIsComplete` needs in addition that what is executed has not succeeded
(`Unfinished`), and that a process that validates has chosen the best of all its search
trials and has validated no candidate twice (`Choosing`); validations then are as many
as candidates only if there is one of each.

*Control plane.*  `PausedUntilResumed` follows from the types alone: a step that
unblocks a feed is the report of a RESUME or a deletion, because a heartbeat writes
only a status and never the time of the pause.  `HeldBackIsPaused`
needs that what is still in the queue has not succeeded, and that a RESUME is
reported only when the supervisor has released what it is about (`HeldInv`).
`LastWordHolds` needs an order: without a failed request, what is older than a
command of the queue and open is in the queue too, what is RUNNING is in the queue,
and of the commands for one feed none succeeds while an earlier one is open
(`Orderly`; backfills end in threads of their own and are excepted).  Hence the
effects are applied in the order of creation, and the last one decides
(`LastWordInv`).

*Backtests, the engine.*  The loop body is four stages.  `Between` says what holds of
the book between two candles: trades are in order and each is explained, a pending
signal is dated by the last candle, a position is held since its opening without a
missing minute, for less than its duration, and has reached no barrier.  One lemma
per stage, over any book that is `BookOK`, leads back to `Between`.  A step of
`BacktestReplay` is a step of the engine with some decision, so the four properties
hold of every strategy.

*Backtests, the money.*  `Accounted`: the balance of a run is its equity, and every
trade, and the position it holds, risks what the equity before it allowed.  The report
is one pass over the trades, its meaning is stated on the equity curve; `Mean` relates
the totals after k trades to the curve up to k and is shown by induction over k.  That
induction needs no induction theorem: the least counterexample of a set of naturals
(`LeastOne`, `SetInduction`) also gives sums and folds over finite sets their meaning
(`FoldExists`).

*Backtests, the two evaluations.*  `Followed` says that one list h of candles explains
everything: the window is the newest of h, and every structure is what it is after h,
as a function of the whole of h (`MeanOf`, `RsiOf`, `BandsOf`, `StochasticIs`, ...).
Per structure one lemma (`...Follows`) takes it from h to h and a candle, and one
(`...Reads`) shows that its value is what the indicator computes from the newest
candles.  Running sums stay right because what leaves a full deque is what entered it;
a monotone deque holds every price no later one beats (`Deque`), so its front is the
extreme; Bollinger's variance by moments is the one by distances where the mean is
whole (`BandsAreExact`), which the assumed unit makes it.  That each strategy asks for
enough candles for each of its parts is one lemma by cases (`NeedsSuffice`).  Then the
two texts of each of the six strategies are shown to decide alike on equal readings:
word by word for four of them (`SimpleTexts`); where the fast one asks the conditions in another order and the profile only if the volume does not decide
(`ScanTexts`); and where it declines when a structure has no reading yet, because after
the candles it needs every structure has one (`AskedIsThere`, `PineTexts`).  Before there
are enough candles both evaluations decline.

Model-checked only: all liveness properties (TLAPS has no fairness reasoning here), and
the exponential averages: `IndicatorsAgree` and `FastAgreesWithinWindow` of the seven
strategies that read one.  An average over a window is a recursive function whose
incremental form carries a power of the factor and divides exactly only for prices in a
unit that depends on the periods; `backtest_replay` checks them in such a unit.

## 6. Not modelled, and the plan

Left out, by part:

* Numbers: rounding of floats and decimals; of a backtest the square-root impact
  and proportional fees, Sharpe and Sortino ratios, breakdowns by year and month (the
  same code as the one by direction with another key), counters of reasons.  Spread
  and staleness guards are constant within a run of the engine.
* Strategies: validation of parameters, diagnostic counters, recorded inputs.
* Reports: `optimization_analysis.py`, `optimization_diagnostics.py`, analytics and
  performance summaries read stored rows and change nothing.
* Delivery: the hourly trim of the stream (it looks at pending entries, not at those no
  consumer has read), the legacy stream name, quote batches (same path).
* Control plane: overrides of settings, several collector instances, heartbeats of
  the instance, deletion of an instrument configuration.
* Shadow trading: `assign_market_feed`, several feeds, money.
* The web interface, authentication, status and overviews; the realtime relay,
  which is lossy by design; the SQLite paths used in tests.

What would come next, in order of importance:

1. The exponential averages, with powers as a recursive function and their unit as an
   assumption, and with them the decisions of the other strategies.
2. Several feeds and `assign_market_feed` in `ShadowTrading`.
3. An abstract job (queued, executed by one worker, ended once) that `BacktestJobs`
   and `OptimizationJobs` with a sole worker implement.
4. The trim of the stream, with quiet consumers.
