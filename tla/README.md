# Verification of AI-Loop-Trade003

TLA+ models of the trading system in `src/`: an automatic trader of FX pairs, metals
and indices on a MetaTrader 5 terminal. Each model is checked by TLC on a small
instance, and the most important properties are proved with TLAPS for every value of
the constants. Paths below are relative to the repository; `agents/x.py` stands for
`src/src/agents/x.py`, and so on.

## 1. The system

A **resident loop** (`intelligence/resident.py`, started by `main.py loop`) polls the
terminal, stores the bars of all symbols, and runs the **pipeline** for a symbol when it
shows a bar not dealt with yet. The pipeline (`agents/meta_agent.py`, a sequence of
agents) assesses the regime, scans symbols and pairs for signals, sizes what is left of
them, has each leg reviewed by the risk agent and a cost gate, and executes it. The
parameters of the strategies come from a **Maker → Checker → Validator loop**
(`intelligence/loop.py`) that searches with a language model or a grid, backtests what is
proposed, and stores what it accepts in `STATE.md` files.

| Component | State | Operations | What makes it correct |
|---|---|---|---|
| Execution phase: `agents/execution_agent.py`, `agents/pair_execution.py`, job loop of `agents/meta_agent.py` | mutable plans, consecutive failures, circuit; positions at the broker | gate, execute with retries, pair recovery, close of an orphan | both legs of a pair or neither; no order past a guard; plans and positions agree |
| Resident loop: `intelligence/resident.py`, `process_lock.py` | lock, cached readiness, `last_processed_bar`, `last_review_date` | start, pretrade optimisation, sync, look at a bar, run, mark, weekly review | one engine; each bar once, across restarts; only adopted parameters trade; one review a day; no bar starves |
| Regime: `regime/five_state.py`, `regime/history.py`, `agents/regime_agent.py` | rows of `regime_history` | classify with hysteresis, confirm over rows, record | stress halts entries; no noise-driven change; no direct change of strategy; a clear regime is followed |
| Parameter stores: `intelligence/persistence.py` | `STATE.md`, `SKILL.md`, backups, temporary files, a reentrant lock | construct, read, update, append | calls are atomic; nobody sees a torn file; what is lost is backed up; no deadlock |
| Risk control: `agents/risk_agent.py`, `risk/drawdown.py`, `risk/audit.py` | peak equity and circuit breaker, in memory and in one row of a database; exposure | assess_account, review with caps, trigger and end of the circuit breaker | drawdown and cooldown stop entries across runs; caps hold; entries resume |
| Orchestration and signals: `agents/meta_agent.py`, `portfolio_agent.py`, strategy agents, `arbitration.py`, `decision_agent.py`, `portfolio/` | circuits of the agents, regimes, signals, jobs | analysis in a pool of threads, scan, arbitrations, optimizer, rotation, vote, sizing, gate of each leg | a pair is entered as a whole; one entry per symbol; orders share the room; review fails closed; every run ends |
| Settings: `core/config.py`, `main.py` | none | merge two files, convert, validate, ask for the stage, connect | real orders and real accounts only where the settings say so |
| Quality gates: `backtest/gate_registry.py` | a file of results | load, build, allow | a strategy that failed does not trade |
| Data: `agents/data_agent.py`, `data/`, `core/mt5_connector.py` | bar database, connected flag, rows of runs | fetch with retries, tip and gap, filter, store | no hole, no stale copy of a forming bar; a completed run is current; a series catches up |
| Parameter search: `intelligence/loop.py`, maker, checker, validator, clients | best candidate, stores | propose, check, validate, adopt, seed | nothing unvalidated is adopted; metrics belong to parameters |
| Backtest: `backtest/`, `features/`, `regime/scores.py`, `regime/series.py` | baseline and verdicts of a search | signals bar by bar, engine, walk-forward, Monte Carlo, gate, search of a matrix | no look-ahead; the result to beat belongs to the values it is recorded for; a search stops for a cause and at once |
| Everything else (operations, ML, research, reports, extensions, scripts) | none that trading depends on | arithmetic, I/O | not modelled, see section 8 |

**Interaction.** The resident loop builds a new `TradingSystem` for each bar, so every
agent, and with it the circuits and the risk agent's memory, lives for one
bar; what survives a bar is the `STATE.md` files, the bar, regime and risk databases, the
gate and rotation files, and the broker's positions. `main.py run`, `main.py optimize` and
`main.py review` are other processes on the same files; only `loop` and `review` take the
process lock. Within the pipeline the regimes of all symbols and of the market proxy are
assessed by a pool of threads.

**Hard behaviour.** Replies of the broker that are lost, partial or late under nested
retries; processes that die between an order and the record of it; files written by
several processes and readers; threads that interleave at each database access; agents that
raise or hang in the middle of a pair; a decision taken on what was read before (quotes,
exposure, readiness, a connection flag); bars that open between two fetches; counters that
count something else than their name says; settings that are absent, empty or foreign.
`PROJECT.json` lists each hazard at its line.

## 2. Modules

| Module | Models | Lines |
|---|---|---|
| `PairPromise` | what `pair_execution.py` promises: pairs are entered one by one, each ends with both legs or none | 62 |
| `PairExecution` | the execution phase of one run against an unreliable terminal | 602 |
| `SignalFlow` | one run of the pipeline, from the settings to the legs handed to execution | 754 |
| `Config` | the two settings files, `load_config`, the stage and the demo account | 344 |
| `PairHealth` | the relation of a pair, and the strength of an entry | 105 |
| `Degradation` | how far unsure regimes scale a run down | 71 |
| `Sizing`, `TradeCost` | the lots a signal asks for; the cost estimate and its verdict | 96, 53 |
| `GateRegistry` | the results of the quality gates as the live program reads them | 49 |
| `Ordering` | stable sorting and filtering of sequences, as Python does them | 20 |
| `ResidentLoop` | processes of the resident loop and the forced review, over bars, days, crashes | 469 |
| `FiveState`, `RegimeSwitch` | classification with hysteresis; concurrent assessments of one symbol | 85, 203 |
| `AtomicStore` | what callers of a parameter store rely on | 57 |
| `StateStore` | the two files of a store, step by step, under threads, processes and faults | 353 |
| `RiskControl` | risk agents over several runs of the pipeline | 379 |
| `IntelligenceLoop` | runs of the parameter search and the review that begins them, on one store | 376 |
| `Dialogue` | what the answers of two language models come to | 119 |
| `DataSync` | polls of the terminal into the bar store | 403 |
| `RegimeScores`, `Indicators` | scores and indicators over a history of integers | 81, 142 |
| `Backtest` | a backtest with its splits, rounds, checks and gate | 270 |
| `ParameterLoop` | the search of a parameter matrix on real backtests | 303 |
| `MC...` | the instances for TLC | |
| `...Proofs` | theorems with proofs, about eight of the modules | |

Each module is faithful to control (every guard, early return, error path and order of
steps) and abstracts data to what its properties distinguish. `map` in `PROJECT.json`
gives the source lines of each definition. `SignalFlow` composes `Config`, `PairHealth`,
`Degradation`, `Sizing`, `TradeCost` and `GateRegistry` by EXTENDS; `ParameterLoop`
composes `Backtest`, `RegimeScores` and `FiveState`; `IntelligenceLoop` uses `Dialogue`;
`PairExecution` and `StateStore` refine `PairPromise` and `AtomicStore`.

### PairExecution

`pc`, `j`, `k`, `round` are the place in `MetaAgent.run`, the job, the leg and the retry
of the missing leg. `plan[l]` is the *mutable* `ExecutionPlan` that `execute` returns, so a
later guard that zeroes its lots is seen by every later retry, as in Python. `attempt`,
`failures`, `circuit` are fields of `ExecutionAgent`. An order is named by its leg and
the number of `order_send` calls made for it, and so is the position it opens. The age of a quote is looked
at once, ahead of the retry loop, as in `execution_agent.py:107-114`; it may grow old in any pause after
that (`QuoteAges`), and the order leaves all the same. `refused` are the legs that were turned away for it.
Actions come in groups: `Gate` (risk and cost verdicts), `Execute` (the checks ahead of the
retry loop), `Attempt` (one pass of the loop up to `order_send`), `Reply` (what the
terminal answers), `Settle` (what single and pair do with the result), `Close` (the orphan
close), `Environment` (late fills, closed positions, the death of the process). Faults
are named and counted; each property says which faults it excludes. The refinement
`KeepsPromise` maps the positions of each pair to `PairPromise`.

### SignalFlow and its parts

`phase` is the place in `MetaAgent.run`. In the analysis `queue` and `flying` are the tasks
of the thread pool; each task ends, raises or outlasts its timeout in any order, and
`failures` and `opened` are the circuits of `_safe_call`. `signals` is the list the stages
hand on: the scan of symbols and pairs, `Arbitrate` (single against pair, conflicts of a
symbol), `Construct` (optimizer, then rotation with its limit), `Adapt`, `Vote`, `Decide`.
`jobs`, `ready` and `sent` are the partition into singles and pairs and the gate of each leg
(risk review, cost); `PairExecution` models what follows. What a strategy finds in the bars,
an assessment, a quote and a measurement of a spread are inputs.

`Config` represents a settings file as a tree of mappings and leaves of a kind (flag,
number, text, list, nothing), so that an absent, an empty and a missing entry differ as they
do in Python. `load_config` is modelled with all its sections and the entries that must be
numbers; `Loaded` has the files that load. Because settings never nest more than three
mappings, `_deep_merge` is three operators instead of a recursive one.

### ResidentLoop

Each process has a program counter and the fields of the engine; `lock` is the mutex or
flock, free again when its holder dies. `adopted`, `reviewed`, `mark` are the `STATE.md`
fields that matter; `stored` and `now` are the newest bars in the database and at the
broker, `forming` says whether the latter is still open. `Interrupt` and `Kill` end a
process at any step, `Launch` starts it anew with nothing but the disk. A parameter
search is one step that may adopt or not; a pipeline run is one step, in which the pipeline assesses the
regime of its own timeframe: the `strategy` it trades need not be the one that the gate has let the bar
through for. One `update_state` is one step, which `StateStore` justifies within a process.

### FiveState and RegimeSwitch

An assessment is cut at its database accesses (`last_confirmed_label`, the two reads of
`apply_confirmation`, the insert), because every access opens a connection of its own and
others get in between, and at the reading of the clock ahead of the insert (`history.py:186`). Rows are
read as the queries read them, by the whole second that was noted: a row that arrives late counts as an older one,
and within a second the order is that of insertion. The clock is assumed to run forward. Scores are inputs; the thresholds are constants in hundredths with
the orderings that `config/settings.yaml` satisfies as an assumption.

### StateStore

A document maps fields to the number of the call that set them. A call is cut at the
lock, the existence check, the read, the backup, the opening of the temporary file, the
write and each attempt of `os.replace`. Files behave as on Windows, where the program
runs: an open file can be truncated by another writer but not renamed. `Homes` lets
threads belong to one process or to several. Two writers that truncate and write the same
temporary file leave the last writer's document or a torn one. A store has fewer than 200
lessons, and a second construction of the same store only takes the lock.

### RiskControl

An agent is built from the row of `risk_state` and gone at the end of its run; `mem` and
`disk` are the row as it knows it and as saved. Each leg is assessed (`Assess`,
`Circuit`/`Trigger`) and reviewed (`Approve`, `Reject`); a pair's second leg is reviewed
before its first is executed. Exposure is counted in weights (100 times money) against
percentages of the equity, so that all comparisons are exact. The volatility, regime and
drawdown scalings leave *some* part of the base lots. Left out: the clipping of an exposure
at 100 %, `volume_max`, and rounding. The two reads of the account within `review` are one.
As in the code, total exposure is the margin in use where the terminal reports one, the
first cap that is exceeded decides alone, and the end of a cooldown is not saved.

### IntelligenceLoop and Dialogue

A run of `IntelligenceLoop.run` on one store, step by step: read, baseline, one approved
candidate or one cell of the grid at a time, persist. `best`, `base`, `metrics` are the local
variables of `_run_llm` and `run_grid_search`; `disk` has the fields of `STATE.md` a run writes.
Params and metrics are merged into `STATE.md` key by key, but each write names every key, so they are
replaced. A backtest is a function of parameters and data that is made up when first asked for:
`measured` remembers it until new bars arrive. The result of a backtest has its walk-forward
Sharpe and drawdown as numbers, because they are compared with those of another; what is only
compared with a constant (hard stops, Tier B, the gate) is a Boolean each. `Dialogue` says which
candidates reach the Validator: calls are repeated, an empty answer is given up, a cut one is
repaired and may name another allowed value, and a text for a number raises. Runs that overlap
(`main.py optimize` beside the resident loop) and runs that were given defaults for an unreadable
store are marked in `overlap` and `misread`.

### DataSync

A bar is its index; `now` is the newest bar that the terminal has received, which is forming. A terminal
that is cut off from its broker answers with what it has and, once it is back, receives several bars one after the
other. `stage` is the place in `sync_symbol`: connect, resolve,
the deep fetch of a new series, the tip, the range behind a gap, the fallback, the filter and
the insert. Any answer may lack bars other than the newest one (a thin answer). One attempt of a fetch is one step, so that the terminal may drop the connection and
a bar may open between any two. `holed`, `outdated`, `rejected` and `shifted` record what the code
itself has caused and will not repair, which the properties exempt by name. At most one
bar arrives at the terminal during a run (the guard of `OpenBar`): a poll takes seconds, the shortest timeframe minutes.

### Backtest and ParameterLoop

Everything a backtest computes is computed, from a history of integers: labels of the regime,
the signals of the three strategies, the engine with its costs, splits, rounds, the checklist of
the gate. Only the numbers of the Monte Carlo simulation are any numbers within their bounds. The
search follows `run_full_loop_matrix`: specs by priority, values on top of what was adopted, the verdict
against the last adopted result; a bar may arrive between two trials. `stopped` is `stopped_early`: the limit of hard
stops sets it at once, and a spec that was degraded against the baseline or unstable in every trial sets it when it is over
(`Complete`); `report` is the place where the report of a strategy is returned.

## 3. What the runs show

Properties are defined at the end of the module they are about (`KeepsPromise` and
`UpdatesAreAtomic` are the refinements of `PairPromise` and `AtomicStore`). "P" marks those that a
theorem of section 6 states for every value of the constants.

| Run | Result | Properties |
|---|---|---|
| `pair_faults` | pass | P `GateHolds`: no order for a pair unless both legs passed; P `OrdersOnlyWhenAllowed`: none behind an open circuit, for a leg that was turned away for a stale quote, for a zeroed or filled plan, or in a dry run (a quote may grow old after the one check, which the property does not exclude); P `OrphanSettled`: the close of an orphan is attempted; P `ClosesOnlyOrphans`: nothing else is ever closed, unless the log of a fill has failed, the broker has closed a leg itself or an order was only placed; P `PlansMatchBroker`: plans and positions agree; P `KeepsPromise`; `RunEnds` |
| `pair_partial_fill` | violation | `BothOrNeither` (finding 1) |
| `resident_loop` | pass | P `OneRunPerBar` and P `ReviewOncePerDay`, across crashes, restarts, processes and midnight; P `RunsOnlyAdopted`, although readiness is cached; `BarsServed`: no bar of a traded symbol starves |
| `resident_forming_bar` | violation | `RunsOnClosedBars` (finding 2) |
| `five_state`, the detector | pass | P `StressHalts`: detected stress stops entries; P `ChangeIsBacked`: a label that allows entries rests on enough rows that detected it; P `NoDirectFlip`: no direct change of strategy; P `FollowsDetection`: a clear regime that is detected `confirm_bars` times in succession is in effect. All four although rows may be read in another order than they arrive in |
| `five_state`, the search | pass | P `NoLookAhead`: what a strategy holds during a bar was decided by the bars before it; P `BestIsOfWorking`: the result to beat belongs to all adopted values together on the bars of that time, and is as many improvements ahead of the baseline; P `StopsForCause`: a search is stopped early exactly when its trials end with as many hard stops in a row as the limit says, or its last spec was degraded or unstable throughout, and no spec is searched after one that failed |
| `state_store` | pass | P `NeverTorn`: no reader sees a torn file; P `DroppedIsBackedUp`: what an update drops is in a backup; P `UpdatesAreAtomic`; `CallsEnd`: no deadlock |
| `risk_control` | pass | P `DrawdownBlocks` and P `CircuitHolds`, across runs and deaths; P `CapsHold`: no order that is filled exceeds the cap of a position, nor those of symbol and sector unless an earlier cap has cut it; `EntriesResume` |
| `intelligence` | pass | P `AdoptedIsValidated`: what a search adopts was validated as a whole; P `MetricsOfParams`: recorded metrics belong to the recorded parameters; P `KeepsAdopted`: only validated parameters replace stored ones; P `EachGainCounts`: accepted candidates add up their improvements |
| `signal_flow` | pass | P `TradesAsConfigured`: orders reach a broker only as the two settings files say; P `PairsAreWhole`: no stage leaves one leg; P `RivalsAreArbitrated`: no symbol is entered both for a pair and on its own, and none twice in the modes that choose between rivals; P `RiskFailsClosed`: behind the open circuit of the risk review no leg goes through; P `ComesToAnEnd`: every step brings a run nearer to its end; P `SizesShareTheRoom`: the orders together fit in the exposure the account had left, unless a confidence or the lot multiplier is above 1 or lots are the fixed fallback; P `WorseNeverTradesMore`: a less certain regime, a worse relation of a pair or a higher cost never lets more through |
| `signal_veto` | violation | `OnePositionPerSymbol` (finding 4) |
| `data_sync` | pass | P `StoreIsSound`: no hole, and only the two newest bars may be copies of a forming one, but for what the code itself causes; P `CompletedMeansCurrent`: after a run whose row says "completed" every series is as new as the newest bar the terminal had when it began; `CatchesUp`: series come up to the newest bar of the terminal again and again |
| `walk_forward` | violation | `RoundsAreTested` (finding 3) |

### Findings

1. `pair_execution.py:1` promises "both-or-neither"; a partial fill has opened a position
   but counts as a rejected order (`execution_agent.py:335`), so a pair may be left with one leg.
2. `resident.py:39` speaks of closed bars; the newest bar in the store is still forming when
   it is run and marked (`resident.py:391`).
3. `walk_forward.py:22` speaks of a rolling validation; each round hands the engine one close
   more than signals (`walk_forward.py:35`), which `engine.py:53` answers with an empty result. Only
   a round that ends with the last bar is tested; the others count as rounds with a return of 0.
4. `README.md:80` forbids positions held at the same time in one symbol. Under the shipped mode veto two winning
   pairs that share a symbol are both entered (`portfolio_agent.py:123`, `arbitration.py:21`), the symbol
   sold for one and bought for the other.

### Further behaviour

Found while modelling. None contradicts a statement in the repository as directly as the four
findings do, or it lies on a path that is switched off.

Resident loop:
- `resident.py:205` says that the gate resolves the strategy of the current regime, and `resident.py:36` that the
  pipeline is refused without adopted parameters. The gate assesses the bars of the loop (M30, `resident.py:207`);
  the pipeline assesses again in `stats.analysis_timeframe` (D1) and trades by that regime, so that a bar let
  through for one strategy may be traded by another, whose parameters are not adopted. In the model this is one
  choice of the action `Run`, and no property excludes it.

Execution and orders:
- A telemetry error after the fill of a retried leg makes the pair recovery execute that leg
  again and close its partner although both are filled (`pair_execution.py:134`); `ClosesOnlyOrphans`
  exempts it. A lost reply can duplicate a position.
- The age of a quote is looked at once (`execution_agent.py:107-114`): during retries and their pauses it may pass
  `quote_max_age_seconds`, and the order is sent all the same. Nothing looks at open positions before an order.
- Trade log records of executions are written in dry runs only (`execution_agent.py:233`).
- Grid signals become real orders (`portfolio_agent.py:171-215`) when the grid is set to
  dry runs but trading is not. Approved lots are not compared with `volume_min` after scaling.
- A missing tick falls back to the last close, missing data for the lots to fixed ones, and an
  unknown stop distance to one unit of price.

Signals:
- A regime scale of 0 rejects the legs of a pair, while no regime at all leaves them at full size. A vote
  of -1 of the regime never rejects.
- Pairs of class R2 are capped at a strength of 0.5, below the shipped `pair_priority` of 0.55.
  Fewer zero crossings can move a pair from R2 to R1.
- The limit of the rotation may cut one leg of a pair; the other is then skipped as well.
- `lot_multiplier` is applied after the caps. `cap_weights` renormalises and confidence times weight is
  not clamped, so a position may exceed the hard cap. An off-by-one (`min_len - 1`) keeps the optimizer from
  its covariance branch.
- The SAFE degradation cannot be reached, and the degraded scale is applied twice.
- `apply_signal_adaptation` drops the ids of pairs; it is off by default, and `FlowPairsAreWhole`
  and the instance assume it off.
- The circuit of the regime agent is shared by all symbols; only the research and market agents can
  time out, and leaving the pool waits for all tasks anyway.
- The cost gate fails open, the risk review fails closed. `fetch_market_symbol_info` and `build_state`
  are called outside `_safe_call` and end the run when they raise.
- Gate registry: a symbol that is absent is allowed, and a stale, missing or malformed file allows
  all. It is written without a temporary file, like the rotation state.
- Signals of the ML agent are tagged `trend_following` but looked up as `feature_score`, and its SELL signals
  carry a negative predicted return, with which they can never be traded.
- The Almgren-Chriss estimate includes the volatility of a day; a slippage rate of 0 counts as unknown.

Settings:
- An *empty* flag (`dry_run`, `require_demo`, `block_untradable`) counts as false although an absent
  one counts as true (`config.py:749`, `:869`).
- A symbol in two groups is looked up by two rules (`config.py:596` takes the first, `:719` the last). With
  a flat list of symbols, pairs are never traded and the number of their symbols is not checked. A
  pair listed twice has four legs under one id.
- A misspelled `graduation_stage` disables `_validate_stage`, and `cmd_review` never validates it.
- `--symbol X` with scan expansion off is not compared with the settings.

Regime, risk and stores:
- Rows of the regime are ordered by a whole second that is taken before the insert (`history.py:186`), so two threads may
  leave them in another order than they arrived in.
- `confirm_bars` counts assessments, not bars (`history.py:154`): three within one bar confirm a
  change. With a value of 1 a change of family still takes two.
- An order cut by one cap is not held against the caps after it (`risk_agent.py:136-200`): with the single cap
  exceeded nobody looks at the symbol, with the cap of the symbol exceeded nobody looks at sector and total. The second
  case came to light when the proof of `CapsHold` failed: while two steps of gold and two of silver are held, an order for gold is cut to the one
  step that the cap of gold leaves, and exceeds that of the sector. The two legs of a pair are reviewed on the same positions.
- The peak equity is never reset, so entries stay blocked after a drawdown until the equity has
  recovered; `enter_safe_mode` has no caller.
- Seeding, and with seeding off a rejected search, write `STATE.md` (`loop.py:264-289`) although `README.md:113`
  says that `state/` is written on adoption only. They write back what they read, so adopted
  parameters are lost only when runs overlap or a read fails. Across processes an update can be lost.

Parameter search and backtest:
- The shipped `wf_sharpe_improvement` of -5 lets a search adopt what is worse than its baseline.
- An empty answer of a model is given up at once; truncated JSON is repaired, and a number that was cut
  may be another allowed value; a text for a number raises out of the run (`params.py:149-168`).
- The look-ahead check of the gate and several items of its checklist are always true. The sensitivity
  check of trend following ignores the mask, and for mean reversion a mask of 0 means "hold".
- A symbol with too few bars is absent from the gate registry, hence allowed.

Data and operations:
- The demo account is checked at connection only, and the connected flag survives a restart of the terminal.
- A gap of exactly the tip leaves the bar that was forming as it was; a failed range fetch leaves a
  hole for good; a shift of more than 20 % can stop a store; an outlier at the head of a batch is accepted.
- The quiet hours of `alerts.py:86` always hold, so low and medium alerts are never sent; `OperationsAgent` looks
  at the account after the orders; `enforce_market_hours` has no effect; `AutoRollback` may leave no model in production.

## 4. Instances and bounds

- **PairExecution**: one single signal, one pair, one pair with one leg missing, and a
  position of an earlier run in one of the symbols. Two retries and a threshold of two make the
  circuit open in the middle of a recovery. Two faulty steps reach every pair of faults
  (lost, partial, late or failed replies, failed records, a failed close, anything raised, death of the
  process, a quote that grows old between attempts); every property about a single pair needs at most two to fail. Dry and
  real runs; 1,117,982 states.
- **ResidentLoop**: gold with a store for trend following and two bars, silver with one for mean reversion, one bar
  and sessions that end; a loop and a forced review with two launches in total; one fault besides any interrupts. The
  clock passes the window of a review day, midnight and other days up to the window of the next review day; bars and
  turns of the clock are four at most together (`MaxEvents`), so that either all bars open on the
  review day or the clock runs through the week. Two bars of one symbol and two symbols are enough for repetition,
  overtaking and interference; what a review records is read again after a restart on the same day and on the
  next review day. 355,565 states.
- **RegimeSwitch**: the shipped thresholds and `confirm_bars` 3, scores at and around the thresholds (one
  for each label, one for what keeps either family without entering it), four rows, two seconds and two
  threads (symmetric). Four rows hold a change, its confirmation and one row of the other thread; two seconds are what it
  takes for a row to be read before one that was there when it arrived. 3,730,977 states. The detector and the search of
  `ParameterLoop` are checked in one run, `five_state`: `MCFiveState` gives both the same thresholds, and each behaviour is one of the one or of the
  other (`closes = << >>` marks those of the detector).
- **StateStore**: two threads of one process or two, two calls after construction, two fields
  and one lesson, two attempts of the replace, one backup kept, one fault of any kind.
- **RiskControl**: two symbols of one group, singles and the pair, equities that reach all
  drawdown levels, caps into which two, three and four steps of lots fit, so that the room that is left may be one step,
  one fault; 430,245 states. One agent at a time, as under the process lock; the properties exempt overlapping agents.
- **IntelligenceLoop**: two knobs, of which one has its default among the allowed values; nine dialogues
  of the two models; three backtest results that the acceptance rules tell apart; two runs of either
  kind by interchangeable processes, one arrival of new data, one fault. Two accepted
  candidates are what it takes to tell "on top of the last" from "on top of the first", two runs to
  read back what a run has stored. 204,868 states.
- **SignalFlow**: three symbols and two pairs that share one, so that single against pair, pair against
  pair, and a symbol in neither all occur; seventeen settings files, of which nine start (the others are
  refused by the loader, the stage or the account); two threads of the pool, a threshold of two, two faults,
  so that a circuit opens. Assessments, offers, measures and quotes are small sets with at
  least one value on each side of every threshold. `WorseNeverTradesMore` is about operators and is checked over all
  its inputs in the states in which a run begins. 872,411 states. `signal_veto` has the shipped settings, no single signals and no fault (5,283 states).
- **DataSync**: two series (one with bars at the start, one without), a history and a tip of two
  bars, five bars, two retries, two faults (a raising call, a blip of the connection, a thin answer, a jump of the
  price, death of the process, restart of the terminal). A gap can be smaller than, equal to and larger than the
  tip. At most one bar arrives during a run. 2,327,561 states.
- **ParameterLoop**: seventeen histories of nine bars (one too short to be tested), small windows of all
  indicators, one new bar between two trials, one backtest that raises. The walk-forward split gives two rounds, of which one
  ends with the last bar. All causes of a stop occur: the limit of two hard stops, degradation, a spec that is unstable throughout
  (`stop_on_all_unstable`, shipped off, is on in this instance). 40,151 states.

Absence of deadlock is not asked where the program may stop for good: a resident process that ended
and is not started again, assessments at the bound on rows, calls at the bound on calls, runs of the
search at the bound on runs, a search that stopped.

## 5. Fairness

`FairSpec` adds weak fairness of the program's own steps only:

- `PairExecution`: the single thread of a pipeline run, whose only wait is `order_send`, which returns.
- `ResidentLoop`: the thread of a live process.
- `StateStore`: threads inside a call (`os.replace` sleeps and tries again, `with` releases the lock).
- `RiskControl`: the steps of a pipeline run and the passing of time for a cooldown. `EntriesResume` asks in
  addition that the equity stays clear of the stop level and that reviews recur.
- `DataSync`: polls, which the resident loop repeats for ever, and a terminal that stopped coming back.

No fairness is assumed of the broker, of new bars, of callers, of restarts, or of a fault being
absent. The other modules have safety and action properties only; `ComesToAnEnd` replaces
liveness in `SignalFlow` by a measure that each step of a run lowers.

## 6. Proofs

All theorems hold for every value of the constants that satisfies the module's named
assumption; TLC evaluates the assumptions on each instance. Each proof follows one scheme:
a typing lemma, an inductive invariant with a lemma for each action, `Init`, `Next`, and PTL at
the end. Theorems without a property of a run are the typing theorems (`TypeCorrect`, `ResidentTypes`,
`RegimeTypes`, `StoreTypes`, `RiskTypes`, `IntelligenceTypes`, `DataSyncTypes`), `FlowInvariant`,
`ResidentOneEngine` and `ResidentNeverBackwards`.

- **PairExecutionProofs**: `GateCorrect` (orders of a leg exist only when it and its
  partner are in `prepared`, tied to `pc`); `OrphanSettledCorrect` (for each place of the pair
  recovery, what the two plans of the active pair may be, and that finished jobs are not written again);
  `OrdersCorrect` (in the retry loop the circuit is closed, failures are below the threshold and
  the plan has lots and is not filled; `RefusedStale`: a leg turned away for a stale quote has no order and will get none). `ClosesCorrect`, `BooksCorrect` and the refinement `PromiseKept` add
  `OrphanHeld` (while the missing leg is retried the other one is filled) and `Books` (a filled plan has its
  ticket, a closed position is not open again, each leg has at most one position of its own, the broker has decided every order
  but the current one, each as far as no fault breaks it). Every step of the execution maps to a step of `PairPromise` or a stutter.
- **ResidentLoopProofs**: the invariant `Safe` adds to types and lock that a process works on a bar newer
  than the recorded one (`Ahead`: it was when it looked, and nobody else past the lock records
  meanwhile), that a bar once run is recorded or in the hands of a process about to record it
  (`Recorded`), and that cached readiness is still true (`Ready`: what is adopted stays adopted).
  `ResidentReviewOncePerDay` adds `Past` (no date on disk or in a memory is of the future) and `Filed`: a
  review that has begun is on disk, or on its way there in the one process that is reviewing. `BarSteps` reduces each step to the five that touch a bar.
- **FiveStateProofs**, about the two modules that build on `FiveState`. Of `RegimeSwitch`: `RegimeStressHalts` (a detected stress in flight is never turned into a
  label with entries once enough rows exist: rows only grow); `RegimeNoDirectFlip` (what a lone
  assessment read is still the newest row when it inserts, and its own will be newer: by `Timed` no row is later than the
  clock, nor than a stamp that was taken with nobody else about); `RegimeChangeIsBacked` (what the queries of an assessment answered is what
  they answer over the rows there were then, wherever later rows are read between them); `RegimeFollowsDetection` (`RowsFollow`: what each row's label may be, given the
  rows before it; `FromTheFirst`: the rows at the start, where there are too few to confirm). The last needs that entering
  a range asks for less trend than leaving a trend (`EnterRange < ExitTrend`), as the shipped thresholds have it.
  Of `ParameterLoop`: `MatrixStopsForCause` (`Counted`: the hard stops in a row that the search counts are those its trials show, and the trials of a spec that is over are what its degradation and instability are judged by);
  `MatrixBestIsOfWorking` (`Searched`: the working values are the base with all that was adopted on top, in order, and the result to
  beat is ahead of the first by one improvement for each of them).
  `MatrixNoLookAhead`, for which every series that a backtest computes (Wilder averages, directional movement, ADX, scores,
  labels, signals, positions) is shown to agree on two histories as far as these agree. That the recursive functions and folds in these
  definitions exist, and that the step from one bar to the next determines them, is proved by `Upward`, which takes
  the place of induction: below the least number where it fails there is one where it holds. The
  assumptions are `MatrixAssumption`, `BacktestAssumption`, `ScoresAssumption` and `PeriodsAssumption` (whole numbers), and for the last theorem
  `AdxIsComputed`: the constant through which the model takes the ADX is the function that the module defines, as in the instance.
- **StateStoreProofs**: `StoreNeverTorn`, `StoreAtomic` (step refinement of `AtomicStore`). The
  invariant has the lock (owner and depth fit the places of its process's threads), the call
  each place belongs to, the file a document in memory was read from (still the content while
  the lock is held), and the temporary file: whole and its writer's own when it is about to replace.
  `StoreDroppedIsBackedUp` adds `Prepared` (the document an update writes is made from the file as it
  is, or from the default) and `BackupInv`: behind its backup, the file is the newest of the backups, which pruning keeps, or
  there is nothing in it.
- **RiskControlProofs**: `RiskDrawdown`, `RiskCircuit`, `RiskCaps`. None of the properties is inductive; what carries
  the first two from run to run is `Remembered` (database and live agent know the highest equity ever read) and
  `Cooling` (while a cooldown lasts, exactly that one, both say so), which hold because until two
  agents overlap at most one lives (`Alone`). For the caps, `Shape` says which orders an agent has by where it
  stands, and `Capped` that each fits beside what is held, the second of a pair before the first is filled.
  Exposure is a sum over a set of symbols, computed by a recursive function on subsets. That this function exists, and gives the
  same whichever element is split off, is proved without the induction theorems, which no prover here can instantiate: among the
  subsets where it fails there would be a least one (`LeastSubset`, from the theorem that strict inclusion on the subsets of a finite set is well-founded). From there it is
  monotone and additive (`SumGrows`, `UsedAdds`).
- **IntelligenceLoopProofs**: `IntelligenceAdopted`, `IntelligenceMetrics`, `IntelligenceKeeps`,
  `IntelligenceGains`. The invariant adds to the types that a run which read the store still knows
  what is in it (`Current`, as long as it is alone), that what it has accepted was validated (`Accepted`), that
  its baselines are measured results as far apart as its gains (`Gained`), and that stored metrics and
  parameters belong together (`Recorded`). The proofs also cover seeding switched off and `adopt_tier_a`.
- **DataSyncProofs**: `DataSyncStoreIsSound`, `DataSyncCompletedMeansCurrent`. `IInv` is types, `Clock` (a run
  lasts at most one bar, and nothing is newer than the forming one), `Batch` (what a fetch brought, stage by stage), `SeriesSound`
  (the series are contiguous, and their forming copies new enough, but for recorded exceptions) and `Progress`
  (while nothing has failed, the series a run has left behind it are current).
- **SignalFlowProofs**: the invariant `FlowInv` says for each phase what has begun (`Begun`), what is queued
  and in flight (`Pool`), what the list of signals is (`Signalled`), and
  what the jobs have become (`Working`). The list that each stage hands on is `Derived` from the one before: an injection of
  positions under which symbol, direction and pair stay. So a list that was
  `WellMade` (entries are of symbols that may be traded, and two entries for a pair are its two legs) and `AllApart`
  (no two in one symbol but under veto) stays so, whatever arbitration, rotation or sizing drop. `Spread` makes each leg of each job another
  one of the orders, and sent legs are apart from those still to come. `FlowComesToAnEnd` compares stage, jobs
  and what is left of the stage, in this order. `FlowTradesAsConfigured` follows each flag through the merge of the two files. `SignalFlowAssumption` asks
  two things of the settings that the loader does not check: no pair is listed twice, and where there are no groups a
  pair has two symbols. `FlowPairsAreWhole` assumes that the adaptation of thresholds is off, since with it the property is false. `FlowWorseNeverTradesMore`
  is about the operators: strengths, scales and costs are monotone in each grade, as quotients and products of numbers that are not
  negative are, and roots exist and grow. It rests on `GradesAssumption`, by which grades are whole numbers and the half-life of a spread
  comes from its phi (it grows with it, and there is none where phi is not between 0 and 1); `estimate_half_life` computes it so.
  `FlowSizesShareTheRoom` is about a sum over the legs of all jobs that are left, in an order the partition and
  the flattening have changed, so the invariant `SizeInv` has no sum in it: every leg that is worth anything keeps a stretch of the
  account's room of its own (`Roomy`). `Sized` lays the stretches out one behind the other (`SizedInRoom`, by induction along
  what is taken), the partition and the jobs that are done only move or drop them (`PartitionRoomy`, `TailRoomy`), and disjoint stretches within a room are together no
  longer than it (`LinedFits`, where the last stretch is split off; `SumFits` for the fold over the sequence). The other half of `SizeInv`
  types the numbers a signal carries through scan, arbitration, allocation, rotation, adaptation and vote, weights included. It rests on
  `SizesAssumption` and `SizingAssumption`: strengths, confidences, equity, exposure, stored group weights and limits are not negative,
  every symbol has an instrument with a positive volume step, and no volatility is zero, as `inverse_volatility_weights` sees to.

What TLC alone checks is liveness (`RunEnds`, `BarsServed`, `CallsEnd`, `EntriesResume`, `CatchesUp`), which
is out of the prover's reach.

## 7. Plan

Done: all modules of section 2, and the theorems of section 6, among them every invariant and every
action property the runs check. Next: a model of position management and hedging (section 8), and beyond it
the components that are listed as `partly`.

## 8. Not modelled

- Operations, monitoring, position management and hedging: they advise, and look at the account after the orders.
- Machine learning, research, market data, survival and online learning: numerical or off the live path.
- Extensions (stubs), scripts, tests and the state files committed to the repository.
- Partly modelled: order routing beyond the choice of filling mode; `probabilistic.py` and `detection.py`, which are not on
  the live path; selection of features; cost analysis and reports; the spread store, which nothing calls; prompts and
  HTTP of the language models, of which only the outcomes are modelled.

`PROJECT.json` lists each part with its status and the reason.
