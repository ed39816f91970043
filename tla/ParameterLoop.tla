--------------------------- MODULE ParameterLoop ---------------------------
(***************************************************************************)
(* run_full_loop_matrix for one symbol: for each strategy a baseline, then *)
(* one parameter at a time, each value backtested on top of what has been  *)
(* adopted so far and judged against the last result adopted.  Bars may    *)
(* arrive while it runs, and a backtest may find too few of them.          *)
(***************************************************************************)
EXTENDS Backtest

CONSTANTS Histories,     \* the bars at the beginning
          BaseConfig,    \* value of each parameter
          Strategies,    \* in the order they are tried
          Specs,         \* Specs[strategy]: by priority, each a sequence of overrides
          HardTrades, HardMdd, HardOos, HardLive, HardP5, OverfitSharpe, OverfitWf,
          MinWf, Improvement, MinLive, MaxMdd, Tolerance, MinTrades,
          TierBProb, TierBP5, TierBPositive, TierBPasses,
          AdoptTierA, HardStopLimit, StopDelta, StopOnAllUnstable,
          SkipOnGateFail, \* settings of stop_on_all_strategies_gate_fail
          HistoryBars,   \* history_bars_for the timeframe
          Moves,         \* by how much a new bar may move the close
          MaxNewBars, FaultBound  \* bounds: bars that arrive, backtests that raise

ASSUME MatrixAssumption ==
    /\ HardStopLimit \in Nat \ {0}
    /\ Strategies \in Seq({"trend_following", "mean_reversion", "feature_score"})
    /\ Strategies # << >>
    /\ \A history \in Histories : history \in Seq(Int) /\ history # << >>
    /\ BaseConfig["ma_long"] \in Nat
    /\ Moves \subseteq Int /\ {Improvement, Tolerance} \subseteq Int

VARIABLES
    phase,    \* "matrix", "baseline", "value", "spec", "report" (of a strategy) or "done"
    closes,   \* the bars of the symbol
    mode,     \* of the regime the matrix was begun in
    strategy, \* position in Strategies
    spec, at, \* position in the specs of the strategy
    current,  \* the values the spec had when it was begun, or the last adopted
    working,  \* working_config
    best,     \* best_result
    initial,  \* the Sharpe ratio of the rounds of the baseline
    hard,     \* consecutive_hard_stops
    seen,     \* spec_trial_wf_sharpes and spec_stabilities
    trials,   \* trials of the report: spec, verdict and what the backtest gave, if it did
    adopted,  \* adopted of the report: the overrides, in the order of their adoption
    stopped,  \* stopped_early
    \* history
    first,    \* the baseline
    measured, \* the bars best was measured on
    newBars, faults

data == <<closes, newBars>>
report == <<trials, adopted, stopped, first, measured>>
search == <<working, best, initial, report>>
matrixVars == <<phase, data, mode, strategy, spec, at, current, search, hard, seen, faults>>

Name == Strategies[strategy]
SpecsNow == Specs[Name]
Value == SpecsNow[spec][at]

\* apply_config_overrides
Override(cfg, values) == [path \in DOMAIN cfg |-> IF path \in DOMAIN values THEN values[path] ELSE cfg[path]]

\* _baseline_value
ValuesIn(cfg, like) == [path \in DOMAIN like |-> cfg[path]]

NoResult == [trades |-> 0]

MatrixInit ==
    /\ closes \in Histories
    /\ phase = "matrix" /\ mode = "none" /\ strategy = 1 /\ spec = 1 /\ at = 1
    /\ current = << >> /\ working = BaseConfig /\ best = NoResult /\ initial = 0
    /\ hard = 0 /\ seen = {} /\ trials = << >> /\ adopted = << >> /\ stopped = FALSE
    /\ first = NoResult /\ measured = << >> /\ newBars = 0 /\ faults = 0

-----------------------------------------------------------------------------
(* evaluate_trial                                                          *)

HardStop(r) ==
    \/ r.trades < HardTrades
    \/ r.mdd > HardMdd
    \/ r.oos < HardOos /\ r.test < 0
    \/ r.live < HardLive
    \/ r.p5 < HardP5
    \/ r.sharpe > OverfitSharpe /\ r.wf < OverfitWf

TierA(r, than) ==
    /\ r.wf >= MinWf /\ r.wf >= than.wf + Improvement
    /\ r.oos >= MinOosRatio
    /\ r.live > MinLive
    /\ r.mdd <= MaxMdd /\ r.mdd <= than.mdd + Tolerance
    /\ r.trades >= MinTrades

TierB(r) ==
    /\ r.prob >= TierBProb /\ r.p5 >= TierBP5 /\ r.positive >= TierBPositive
    /\ r.stable /\ r.passes >= TierBPasses

Verdict(r, than) ==
    IF HardStop(r) THEN "hard_stop"
    ELSE IF ~TierA(r, than) THEN "reject"
    ELSE IF TierB(r) THEN "adopt" ELSE "tier_a"

Adopts(verdict) == verdict \in {"adopt"} \union (IF AdoptTierA THEN {"tier_a"} ELSE {})

-----------------------------------------------------------------------------
(* The matrix and the baseline                                             *)

Reset ==
    /\ spec' = 1 /\ at' = 1 /\ current' = << >> /\ working' = BaseConfig /\ best' = NoResult
    /\ initial' = 0 /\ hard' = 0 /\ seen' = {} /\ trials' = << >> /\ adopted' = << >>
    /\ stopped' = FALSE /\ first' = NoResult /\ measured' = << >>

\* _all_strategies_failed_baseline_gate: a strategy with too few bars counts as failed
MayFailAll(m) ==
    \A name \in ToSet(Strategies) : Len(closes) < MinBars \/ \E r \in Validations(closes, name, BaseConfig, m) : ~r.passed
MayPass(m) ==
    Len(closes) >= MinBars /\ \E name \in ToSet(Strategies) : \E r \in Validations(closes, name, BaseConfig, m) : r.passed

\* The regime is assessed once; with the switch on, a symbol none of whose strategies
\* passes the gate is left out.
Matrix ==
    /\ phase = "matrix"
    /\ mode' \in {"momentum", "mean_reversion", "none"}
    /\ \E skip \in SkipOnGateFail :
          \/ skip /\ MayFailAll(mode') /\ phase' = "done"
          \/ (skip => MayPass(mode')) /\ phase' = "baseline"
    /\ UNCHANGED <<data, strategy, spec, at, current, search, hard, seen, faults>>

NextStrategy ==
    /\ IF strategy = Len(Strategies) THEN phase' = "done" /\ UNCHANGED strategy
       ELSE phase' = "baseline" /\ strategy' = strategy + 1
    /\ Reset

\* Too few bars: the strategy has no report.
BaselineRaises ==
    /\ phase = "baseline" /\ Len(closes) < MinBars
    /\ NextStrategy
    /\ UNCHANGED <<data, mode, faults>>

Baseline ==
    /\ phase = "baseline" /\ Len(closes) >= MinBars
    /\ \E r \in Validations(closes, Name, BaseConfig, mode) :
          best' = r /\ first' = r /\ initial' = r.wf
    /\ measured' = closes
    /\ phase' = "value"
    /\ current' = ValuesIn(BaseConfig, SpecsNow[1][1])
    /\ UNCHANGED <<data, mode, strategy, spec, at, working, hard, seen, trials, adopted, stopped, faults>>

-----------------------------------------------------------------------------
(* One value of a spec                                                     *)

\* Mutant of Adopt: the next trial starts from the parameters of the beginning.
AdoptAlone(r) ==
    /\ best' = r /\ measured' = closes
    /\ working' = Override(BaseConfig, Value) /\ current' = Value
    /\ adopted' = Append(adopted, Value)

Adopt(r) ==
    /\ best' = r /\ measured' = closes
    /\ working' = Override(working, Value) /\ current' = Value
    /\ adopted' = Append(adopted, Value)

Unadopted == UNCHANGED <<best, measured, working, current, adopted>>

Record(verdict, result) ==
    trials' = Append(trials, [spec |-> spec, verdict |-> verdict, result |-> result])

\* Mutant of HardAfter: a trial that survives leaves the count alone.
HardAfterAny(stop) == IF stop THEN hard + 1 ELSE hard

\* consecutive_hard_stops
HardAfter(stop) == IF stop THEN hard + 1 ELSE 0

\* _check_consecutive_hard_stops, and the next value or the end of the spec
Onward(stop) ==
    /\ hard' = HardAfter(stop)
    /\ stopped' = (hard' >= HardStopLimit)
    /\ IF stopped' \/ at = Len(SpecsNow[spec]) THEN phase' = "spec" /\ UNCHANGED at
       ELSE phase' = "value" /\ at' = at + 1

\* The value the spec has already is not tried.
SkipCurrent ==
    /\ phase = "value" /\ Value = current
    /\ IF at = Len(SpecsNow[spec]) THEN phase' = "spec" /\ UNCHANGED at ELSE at' = at + 1 /\ UNCHANGED phase
    /\ UNCHANGED <<data, mode, strategy, spec, current, search, hard, seen, faults>>

Trial ==
    /\ phase = "value" /\ Value # current
    /\ \E r \in Validations(closes, Name, Override(working, Value), mode) :
         LET verdict == Verdict(r, best)
         IN  /\ seen' = seen \union {<<r.wf, r.stable>>}
             /\ Record(verdict, {<<r.wf, r.stable>>})
             /\ IF Adopts(verdict) THEN Adopt(r) ELSE Unadopted
             /\ Onward(verdict = "hard_stop")
    /\ UNCHANGED <<data, mode, strategy, spec, initial, first, faults>>

\* A ValueError counts as a hard stop, but not for the conditions of the spec.
TrialRaises ==
    /\ phase = "value" /\ Value # current
    /\ faults < FaultBound /\ faults' = faults + 1
    /\ Record("hard_stop", {}) /\ Onward(TRUE) /\ Unadopted
    /\ UNCHANGED <<data, mode, strategy, spec, initial, first, seen>>

-----------------------------------------------------------------------------
(* The end of a spec                                                       *)

\* Mutant of StopsAfterSpec: the worst result of the spec, not the best.
StopsAfterWorst ==
    /\ seen # {}
    /\ \/ \E t \in seen : t[1] < initial - StopDelta
       \/ StopOnAllUnstable /\ \A t \in seen : ~t[2]

\* should_stop_baseline_degradation, should_stop_all_unstable
StopsAfterSpec ==
    /\ seen # {}
    /\ \/ \A t \in seen : t[1] < initial - StopDelta
       \/ StopOnAllUnstable /\ \A t \in seen : ~t[2]

NextSpec ==
    /\ phase = "spec" /\ ~stopped /\ ~StopsAfterSpec /\ spec < Len(SpecsNow)
    /\ phase' = "value" /\ spec' = spec + 1 /\ at' = 1
    /\ current' = ValuesIn(working, SpecsNow[spec + 1][1])
    /\ hard' = 0 /\ seen' = {}
    /\ UNCHANGED <<data, mode, strategy, search, faults>>

\* The report of the strategy is complete: by hard stops, by what the spec gave, or
\* after the last spec.
Complete ==
    /\ phase = "spec" /\ (stopped \/ StopsAfterSpec \/ spec = Len(SpecsNow))
    /\ stopped' = (stopped \/ StopsAfterSpec)
    /\ phase' = "report"
    /\ UNCHANGED <<data, mode, strategy, spec, at, current, working, best, initial, hard, seen,
                   trials, adopted, first, measured, faults>>

EndStrategy ==
    /\ phase = "report"
    /\ NextStrategy
    /\ UNCHANGED <<data, mode, faults>>

NewBar ==
    /\ phase # "done" /\ newBars < MaxNewBars /\ newBars' = newBars + 1
    /\ \E move \in Moves :
          LET more == Append(closes, Last(closes) + move)
          IN  closes' = IF Len(more) > HistoryBars THEN Tail(more) ELSE more
    /\ UNCHANGED <<phase, mode, strategy, spec, at, current, search, hard, seen, faults>>

MatrixNext == \/ Matrix \/ BaselineRaises \/ Baseline \/ SkipCurrent \/ Trial \/ TrialRaises
        \/ NextSpec \/ Complete \/ EndStrategy \/ NewBar

MatrixSpec == MatrixInit /\ [][MatrixNext]_matrixVars

-----------------------------------------------------------------------------
(* Properties                                                              *)

\* backtest/engine.py: no look-ahead.  What a strategy holds while a bar is under way
\* was decided by the bars before it, indicators, held positions and the labels of the
\* regime included; only the mode of a feature score is that of the last bar.
NoLookAhead ==
    phase = "matrix" => \A name \in ToSet(Strategies), m \in {"momentum", "mean_reversion"} :
        HoldsFromPast(closes, name, BaseConfig, m, Moves)

\* backtest/walk_forward.py: rolling walk-forward validation.  Each round is a
\* backtest of its test window: it has the returns of that window.
RoundsAreTested ==
    phase = "matrix" => \A name \in ToSet(Strategies) : \A start \in Starts(Len(closes)) :
        TestOf(start, closes, SignalsOf(closes, name, BaseConfig, mode), ZeroMeansFlat(name)).returns # << >>

InSearch == phase \in {"value", "spec", "report"}

\* Whenever the result a trial must beat or the parameters it starts from change, the
\* one is a result of the other, all the adopted overrides together and on the bars of
\* that time; and after n adoptions the search is n improvements ahead of the
\* baseline, within n tolerances of its drawdown.
BestIsOfWorking ==
    [][InSearch' /\ <<best, working>> # <<best, working>>' =>
        /\ working' = FoldLeft(Override, BaseConfig, adopted')
        /\ best' \in Validations(measured', Name, working', mode)
        /\ best'.wf >= first'.wf + Len(adopted') * Improvement
        /\ best'.mdd <= first'.mdd + Len(adopted') * Tolerance]_matrixVars

\* The trials at the end of the report that were hard stops of the spec, raised
\* backtests included
IsHard(trial, of) == trial.spec = of /\ trial.verdict = "hard_stop"
HardRun(n) ==
    /\ Len(trials) >= n
    /\ \A i \in (Len(trials) - n + 1)..Len(trials) : IsHard(trials[i], spec)

\* What the backtests of a spec gave, and whether that ends the search: all are worse
\* than the first baseline, or all are unstable; a spec that gave nothing ends nothing.
ResultsOf(n) == UNION {trials[i].result : i \in {k \in DOMAIN trials : trials[k].spec = n}}
Failed(n) ==
    /\ ResultsOf(n) # {}
    /\ \/ \A t \in ResultsOf(n) : t[1] < first.wf - StopDelta
       \/ StopOnAllUnstable /\ \A t \in ResultsOf(n) : ~t[2]

\* A report says it was stopped early exactly when consecutive_hard_stop_limit trials of
\* one spec in succession were hard stops or its last spec failed, and no search goes on
\* after a spec that failed: against the baseline the search began with, however many
\* values were adopted since, and by the results of that spec alone.
StopsForCause ==
    InSearch =>
        /\ stopped <=> HardRun(HardStopLimit) \/ (phase = "report" /\ Failed(spec))
        /\ \A n \in 1..(spec - 1) : ~Failed(n)
=============================================================================
