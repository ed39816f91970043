------------------------------ MODULE Backtest ------------------------------
(***************************************************************************)
(* BacktestAgent.validate_strategy: the signals of a strategy over the     *)
(* history of a symbol, masked by regime; the backtest of the signals, its *)
(* split in train, validation and test, the walk-forward rounds, the Monte *)
(* Carlo envelope, the sensitivity to parameters and the quality gate.     *)
(* Everything is a function of the closes and of the parameters, except    *)
(* the Monte Carlo numbers, of which only the bounds are known.            *)
(***************************************************************************)
EXTENDS RegimeScores

CONSTANTS Adx(_),                         \* of every bar
          Rsi(_), BbPosition(_), FeatureScore(_, _), \* of the last bar, the score in a mode
          WarmUp,                        \* bars a trend needs beyond its slow average
          Conditioned,                   \* regime.regime_conditioned_bt
          IsBenchmark,                   \* the symbol is the one correlations are taken with
          Cost,                          \* of a change of position
          TrainRatio, ValRatio,          \* percent
          TrainWindow, TestWindow, Step, MinRounds,
          CostNoise, Perturbation, MaxReturnChange, Decay, HiddenCost, \* percent, and return
          GateBars, MinOosRatio, MinProbPositive,
          SharpeBound                    \* bound on a Sharpe ratio, in tenths

ASSUME BacktestAssumption ==
    /\ {WarmUp, Cost, TrainWindow, TestWindow, SharpeBound} \subseteq Nat /\ Step \in Nat \ {0}

-----------------------------------------------------------------------------
(* Signals: -1, 0, 1                                                       *)

NoRsi == -1

Mean(closes, n) == (100 * Total(Recent(closes, n))) \div n

\* evaluate_trend_following, 0 where the ADX or the averages do not decide
Crossing(fast, slow) == IF fast > slow THEN 1 ELSE IF fast < slow THEN -1 ELSE 0

TrendSide(closes, adx, cfg) ==
    IF Len(closes) < cfg["ma_long"] + 2 \/ adx < cfg["adx_sideways"] \/ adx < cfg["adx_trend"]
    THEN 0 ELSE Crossing(Mean(closes, cfg["ma_short"]), Mean(closes, cfg["ma_long"]))

\* Mutant of TrendSignals: the bar that is traded is in the averages.
TrendSignalsPeek(closes, cfg) ==
    [i \in 1..Len(closes) |->
        IF i = Len(closes) \/ i < cfg["ma_long"] + WarmUp THEN 0
        ELSE TrendSide(SubSeq(closes, 1, i + 1), Adx(closes)[i], cfg)]

\* between the thresholds of the ADX the side is held
NextSide(held, side, adx, cfg) == IF adx < cfg["adx_sideways"] THEN 0 ELSE IF side = 0 THEN held ELSE side

\* build_trend_signals; nothing is signalled on the last bar
TrendSignals(closes, cfg) ==
    LET warm == cfg["ma_long"] + WarmUp
        adx  == Adx(closes)
        sides[i \in 0..Len(closes)] ==
          IF i < warm \/ i = 0 THEN [k \in 1..i |-> 0]
          ELSE LET before == sides[i - 1]
                   now    == TrendSide(SubSeq(closes, 1, i), adx[i], cfg)
               IN  Append(before,
                          IF i = Len(closes) THEN 0
                          ELSE NextSide(IF i = 1 THEN 0 ELSE Last(before), now, adx[i], cfg))
    IN  sides[Len(closes)]

\* evaluate_mean_reversion; without an RSI there is no snapshot and no signal
ReversionSide(rsi, bb, cfg) ==
    IF rsi = NoRsi THEN 0
    ELSE IF rsi <= cfg["rsi_oversold"] /\ bb <= cfg["bb_low"] THEN 1
    ELSE IF rsi >= cfg["rsi_overbought"] /\ bb >= cfg["bb_high"] THEN -1
    ELSE 0

\* build_mean_reversion_signals
ReversionSignals(closes, cfg) ==
    [i \in 1..Len(closes) |->
        IF i < MinBars \/ i = Len(closes) THEN 0
        ELSE ReversionSide(Rsi(SubSeq(closes, 1, i)), BbPosition(SubSeq(closes, 1, i)), cfg)]

\* build_feature_score_signals: the mode is that of the regime at the end
ScoreSignals(closes, cfg, mode) ==
    [i \in 1..Len(closes) |->
        LET score == FeatureScore(SubSeq(closes, 1, i), mode)
        IN  IF i < MinBars \/ i = Len(closes) THEN 0
            ELSE IF score > cfg["score"] THEN 1 ELSE IF score < -cfg["score"] THEN -1 ELSE 0]

\* mask_signals_for_strategy
Masked(signals, labels, allowed) ==
    [i \in 1..Len(signals) |-> IF labels[i] \in allowed THEN signals[i] ELSE 0]

\* _regime_labels
RegimeLabels(closes) == LabelSeries(closes, IF IsBenchmark THEN 100 ELSE 0)

RawSignals(closes, strategy, cfg, mode) ==
    CASE strategy = "trend_following" -> TrendSignals(closes, cfg)
      [] strategy = "mean_reversion"  -> ReversionSignals(closes, cfg)
      [] strategy = "feature_score"   -> ScoreSignals(closes, cfg, mode)

SignalsOf(closes, strategy, cfg, mode) ==
    IF Conditioned /\ strategy # "feature_score"
    THEN Masked(RawSignals(closes, strategy, cfg, mode), RegimeLabels(closes),
                IF strategy = "trend_following" THEN TrendStates ELSE RangeStates)
    ELSE RawSignals(closes, strategy, cfg, mode)

-----------------------------------------------------------------------------
(* run_backtest                                                            *)

\* Zero is flat for a trend; for the others it holds what there is.
ZeroMeansFlat(strategy) == strategy = "trend_following"

\* signals_to_positions, from the flat position before the first bar
HeldPositions(signals, flat) ==
    LET held[i \in 0..Len(signals)] ==
          IF i = 0 THEN <<0>>
          ELSE Append(held[i - 1],
                      IF flat \/ signals[i] # 0 THEN signals[i] ELSE Last(held[i - 1]))
    IN  held[Len(signals)]

Nothing == [returns |-> << >>, trades |-> 0]

\* round_trip_pnls: a round trip is a stretch of one position that is not flat, and is
\* known by the bar it begins on
RoundTrips(held) == {i \in 1..(Len(held) - 1) : held[i + 1] \notin {0, held[i]}}

\* Position i earns the return from bar i to the next, and a change of position costs.
Earned(held, bar) ==
    [returns |-> [i \in 1..Len(bar) |-> held[i + 1] * bar[i] - (IF held[i + 1] # held[i] THEN Cost ELSE 0)],
     trades  |-> Cardinality(RoundTrips(held))]

RunBacktest(closes, signals, flat) ==
    IF Len(closes) < 2 \/ Len(signals) # Len(closes) THEN Nothing
    ELSE Earned(HeldPositions(SubSeq(signals, 1, Len(signals) - 1), flat), Returns(closes))

\* max_drawdown, additive: the first point of the equity curve is its first peak
MaxDrawdown(returns) ==
    LET equity[i \in 0..Len(returns)] == IF i = 0 THEN 0 ELSE equity[i - 1] + returns[i]
    IN  Max({0} \union {equity[p[1]] - equity[p[2]] :
                          p \in {q \in (1..Len(returns)) \X (1..Len(returns)) : q[1] < q[2]}})

\* sharpe_ratio of a bar without a risk-free rate, in tenths: n returns, their sum, and
\* n^2 times their variance
SharpeOf(n, sum, spread) ==
    LET size == Max({k \in 0..SharpeBound : k * k * n * spread <= 100 * sum * sum * (n - 1)})
    IN  IF n < 2 \/ spread = 0 THEN 0 ELSE IF sum < 0 THEN -size ELSE size

Sharpe(returns) ==
    LET n == Len(returns)
    IN  SharpeOf(n, Total(returns), n * Squares(returns) - Total(returns) * Total(returns))

\* evaluate_returns
Performance(bt) == [trades |-> bt.trades, mdd |-> MaxDrawdown(bt.returns), sharpe |-> Sharpe(bt.returns)]

\* evaluate_oos_split
Segments(returns, bars) ==
    LET trainEnd == (bars * TrainRatio) \div 100
        valEnd   == (bars * (TrainRatio + ValRatio)) \div 100
        last     == Len(returns)
    IN  [train |-> Total(SubSeq(returns, 1, Min({trainEnd, last}))),
         test  |-> Total(SubSeq(returns, valEnd + 1, last))]

\* test over train in percent, zero when there is nothing to divide by
Ratio(test, train) ==
    IF train = 0 THEN 0
    ELSE IF train > 0 THEN (100 * test) \div train ELSE (-100 * test) \div (-train)

-----------------------------------------------------------------------------
(* walk_forward_validation                                                 *)

\* A slice of Python: what is beyond the end is cut off.
Slice(s, from, to) == SubSeq(s, from + 1, Min({to, Len(s)}))

Starts(n) == {k * Step : k \in {j \in 0..n : j * Step + TrainWindow + TestWindow <= n}}

\* The test of the round that begins at a bar: the closes have one bar more than
\* the signals.
TestOf(start, closes, signals, flat) ==
    LET from == start + TrainWindow
        to   == from + TestWindow
    IN  RunBacktest(Slice(closes, from, to + 1), Slice(signals, from, to), flat)

WalkForward(closes, signals, flat) ==
    [start \in Starts(Len(closes)) |-> TestOf(start, closes, signals, flat).returns]

\* summarize_walk_forward: mean of the Sharpe ratios, rounds that gain in percent
Summary(rounds) ==
    LET n == Cardinality(DOMAIN rounds)
    IN  IF n = 0 THEN [rounds |-> 0, sharpe |-> 0, positive |-> 0]
        ELSE [rounds   |-> n,
              sharpe   |-> MapThenSumSet(LAMBDA k : Sharpe(rounds[k]), DOMAIN rounds) \div n,
              positive |-> (100 * Cardinality({k \in DOMAIN rounds : Total(rounds[k]) > 0})) \div n]

-----------------------------------------------------------------------------
(* monte_carlo_simulation, trend_parameter_sensitivity                     *)

Stretched(returns, gain, loss) ==
    Total([i \in 1..Len(returns) |-> returns[i] * (IF returns[i] > 0 THEN gain ELSE loss)]) \div 100

\* Shuffling leaves a sum alone, the noise scales each return: all runs are between
\* the worst and the best.  No returns, no runs: zeros.
Envelope(worst, best) ==
    IF worst > 0 THEN {[p5 |-> worst, prob |-> 100]}
    ELSE IF best <= 0 THEN {[p5 |-> worst, prob |-> 0]}
    ELSE {[p5 |-> worst, prob |-> 0], [p5 |-> worst, prob |-> 50], [p5 |-> best, prob |-> 100]}

MonteCarlo(returns) ==
    IF returns = << >> THEN {[p5 |-> 0, prob |-> 0]}
    ELSE Envelope(Stretched(returns, 100 - CostNoise, 100 + CostNoise),
                  Stretched(returns, 100 + CostNoise, 100 - CostNoise))

TrendReturn(closes, cfg) == Total(RunBacktest(closes, TrendSignals(closes, cfg), TRUE).returns)

Scaled(value, percent) == (value * (100 + percent)) \div 100

\* Each average a fifth faster and slower, without the mask of the regimes.
Varied(cfg) == {[cfg EXCEPT !["ma_short"] = Max({2, Scaled(@, -Perturbation)})],
                [cfg EXCEPT !["ma_short"] = Scaled(@, Perturbation)],
                [cfg EXCEPT !["ma_long"] = Max({5, Scaled(@, -Perturbation)})],
                [cfg EXCEPT !["ma_long"] = Scaled(@, Perturbation)]}

IsStable(base, returns) == \A r \in returns : 100 * AbsOf(r - base) <= MaxReturnChange * AbsOf(base)
Stable(closes, cfg) == IsStable(TrendReturn(closes, cfg), {TrendReturn(closes, v) : v \in Varied(cfg)})

-----------------------------------------------------------------------------
(* evaluate_quality_gates, validate_strategy                               *)

\* Five checks always pass: survivorship, time zone, multiple testing, total cost, and
\* the look-ahead check, which compares a bar with the one after it.
AlwaysPassing == 5

Gates(bars, total, seg, wf, mc, stable) ==
    [coverage   |-> bars >= GateBars,
     split      |-> seg.train # 0 \/ seg.test # 0,
     oos        |-> IF seg.train > 0 THEN Ratio(seg.test, seg.train) >= MinOosRatio ELSE seg.test >= 0,
     stability  |-> stable,
     slippage   |-> Cost > 0,
     rounds     |-> wf.rounds >= MinRounds,
     montecarlo |-> mc.p5 >= 0 \/ mc.prob >= MinProbPositive,
     decay      |-> total * Decay > 0 \/ total <= 0]

ResultOf(bt, total, seg, wf, mc, stable, gates) ==
    LET run == Performance(bt)
    IN  [trades |-> run.trades, mdd |-> run.mdd, sharpe |-> run.sharpe,
         wf |-> wf.sharpe, positive |-> wf.positive,
         oos |-> Ratio(seg.test, seg.train), test |-> seg.test,
         live |-> (total * Decay) \div 100 - HiddenCost,
         p5 |-> mc.p5, prob |-> mc.prob, stable |-> stable,
         passes |-> AlwaysPassing + Cardinality({g \in DOMAIN gates : gates[g]}),
         passed |-> \A g \in DOMAIN gates : gates[g]]

Judged(bt, total, seg, wf, stable, bars) ==
    {ResultOf(bt, total, seg, wf, mc, stable, Gates(bars, total, seg, wf, mc, stable)) :
        mc \in MonteCarlo(bt.returns)}

Measured(bt, wf, stable, bars) ==
    Judged(bt, Total(bt.returns), Segments(bt.returns, bars), wf, stable, bars)

Validated(closes, signals, flat, stable) ==
    Measured(RunBacktest(closes, signals, flat), Summary(WalkForward(closes, signals, flat)),
             stable, Len(closes))

\* the results that validate_strategy may return
Validations(closes, strategy, cfg, mode) ==
    Validated(closes, SignalsOf(closes, strategy, cfg, mode), ZeroMeansFlat(strategy),
              strategy = "trend_following" => Stable(closes, cfg))

\* The position that earns the return of a bar is the same wherever that bar moves to
\* and whatever bars come after it.
HoldsFromPast(closes, strategy, cfg, mode, moves) ==
    LET held(bars) == HeldPositions(SubSeq(SignalsOf(bars, strategy, cfg, mode), 1, Len(bars) - 1),
                                    ZeroMeansFlat(strategy))
        all == held(closes)
    IN  \A k \in 1..(Len(closes) - 1), move \in moves :
            held(Append(SubSeq(closes, 1, k), closes[k] + move)) = SubSeq(all, 1, k + 1)
=============================================================================
