---------------------------- MODULE RegimeScores ----------------------------
(***************************************************************************)
(* The scores of a symbol's bars and the series of labels a backtest is    *)
(* conditioned on.  Closes are integers (a log price in some unit), the    *)
(* return of a bar is a difference, and ratios are in hundredths.          *)
(***************************************************************************)
EXTENDS FiveState, Integers, Sequences, SequencesExt, FiniteSetsExt

CONSTANTS TrendLookback, ErLookback, VolWindow, VolHistory,
          MinVols,     \* volatilities needed to rank one: 5 in the code
          MinBars,     \* stats.min_bars
          TrendLevels  \* << t^2 in thousandths, trend_score it reaches >>, ascending

ASSUME ScoresAssumption == {TrendLookback, ErLookback, VolWindow, VolHistory, MinVols, MinBars} \subseteq Nat

AbsOf(x) == IF x < 0 THEN -x ELSE x
Total(s) == FoldSeq(+, 0, s)
Squares(s) == FoldSeq(LAMBDA x, sum : sum + x * x, 0, s)

\* log_returns
Returns(closes) == [i \in 1..(Len(closes) - 1) |-> closes[i + 1] - closes[i]]

Recent(s, n) == SubSeq(s, Len(s) - n + 1, Len(s))

EfficiencyRatio(closes) ==
    LET window == Recent(closes, ErLookback + 1)
        path   == Total([i \in 1..ErLookback |-> AbsOf(window[i + 1] - window[i])])
    IN  IF Len(closes) <= ErLookback \/ path = 0 THEN 0
        ELSE (100 * AbsOf(window[ErLookback + 1] - window[1])) \div path

\* regression_slope_t of n values y: sign of the slope, and t^2 as a fraction.  A line
\* without residuals has a standard error of zero, and t is set to zero.
Fit(n, a, residual) ==
    IF residual = 0 THEN [slope |-> 0, num |-> 0, den |-> 1]
    ELSE [slope |-> a, num |-> a * a * n * (n - 2), den |-> residual]

Regression(n, y, x, a) == Fit(n, a, Squares(x) * (n * Squares(y) - Total(y) * Total(y)) - n * a * a)

SlopeT(closes) ==
    LET n == TrendLookback
        y == Recent(closes, n)
        x == [i \in 1..n |-> 2 * i - (n + 1)]
    IN  IF Len(closes) < n THEN Fit(n, 0, 0)
        ELSE Regression(n, y, x, Total([i \in 1..n |-> x[i] * y[i]]))

\* |trend_score|: tanh of t, which an inefficient fall halves
TrendScore(t, er) ==
    LET score == Max({l[2] : l \in {k \in ToSet(TrendLevels) : 1000 * t.num >= k[1] * t.den}} \union {0})
    IN  IF t.slope < 0 /\ er <= 30 THEN score \div 2 ELSE score

\* what orders volatility() of the window that ends at return j
Volatility(returns, j) ==
    LET w == SubSeq(returns, j - VolWindow + 1, j)
    IN  VolWindow * Squares(w) - Total(w) * Total(w)

\* share of the volatilities from a return on that are not above the last one
Rank(returns, js, now) ==
    IF Cardinality(js) < MinVols THEN 50
    ELSE (100 * Cardinality({j \in js : Volatility(returns, j) <= now})) \div Cardinality(js)

\* _vol_percentile_at: of the series
VolPercentile(returns) ==
    IF Len(returns) < VolWindow THEN 50
    ELSE Rank(returns, Max({VolWindow, Len(returns) - VolHistory + 1})..Len(returns),
              Volatility(returns, Len(returns)))

ScoresOf(closes, corr) ==
    [trend |-> TrendScore(SlopeT(closes), EfficiencyRatio(closes)), er |-> EfficiencyRatio(closes),
     vol |-> VolPercentile(Returns(closes)), corr |-> corr, spread |-> 0]

FirstLabelled == Max({MinBars, TrendLookback, ErLookback + 1, VolWindow + MinVols})

\* build_five_state_labels: each bar is classified on the label of the one before
LabelSeries(closes, corr) ==
    LET labels[m \in 0..Len(closes)] ==
          IF m <= FirstLabelled THEN [i \in 1..m |-> "uncertain"]
          ELSE LET before   == labels[m - 1]
                   previous == IF m = FirstLabelled + 1 THEN None ELSE Last(before)
               IN  Append(before, Classified(ScoresOf(SubSeq(closes, 1, m), corr), previous))
    IN  labels[Len(closes)]
=============================================================================
