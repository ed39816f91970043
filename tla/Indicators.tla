----------------------------- MODULE Indicators -----------------------------
(***************************************************************************)
(* The indicators of a series of closes and the score of a symbol.  A bar  *)
(* opens at the close before it and has no wicks, so its high and low      *)
(* follow from the closes.  Prices are in hundredths, ratios in percent,   *)
(* and quotients are rounded down.                                         *)
(***************************************************************************)
EXTENDS RegimeScores

CONSTANTS MacdFast, MacdSlow, MacdSignal, RsiPeriod, BbPeriod, BbStd, AtrPeriod, AdxPeriod

ASSUME PeriodsAssumption ==
    /\ {MacdFast, MacdSlow, MacdSignal, RsiPeriod, AtrPeriod, BbStd} \subseteq Nat \ {0}
    /\ BbPeriod \in Nat /\ BbPeriod >= 2 /\ AdxPeriod \in Nat /\ AdxPeriod >= 2

Clamp(x, low, high) == Max({low, Min({high, x})})

-----------------------------------------------------------------------------
(* Averages                                                                *)

MeanOf(s) == Total(s) \div Len(s)

\* ema: begins at the first value
Ema(s, span) ==
    LET ema[i \in 1..Len(s)] ==
          IF i = 1 THEN <<s[1]>>
          ELSE LET before == ema[i - 1]
               IN  Append(before, (2 * s[i] + (span - 1) * Last(before)) \div (span + 1))
    IN  ema[Len(s)]

\* The smoothing of RSI, ATR and ADX: the mean of the first values, into which each
\* later value goes with a weight of 1/n.
Wilder(s, first, n) ==
    LET avg[i \in 0..(Len(s) - first)] ==
          IF i = 0 THEN <<MeanOf(SubSeq(s, 1, first))>>
          ELSE LET before == avg[i - 1] IN Append(before, (Last(before) * (n - 1) + s[first + i]) \div n)
    IN  IF Len(s) < first THEN << >> ELSE avg[Len(s) - first]

Priced(closes) == [i \in 1..Len(closes) |-> 100 * closes[i]]

-----------------------------------------------------------------------------
(* The range of a bar                                                      *)

Before(prices, i) == prices[Max({1, i - 1})]
High(prices, i) == Max({prices[i], Before(prices, i)})
Low(prices, i) == Min({prices[i], Before(prices, i)})

TrueRange(prices, i) ==
    Max({High(prices, i) - Low(prices, i), AbsOf(High(prices, i) - Before(prices, i)),
         AbsOf(Low(prices, i) - Before(prices, i))})

\* compute_atr; without a value the snapshot has zero
Atr(prices) ==
    LET atr == Wilder([i \in 1..Len(prices) |-> TrueRange(prices, i)], AtrPeriod, AtrPeriod)
    IN  IF Len(prices) < 2 \/ atr = << >> THEN 0 ELSE Last(atr)

UpMove(prices, i) == High(prices, i) - High(prices, i - 1)
DownMove(prices, i) == Low(prices, i - 1) - Low(prices, i)

\* smoothed plus_dm and minus_dm, or minus_dm and plus_dm; the first is of the second bar
Directional(moves, others) ==
    Wilder([j \in 1..Len(moves) |-> IF moves[j] > Max({0, others[j]}) THEN moves[j] ELSE 0],
           AdxPeriod - 1, AdxPeriod)

\* 100 |plus_di - minus_di| / (plus_di + minus_di), from which the range cancels out
Spread(plus, minus) == IF plus + minus = 0 THEN 0 ELSE (100 * AbsOf(plus - minus)) \div (plus + minus)

\* dx: not defined on the bar of the first averages
Dx(plus, minus) == [k \in 1..(Len(plus) - 1) |-> Spread(plus[k + 1], minus[k + 1])]

\* compute_adx; where it has no value the callers take zero
AdxSeries(closes) ==
    LET prices == Priced(closes)
        up   == [j \in 1..(Len(prices) - 1) |-> UpMove(prices, j + 1)]
        down == [j \in 1..(Len(prices) - 1) |-> DownMove(prices, j + 1)]
        adx == Wilder(Dx(Directional(up, down), Directional(down, up)), AdxPeriod - 1, AdxPeriod)
        missing == Len(closes) - Len(adx)
    IN  [i \in 1..Len(closes) |->
            IF Len(closes) < AdxPeriod + 2 \/ i <= missing THEN 0 ELSE adx[i - missing]]

-----------------------------------------------------------------------------
(* RSI, MACD and Bollinger bands                                           *)

Strength(gain, loss) == IF loss = 0 THEN 100 ELSE (100 * gain) \div (gain + loss)

\* compute_rsi, of the bars that have one
RsiSeries(closes) ==
    LET moves == Returns(Priced(closes))
        up    == Wilder([i \in 1..Len(moves) |-> Max({0, moves[i]})], RsiPeriod, RsiPeriod)
        down  == Wilder([i \in 1..Len(moves) |-> Max({0, -moves[i]})], RsiPeriod, RsiPeriod)
    IN  [k \in 1..Len(up) |-> Strength(up[k], down[k])]

\* what one step added, zero for a series of one value
Delta(s) == IF Len(s) < 2 THEN 0 ELSE Last(s) - s[Len(s) - 1]

Minus(s, t) == [i \in 1..Len(s) |-> s[i] - t[i]]

\* compute_macd
MacdDiff(prices) == Minus(Ema(prices, MacdFast), Ema(prices, MacdSlow))
Histogram(prices) == Minus(MacdDiff(prices), Ema(MacdDiff(prices), MacdSignal))

\* 50 + 50 (close - mean) / (BbStd std) of n closes, their sum, and n^2 times their variance
Position(n, sum, spread, last) ==
    LET size == Max({m \in 0..50 : m * m * BbStd * BbStd * spread * n
                                     <= 2500 * (n * last - sum) * (n * last - sum) * (n - 1)})
    IN  IF spread = 0 THEN 50 ELSE IF n * last < sum THEN 50 - size ELSE 50 + size

\* compute_bollinger: bb_position, one half where there are no bands
BandPosition(closes) ==
    LET w == Recent(closes, BbPeriod)
    IN  IF Len(closes) < BbPeriod THEN 50
        ELSE Position(BbPeriod, Total(w), BbPeriod * Squares(w) - Total(w) * Total(w), Last(w))

\* the average of the bands, or the close
Ma20(closes) == IF Len(closes) < BbPeriod THEN 100 * Last(closes) ELSE (100 * Total(Recent(closes, BbPeriod))) \div BbPeriod

-----------------------------------------------------------------------------
(* latest_snapshot and FeatureEngine                                       *)

\* Without an RSI there is no snapshot.
HasSnapshot(closes) == Len(closes) > RsiPeriod

Snapshot(closes) ==
    [macd |-> Last(MacdDiff(Priced(closes))), histDelta |-> Delta(Histogram(Priced(closes))),
     ma20 |-> Ma20(closes), atrPct |-> (100 * Atr(Priced(closes))) \div Last(closes),
     rsi |-> Last(RsiSeries(closes)), rsiDelta |-> Delta(RsiSeries(closes)), bb |-> BandPosition(closes)]

\* macd_diff and ema_trend are the same number: the difference of the two averages
Momentum(snap) ==
    35 * Clamp((100 * snap.macd) \div snap.ma20, -100, 100) + 25 * Clamp(100 * snap.histDelta, -100, 100)
      + 25 * Clamp((100 * snap.macd) \div snap.ma20, -100, 100) + 15 * Clamp(snap.atrPct \div 10, 0, 100)

Reversion(snap) ==
    40 * Clamp(2 * (50 - snap.rsi), -100, 100) + 40 * Clamp(50 - snap.bb, -100, 100)
      + 20 * Clamp(-10 * snap.rsiDelta, -100, 100)

ScoreOf(snap, mode) ==
    (CASE mode = "momentum" -> Momentum(snap) [] mode = "mean_reversion" -> Reversion(snap) [] OTHER -> 0) \div 100

\* build_from_bars: the score, none without a snapshot
Score(closes, mode) == IF HasSnapshot(closes) THEN ScoreOf(Snapshot(closes), mode) ELSE 0
=============================================================================
