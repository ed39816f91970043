-------------------------- MODULE MCParameterLoop --------------------------
(***************************************************************************)
(* Histories of nine bars that rise, fall or stand, with small windows: a  *)
(* walk-forward of two rounds, a regime from the fifth bar on; two specs   *)
(* for a trend, one of one value for mean reversion, one of two for the    *)
(* feature score.                                                          *)
(***************************************************************************)
EXTENDS ParameterLoop, Indicators

MCMoves == {-2}

Path(moves) == LET close[i \in 0..Len(moves)] == IF i = 0 THEN 20 ELSE close[i - 1] + moves[i]
               IN  [i \in 1..(Len(moves) + 1) |-> close[i - 1]]

MCHistories == {<<20, 23>>} \union {Path(m \o n) : m \in [1..3 -> {-2, 3}], n \in {<<3, 3, 1, 3, 1>>, <<-2, 3, 1, 3, -2>>}}

\* every series of closes a backtest or NoLookAhead can meet
Grown(p) == {Append(p, Last(p) + move) : move \in MCMoves}
Read == MCHistories \union {SubSeq(q, Max({1, Len(q) - 8}), Len(q)) : q \in UNION {Grown(p) : p \in MCHistories}}
Begun == {SubSeq(p, 1, k) : <<p, k>> \in {q \in Read \X (1..9) : q[2] <= Len(q[1])}}
Paths == Begun \union UNION {Grown(p) : p \in Begun}

\* the indicators of these, worked out once
AdxTable   == [p \in Paths |-> AdxSeries(p)]
RsiTable   == [p \in Paths |-> IF HasSnapshot(p) THEN Last(RsiSeries(p)) ELSE NoRsi]
BandTable  == [p \in Paths |-> BandPosition(p)]
ScoreTable == [m \in {"momentum", "mean_reversion", "none"} |-> [p \in Paths |-> Score(p, m)]]

MCAdx(s) == AdxTable[s]
MCRsi(s) == RsiTable[s]
MCBbPosition(s) == BandTable[s]
MCFeatureScore(s, m) == ScoreTable[m][s]

MCTrendLevels == << <<599, 30>>, <<835, 35>>, <<1468, 45>>, <<2390, 55>>, <<3003, 60>>,
                    <<4701, 70>>, <<13546, 90>> >>
MCBaseConfig == [path \in {"ma_short", "ma_long", "adx_trend", "adx_sideways", "rsi_oversold",
                           "rsi_overbought", "bb_low", "bb_high", "score"} |->
    CASE path = "ma_short" -> 2 [] path = "ma_long" -> 3 [] path = "adx_trend" -> 25
      [] path = "adx_sideways" -> 20 [] path = "rsi_oversold" -> 30 [] path = "rsi_overbought" -> 70
      [] path = "bb_low" -> 20 [] path = "bb_high" -> 80 [] path = "score" -> 15]

Set(path, value) == [p \in {path} |-> value]
MCSpecs == [trend_following |-> << <<Set("adx_trend", 15), Set("adx_trend", 35), Set("adx_trend", 45)>>,
                                   <<Set("adx_sideways", 10), Set("adx_sideways", 20)>> >>,
            mean_reversion |-> << << [p \in {"rsi_oversold", "rsi_overbought"} |->
                                        IF p = "rsi_oversold" THEN 45 ELSE 55] >> >>,
            feature_score |-> << <<Set("score", 5), Set("score", 25)>> >>]
MCHardLive == -6
MCHardP5 == -8
MCMinLive == -3
MCTierBP5 == -2
MCStrategies == <<"trend_following", "mean_reversion", "feature_score">>
=============================================================================
