----------------------------- MODULE FiveState -----------------------------
(***************************************************************************)
(* The five regimes and `uncertain`: how scores are classified with        *)
(* hysteresis on a previous label, and what a label allows.  RegimeSwitch  *)
(* classifies the live bars, RegimeScores the history of a backtest.       *)
(***************************************************************************)
EXTENDS Naturals

\* FiveStateThresholds, in hundredths.
CONSTANTS EnterTrend, EnterErTrend, EnterVolMax, ExitTrend, ExitErTrend, HighVol, StressVol,
          EnterRange, EnterErRange, ExitRange, StressCorr, StressSpread

Thresholds == {EnterTrend, EnterErTrend, EnterVolMax, ExitTrend, ExitErTrend, HighVol, StressVol,
               EnterRange, EnterErRange, ExitRange, StressCorr, StressSpread}

TrendStates == {"stable_trend", "high_vol_trend"}          \* TREND_ALLOWED
RangeStates == {"stable_range"}                            \* MR_ALLOWED
HaltStates  == {"high_vol_chop", "stress", "uncertain"}    \* HALT_STATES
Labels      == TrendStates \cup RangeStates \cup HaltStates

None == "none"

CONSTANT HighVolScale    \* regime.high_vol_trend_scale, in hundredths

ASSUME FiveStateAssumption ==
    /\ Thresholds \subseteq Nat /\ HighVolScale \in Nat
    \* What the shipped settings satisfy: the classes do not overlap, and what is
    \* left late is entered late.
    /\ EnterRange < ExitTrend /\ ExitTrend <= EnterTrend /\ ExitRange < EnterTrend
    /\ ExitErTrend <= EnterErTrend /\ EnterErRange <= EnterErTrend
    /\ EnterVolMax = HighVol /\ HighVol <= StressVol

\* RegimeScores, in hundredths; trend is |trend_score|
ScoreRecords == [trend : Nat, er : Nat, vol : Nat, corr : Nat, spread : Nat]

-----------------------------------------------------------------------------
(* classify_five_state                                                     *)

IsStress(s) == \/ s.vol >= StressVol \/ s.spread >= StressSpread
               \/ s.vol >= HighVol /\ s.corr >= StressCorr
IsTrending(s) == s.trend >= EnterTrend /\ s.er >= EnterErTrend
IsRanging(s)  == s.trend <= EnterRange /\ s.er <= EnterErRange

\* _raw_classify
RawLabel(s) ==
    CASE IsStress(s) -> "stress"
      [] ~IsStress(s) /\ IsTrending(s) ->
           IF s.vol < HighVol /\ s.vol < EnterVolMax THEN "stable_trend" ELSE "high_vol_trend"
      [] ~IsStress(s) /\ ~IsTrending(s) ->
           IF s.vol >= HighVol THEN IF IsRanging(s) \/ s.er < EnterErTrend
                                    THEN "high_vol_chop" ELSE "uncertain"
                               ELSE IF IsRanging(s) THEN "stable_range" ELSE "uncertain"

StillTrend(s) == s.trend >= ExitTrend /\ s.er >= ExitErTrend
StillRange(s) == s.trend <= ExitRange /\ s.er <= EnterErTrend

\* Mutant of Classified: without the uncertain phase between two families.
ClassifiedAtOnce(s, previous) ==
    CASE previous \in TrendStates /\ RawLabel(s) # "stress" /\ StillTrend(s) ->
           IF s.vol >= HighVol THEN "high_vol_trend" ELSE "stable_trend"
      [] OTHER -> RawLabel(s)

\* _apply_hysteresis: how the last confirmed label holds back the detected one.
Classified(s, previous) ==
    CASE previous \in {None, "uncertain"} \/ RawLabel(s) = "stress" -> RawLabel(s)
      [] previous \in TrendStates /\ RawLabel(s) # "stress" ->
           IF StillTrend(s) THEN IF s.vol >= HighVol THEN "high_vol_trend" ELSE "stable_trend"
           ELSE IF RawLabel(s) \in TrendStates THEN RawLabel(s) ELSE "uncertain"
      [] previous = "stable_range" /\ RawLabel(s) # "stress" ->
           IF StillRange(s) THEN IF s.vol < HighVol THEN "stable_range" ELSE "high_vol_chop"
           ELSE IF RawLabel(s) = "stable_range" THEN RawLabel(s) ELSE "uncertain"
      [] previous = "high_vol_chop" /\ RawLabel(s) # "stress" ->
           IF RawLabel(s) = "uncertain" THEN "high_vol_chop" ELSE RawLabel(s)
      [] previous = "stress" /\ RawLabel(s) # "stress" -> "uncertain"

-----------------------------------------------------------------------------
(* What a label allows: strategy_for_five_state, position_scale_for_...    *)

Strategy(l) == IF l \in TrendStates THEN "trend_following"
               ELSE IF l \in RangeStates THEN "mean_reversion" ELSE "crisis_halt"

Scale(l) == CASE l \in {"stable_trend", "stable_range"} -> 100
              [] l = "high_vol_trend" -> HighVolScale
              [] l \in HaltStates -> 0
=============================================================================
