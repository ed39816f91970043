---------------------------- MODULE Degradation ----------------------------
(***************************************************************************)
(* How far a run of the pipeline scales down because regimes are unsure   *)
(* or switch too often.  An assessment is a record: the confirmed label,  *)
(* its probability in percent, whether a switch is pending, and what the  *)
(* history of the symbol says: switches and the days they are spread over. *)
(* Scales are in percent.                                                  *)
(***************************************************************************)
EXTENDS Integers, FiniteSetsExt

CONSTANTS
    ClearProb, UncertainProb,       \* clear_prob_threshold, uncertain_prob_threshold
    MaxSwitchesPerWeek, MinRegimeDays,
    CautiousScale, DefensiveScale, UncertainScale, HighVolTrendScale,
    ResilienceEnabled

ASSUME DegradationAssumption ==
    /\ {ClearProb, UncertainProb, CautiousScale, DefensiveScale, UncertainScale,
        HighVolTrendScale} \subseteq 0..100
    /\ UncertainProb <= ClearProb /\ DefensiveScale <= CautiousScale
    /\ MaxSwitchesPerWeek \in Nat /\ MinRegimeDays \in Nat /\ ResilienceEnabled \in BOOLEAN

Normal == 0
Cautious == 1
Defensive == 2
Safe == 3

\* strategy_for_five_state and position_scale_for_five_state
SelectedStrategy(label) ==
    CASE label \in {"stable_trend", "high_vol_trend"} -> "trend_following"
      [] label = "stable_range"                       -> "mean_reversion"
      [] OTHER                                        -> "crisis_halt"
LabelScale(label) ==
    CASE label \in {"stable_trend", "stable_range"} -> 100
      [] label = "high_vol_trend"                   -> HighVolTrendScale
      [] OTHER                                      -> 0

Uncertain(a) == a.label = "uncertain" \/ a.pending

\* assess_regime_health: switches per week over at least a week, the mean
\* length of a regime, and a label nobody is sure of
OftenSwitched(a) == 7 * a.switches > MaxSwitchesPerWeek * Max({a.span, 7})
ShortLived(a)    == a.switches > 0 /\ a.span < MinRegimeDays * a.switches
Unhealthy(a)     == OftenSwitched(a) \/ ShortLived(a) \/ a.prob < UncertainProb

UnhealthyWhenOften(a) == OftenSwitched(a) /\ ~ShortLived(a)

\* determine_degradation_level; no caller passes data of bad quality, so no
\* assessment is at the level Safe
LevelOf(a) ==
    IF Uncertain(a) \/ Unhealthy(a) THEN Defensive
    ELSE IF a.prob >= ClearProb THEN Normal
    ELSE IF a.prob >= UncertainProb THEN Cautious ELSE Defensive

\* assess: what a run keeps of an assessment
Assessed(a) == [label |-> a.label, uncertain |-> Uncertain(a), level |-> LevelOf(a)]

\* _scale_map
Multiplier == [level \in Normal..Safe |-> CASE level = Normal    -> 100
                                            [] level = Cautious  -> CautiousScale
                                            [] level = Defensive -> DefensiveScale
                                            [] level = Safe      -> 0]

\* apply_degradation: what is left of the size of a label, when the worst
\* assessment of the run, the market proxy's among them, is of that level
PositionScale(label, uncertain, level) ==
    LET run == (LabelScale(label) * Multiplier[level]) \div 100
    IN  IF ~ResilienceEnabled THEN LabelScale(label)
        ELSE IF level = Safe THEN 0
        ELSE IF uncertain THEN (run * UncertainScale) \div 100 ELSE run
=============================================================================
