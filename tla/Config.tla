------------------------------- MODULE Config -------------------------------
(***************************************************************************)
(* What load_config (core/config.py) makes of settings.yaml and            *)
(* settings.local.yaml, and whether main.py starts and the connector       *)
(* connects with it.  A document is a tree: a mapping is a function on its *)
(* keys, a scalar or a list is a leaf that has its kind and its value.     *)
(***************************************************************************)
EXTENDS Integers, FiniteSets, SequencesExt, Ordering

CONSTANTS
    GroupNames          \* names groups may have, sorted, as the files list them

Leaf(kind, v) == [yaml |-> kind, value |-> v]
Null      == Leaf("null", {})
Flag(b)   == Leaf("flag", b)
Text(t)   == Leaf("text", t)
Number(n) == Leaf("number", n)
List(s)   == Leaf("list", s)
Missing   == Leaf("missing", {})        \* there is no such file
Nothing   == << >>                      \* the empty mapping
IsMapping(tree) == "yaml" \notin DOMAIN tree

\* what Python takes for true
Truth(tree) ==
    IF IsMapping(tree) THEN DOMAIN tree # {}
    ELSE CASE tree.yaml = "flag"   -> tree.value
           [] tree.yaml = "number" -> tree.value # 0
           [] tree.yaml = "text"   -> tree.value # ""
           [] tree.yaml = "list"   -> tree.value # << >>
           [] OTHER                -> FALSE

\* _deep_merge: mappings are merged key by key, all else is replaced.  The
\* settings nest three mappings at most: the document, a section (or
\* asset_groups) and a table in it (or a group)
MergeWith(Inner(_, _), base, override) ==
    [key \in DOMAIN base \union DOMAIN override |->
        IF key \notin DOMAIN override THEN base[key]
        ELSE IF key \notin DOMAIN base THEN override[key]
        ELSE IF IsMapping(base[key]) /\ IsMapping(override[key]) THEN Inner(base[key], override[key])
        ELSE override[key]]
Override(base, override)      == override
MergeTables(base, override)   == MergeWith(Override, base, override)
MergeSections(base, override) == MergeWith(MergeTables, base, override)
DeepMerge(base, override)     == MergeWith(MergeSections, base, override)

\* _load_yaml: no file and an empty one are the empty mapping, and another
\* kind of document raises
Readable(file) == IsMapping(file) \/ file.yaml \in {"missing", "null"}
LoadYaml(file) == IF IsMapping(file) THEN file ELSE Nothing

Section(doc, name) == IF name \in DOMAIN doc THEN doc[name] ELSE Nothing
Setting(section, key, default) == IF key \in DOMAIN section THEN section[key] ELSE default

-----------------------------------------------------------------------------
(* Symbols, groups and pairs                                               *)

\* _load_asset_groups, in the order of the file
AssetGroups(groups) ==
    LET Loaded(name) ==
            [name      |-> name,
             symbols   |-> Setting(groups[name], "symbols", List(<< >>)).value,
             tradeable |-> Truth(Setting(groups[name], "tradeable", Flag(TRUE))),
             lots      |-> Setting(groups[name], "lot_multiplier", Number(100)).value]
        names        == Keep(GroupNames, {i \in 1..Len(GroupNames) : GroupNames[i] \in DOMAIN groups})
    IN  [i \in 1..Len(names) |-> Loaded(names[i])]

Once(seq) == Keep(seq, {i \in 1..Len(seq) : \A j \in 1..i - 1 : seq[j] # seq[i]})

\* _symbols_from_asset_groups
SymbolsOfGroups(groups) == Once(FlattenSeq([i \in 1..Len(groups) |-> groups[i].symbols]))

\* _flatten_symbols: a list, or the three kinds one after the other
FlattenSymbols(symbols) ==
    IF ~IsMapping(symbols) THEN symbols.value
    ELSE Setting(symbols, "indices", List(<< >>)).value
         \o Setting(symbols, "commodities", List(<< >>)).value
         \o Setting(symbols, "forex", List(<< >>)).value

Members(groups, s) == {i \in 1..Len(groups) : s \in ToSet(groups[i].symbols)}

\* group_for_symbol: the first group that has the symbol.  One that is in none
\* is scanned, too, with its full lots (lot_multiplier_for, in percent)
NoGroup == [name |-> "ungrouped", symbols |-> << >>, tradeable |-> TRUE, lots |-> 100]
GroupForSymbol(groups, s) ==
    IF Members(groups, s) = {} THEN NoGroup
    ELSE groups[CHOOSE i \in Members(groups, s) : \A j \in Members(groups, s) : i <= j]

\* tradeable_symbols_all_groups
TradeableSymbols(groups, symbols) ==
    IF groups = << >> THEN symbols
    ELSE SymbolsOfGroups(Keep(groups, {i \in 1..Len(groups) : groups[i].tradeable}))

\* _validate_pairs_within_groups: of several groups the last one counts here
PairsWithinGroups(pairs, groups) ==
    LET LastHome(s) == CHOOSE i \in Members(groups, s) : \A j \in Members(groups, s) : i >= j
    IN  groups # << >> =>
            \A k \in 1..Len(pairs) :
                /\ Len(pairs[k]) = 2
                /\ \A s \in ToSet(pairs[k]) : Members(groups, s) # {}
                /\ LastHome(pairs[k][1]) = LastHome(pairs[k][2])

-----------------------------------------------------------------------------
(* What the sections must hold.  Each table lists the entries that int() or *)
(* float() converts; all others are taken as they are, by str(), which      *)
(* takes anything, or by bool(), for which an empty entry is a no.          *)

DataNumbers     == {"history_bars"}
FetchNumbers    == {"max_retries", "backoff_base", "min_completeness_ratio", "chunk_size",
                    "range_chunk_days"}
QualityNumbers  == {"price_jump_threshold", "missing_rate_warn_pct", "gap_multiplier",
                    "freshness_warn_seconds", "anomaly_rate_warn_pct", "api_error_rate_warn_pct"}
Mt5Numbers      == {"timeout_ms", "magic", "deviation"}
TradingNumbers  == {"trading_days_per_year", "default_lots"}
ProjectNumbers  == {"max_symbols", "min_backtest_sharpe", "max_backtest_drawdown_pct"}
StatsNumbers    == {"min_bars", "vol_window", "regime_vol_crisis", "regime_vol_bull_max",
                    "momentum_autocorr_threshold", "mean_reversion_autocorr_threshold"}
BacktestNumbers ==
    {"train_window", "test_window", "walk_forward_step", "min_walk_forward_rounds",
     "monte_carlo_simulations", "cost_perturbation_pct", "oos_train_ratio", "oos_val_ratio",
     "min_oos_ratio", "live_decay_factor", "hidden_cost_pct", "param_sensitivity_pct",
     "param_sensitivity_max_return_change", "strategies_tested", "min_mc_prob_positive",
     "gate_cache_max_age_hours"}
HedgingNumbers  ==
    {"hedge_instrument_beta", "retail_borrow_rate_annual", "trading_cost_annual_pct",
     "target_net_beta", "beta_neutral_tolerance", "min_beta_observations", "default_symbol_beta"}
DecisionNumbers == {"win_rate", "reward_risk_ratio", "risk_pct_per_trade", "min_confidence"}
ExecutionNumbers ==
    {"max_retries", "retry_backoff_seconds", "circuit_breaker_threshold", "latency_ms",
     "max_child_orders", "child_order_adv_fraction", "quote_max_age_seconds",
     "slippage_conservative_multiplier", "slippage_threshold_pct", "latency_warn_ms"}
AgentNumbers    == {"evolution_stage", "agent_timeout_seconds", "circuit_breaker_threshold"}
RegimeNumbers   ==
    {"crisis_vol_threshold", "crisis_correlation_threshold", "ranging_vol_max", "trending_adx_min",
     "trending_return_min", "ranging_adx_max", "confirm_days", "switch_cost_pct",
     "crisis_weight_amplify", "correlation_lookback", "gmm_min_samples", "probability_threshold",
     "adx_boundary_low", "adx_boundary_high", "post_switch_uncertain_days", "confirm_bars",
     "high_vol_trend_scale", "trend_lookback", "er_lookback", "vol_hist_window",
     "enter_trend_score", "enter_er_trend", "enter_vol_max_for_stable", "exit_trend_score",
     "exit_er_trend", "high_vol_enter", "stress_vol", "enter_range_abs_trend",
     "enter_er_range_max", "exit_range_abs_trend", "stress_corr", "stress_spread"}
ResilienceNumbers ==
    {"uncertain_prob_threshold", "clear_prob_threshold", "cautious_position_scale",
     "defensive_position_scale", "uncertain_position_scale", "max_switches_per_week",
     "min_regime_duration_days", "oscillation_lookback"}
PortfolioNumbers ==
    {"min_bars", "max_single_weight", "rebalance_threshold_pct", "max_notional_leverage",
     "max_risk_leverage", "correlation_penalty", "correlation_high_threshold"}
RotationNumbers ==
    {"max_active_groups", "max_symbols_concurrent", "min_group_weight", "max_group_weight",
     "migration_shift_threshold", "strength_power"}
OnlineNumbers   ==
    {"decay_factor", "learning_rate", "min_update_interval_days", "max_update_interval_days",
     "psi_threshold", "performance_drop_threshold", "ic_viability_threshold",
     "default_monthly_ic_decay", "dynamic_threshold_k", "signal_threshold_default",
     "accuracy_window", "accuracy_warning_threshold", "min_total_bars",
     "lifecycle_incubation_sharpe_min", "lifecycle_maturity_sharpe_min",
     "lifecycle_decay_sharpe_max", "correlation_crisis_threshold", "sliding_window_days",
     "retrain_interval_days"}
ResearchNumbers == {"temperature", "max_news_per_run", "sentiment_nudge_strength", "min_confidence"}
MlNumbers       ==
    {"label_horizon_bars", "label_threshold", "lookback", "n_splits", "min_train_samples",
     "ic_threshold", "ir_threshold", "ic_degrade_ratio", "rolling_ic_window", "min_feature_ic",
     "max_features", "signal_probability_threshold", "random_forest_estimators",
     "random_forest_max_depth", "random_state"}
CostNumbers     ==
    {"slippage_rate", "market_impact_Y", "slippage_k_linear", "slippage_k_sqrt",
     "default_adv_notional", "signal_decay_halflife_minutes", "execution_delay_minutes",
     "min_net_alpha_pct", "max_order_adv_ratio"}
RiskNumbers     ==
    {"max_total_exposure_pct", "max_single_position_pct", "max_symbol_exposure_pct",
     "max_sector_exposure_pct", "max_risk_per_trade_pct", "stop_loss_pct", "take_profit_pct",
     "trailing_stop_pct", "vol_stop_multiplier", "drawdown_warning_pct", "drawdown_stop_pct",
     "drawdown_circuit_pct", "drawdown_warning_scale", "circuit_breaker_cooldown_days",
     "circuit_breaker_target_exposure_pct"}
OpsNumbers      ==
    {"heartbeat_timeout_seconds", "network_latency_warn_ms", "cpu_warn_pct",
     "memory_critical_pct", "disk_free_warn_gb", "data_disconnect_seconds",
     "api_success_warn_pct", "agent_latency_warn_ms", "task_queue_warn_count",
     "daily_drawdown_warn_pct", "weekly_drawdown_critical_pct", "abnormal_trade_position_pct",
     "trade_frequency_deviation_x", "alert_suppress_seconds", "quiet_hours_start",
     "quiet_hours_end", "canary_initial_weight", "rollback_max_error_rate", "rollback_min_sharpe"}
IndicatorNumbers ==
    {"macd_fast", "macd_slow", "macd_signal", "rsi_period", "bb_period", "bb_std", "atr_period",
     "atr_stop_multiplier", "divergence_lookback", "signal_score_threshold", "risk_free_rate"}
StrategyNumbers == {"uncertain_position_scale", "pair_priority_strength"}
TrendNumbers    == {"ma_short", "ma_long", "adx_period", "adx_trend_threshold",
                    "adx_sideways_threshold", "adx_confirm_days", "ma_side_days"}
ReversionNumbers == {"rsi_oversold", "rsi_overbought", "bb_entry_low", "bb_entry_high"}
GridNumbers     == {"grid_step_pct", "num_grids", "max_loss_pct"}
PairNumbers     ==
    {"zscore_entry", "zscore_exit", "lookback", "beta_window", "beta_short_window",
     "beta_long_window", "max_half_life_bars", "weaken_half_life_mult", "max_beta_drift",
     "break_beta_drift", "max_abs_trend_slope", "break_abs_trend_slope", "min_zero_cross_rate",
     "vol_high_mult"}
SearchNumbers   ==
    {"min_trades_h1", "min_trades_m15", "min_wf_test_sharpe", "wf_sharpe_improvement",
     "max_mdd_pct", "mdd_worsen_tolerance_pct", "hard_stop_mdd_pct", "hard_stop_min_trades",
     "hard_stop_expected_live_pct", "hard_stop_mc_p5_pct", "hard_stop_oos_ratio",
     "overfit_is_sharpe", "overfit_wf_sharpe", "consecutive_hard_stop_limit",
     "tier_b_min_gate_passes", "tier_b_mc_prob_positive", "tier_b_mc_p5_pct",
     "tier_b_wf_positive_pct", "baseline_wf_sharpe_stop_delta", "min_expected_live_pct"}
IntelligenceNumbers == {"maker_candidates", "max_retries"}
ResidentNumbers == {"poll_seconds", "review_weekday", "review_hour_utc", "sharpe_degrade_trigger"}

\* the sections with the entries that must be numbers, and those that may be left empty
Required ==
    [broker |-> {}, logging |-> {}, trade_log |-> {}, storage |-> {},
     mt5 |-> Mt5Numbers, data |-> DataNumbers, fetch |-> FetchNumbers, quality |-> QualityNumbers,
     trading |-> TradingNumbers, project |-> ProjectNumbers, stats |-> StatsNumbers,
     backtest |-> BacktestNumbers, hedging |-> HedgingNumbers, decision |-> DecisionNumbers,
     execution |-> ExecutionNumbers, multi_agent |-> AgentNumbers, regime |-> RegimeNumbers,
     resilience |-> ResilienceNumbers, portfolio |-> PortfolioNumbers,
     asset_rotation |-> RotationNumbers, online_learning |-> OnlineNumbers,
     llm_research |-> ResearchNumbers, ml |-> MlNumbers, costs |-> CostNumbers,
     risk |-> RiskNumbers, ops |-> OpsNumbers, indicators |-> IndicatorNumbers,
     strategies |-> StrategyNumbers, trend |-> TrendNumbers, mean_reversion |-> ReversionNumbers,
     grid |-> GridNumbers, pairs_trading |-> PairNumbers, loop_engineering |-> SearchNumbers,
     intelligence |-> IntelligenceNumbers, loop |-> ResidentNumbers]
Optional ==
    [trading  |-> {"trades_per_day"},
     backtest |-> {"round_trip_cost_pct"},
     decision |-> {"fallback_lots", "trade_wins", "trade_losses", "avg_win_pct", "avg_loss_pct"}]
Parent ==
    [storage |-> "data", fetch |-> "data", quality |-> "data", loop |-> "intelligence",
     trend |-> "strategies", mean_reversion |-> "strategies", grid |-> "strategies",
     pairs_trading |-> "strategies"]
Within(doc, name) ==
    IF name \in DOMAIN Parent THEN Section(Section(doc, Parent[name]), name) ELSE Section(doc, name)

\* int() and float() take a yes for 1, and no other scalar that is no number
IsNumber(tree)   == ~IsMapping(tree) /\ tree.yaml \in {"number", "flag"}
IsNumbers(tree)  == IsMapping(tree) /\ \A key \in DOMAIN tree : IsNumber(tree[key])
IsSequence(tree) == ~IsMapping(tree) /\ tree.yaml = "list"
IsNull(tree)     == ~IsMapping(tree) /\ tree.yaml = "null"
IsEmpty(tree)    == ~Truth(tree)
Entry(doc, name, key, default) == Setting(Within(doc, name), key, default)

NumbersAreNumbers(doc) ==
    /\ \A name \in DOMAIN Required : \A key \in Required[name] :
          IsNumber(Entry(doc, name, key, Number(1)))
    /\ \A name \in DOMAIN Optional : \A key \in Optional[name] :
          LET entry == Entry(doc, name, key, Null) IN IsNull(entry) \/ IsNumber(entry)
    /\ LET years == Entry(doc, "data", "history_years", Null) IN IsEmpty(years) \/ IsNumber(years)

\* lists must be lists, and tables tables of numbers; some of them may be left
\* empty.  (A text in place of a list, which Python would take letter by
\* letter, is not considered.)
ListsAreLists(doc) ==
    /\ LET frames == Entry(doc, "data", "timeframes", Null) IN IsEmpty(frames) \/ IsSequence(frames)
    /\ LET bars   == Entry(doc, "data", "history_bars_by_timeframe", Null) IN IsEmpty(bars) \/ IsNumbers(bars)
    /\ LET limits == Entry(doc, "portfolio", "factor_limits", Null) IN IsEmpty(limits) \/ IsNumbers(limits)
    /\ IsSequence(Entry(doc, "stats", "autocorr_lags", List(<< >>)))
    /\ IsSequence(Entry(doc, "strategies", "pairs", List(<< >>)))
    /\ LET symbols == Section(doc, "symbols")
       IN  \/ IsSequence(symbols)
           \/ /\ IsMapping(symbols)
              /\ \A kind \in {"indices", "commodities", "forex"} \intersect DOMAIN symbols :
                     IsSequence(symbols[kind])
    /\ LET groups == Section(doc, "asset_groups")
       IN  \/ IsEmpty(groups)
           \/ /\ IsMapping(groups)
              /\ \A name \in DOMAIN groups :
                    /\ IsMapping(groups[name])
                    /\ IsSequence(Setting(groups[name], "symbols", List(<< >>)))
                    /\ IsNumber(Setting(groups[name], "lot_multiplier", Number(100)))

-----------------------------------------------------------------------------
(* load_config                                                             *)

\* a section that is no mapping raises, an empty one as well
Shaped(doc) ==
    /\ \A name \in DOMAIN Required \ DOMAIN Parent : IsMapping(Section(doc, name))
    /\ \A name \in DOMAIN Parent : IsMapping(Within(doc, name))
    /\ NumbersAreNumbers(doc) /\ ListsAreLists(doc)

\* MultiAgentConfig, AssetRotationConfig, MT5Config and _resolve_trading_config
ArbitrationMode(doc) ==
    Setting(Section(doc, "multi_agent"), "arbitration_mode", Text("veto")).value

Rotation(doc) ==
    LET Say(key, default) == Setting(Section(doc, "asset_rotation"), key, default)
    IN  [enabled    |-> Truth(Say("enabled", Flag(TRUE))),
         multi      |-> Truth(Say("multi_group_enabled", Flag(TRUE))),
         maxGroups  |-> Say("max_active_groups", Number(5)).value,
         maxSymbols |-> Say("max_symbols_concurrent", Number(8)).value,
         migrates   |-> Truth(Say("migration_enabled", Flag(TRUE))),
         minWeight  |-> Say("min_group_weight", Number(5)).value,
         maxWeight  |-> Say("max_group_weight", Number(50)).value,
         expand     |-> Truth(Say("expand_scan_to_all_groups", Flag(TRUE)))]

RequireDemo(doc) == Truth(Setting(Section(doc, "mt5"), "require_demo", Flag(TRUE)))
DryRun(doc)      == Truth(Setting(Section(doc, "trading"), "dry_run", Flag(TRUE)))
StageOf(doc)       == Setting(Section(doc, "project"), "graduation_stage", Text("paper")).value
AccountType(doc) == Setting(Section(doc, "broker"), "account_type", Text("demo")).value

GroupsIn(doc)  == LET groups == Section(doc, "asset_groups")
                IN  IF IsMapping(groups) THEN AssetGroups(groups) ELSE << >>
SymbolsIn(doc) == IF GroupsIn(doc) # << >> THEN SymbolsOfGroups(GroupsIn(doc))
                 ELSE FlattenSymbols(Section(doc, "symbols"))
PairsIn(doc) == Setting(Section(doc, "strategies"), "pairs", List(<< >>)).value

\* the documents load_config takes; all others raise
Valid(doc) ==
    /\ Shaped(doc)
    /\ Len(SymbolsIn(doc)) <= Setting(Section(doc, "project"), "max_symbols", Number(12)).value
    /\ PairsWithinGroups(PairsIn(doc), GroupsIn(doc))

AppConfig(doc) ==
    [groups |-> GroupsIn(doc), symbols |-> SymbolsIn(doc), pairs |-> PairsIn(doc),
     mode |-> ArbitrationMode(doc), rotation |-> Rotation(doc),
     cost |-> [enabled |-> Truth(Setting(Section(doc, "costs"), "enabled", Flag(TRUE))),
               blocks  |-> Truth(Setting(Section(doc, "costs"), "block_untradable", Flag(TRUE)))],
     pairPriority |-> Setting(Section(doc, "strategies"), "pair_priority_strength", Number(11)).value,
     stage |-> StageOf(doc), dryRun |-> DryRun(doc),
     accountType |-> AccountType(doc), requireDemo |-> RequireDemo(doc)]

\* load_config: the base file must exist, the local one need not
Merged(files) == DeepMerge(LoadYaml(files.base), LoadYaml(files.local))
Loads(files) == /\ files.base # Missing /\ Readable(files.base) /\ Readable(files.local)
                /\ Valid(Merged(files))
LoadConfig(files) == AppConfig(Merged(files))

-----------------------------------------------------------------------------
(* What is asked of the settings before anything is traded                 *)

\* _validate_stage: other stages, and misspelled ones, are not looked at
ValidateStageNotPaper(c) ==
    c.stage = "demo_live" => ~c.dryRun /\ c.accountType = "demo" /\ c.requireDemo

ValidateStage(c) ==
    /\ c.stage = "paper" => c.dryRun
    /\ c.stage = "demo_live" => ~c.dryRun /\ c.accountType = "demo" /\ c.requireDemo

\* is_demo_account and _assert_demo_account, which connect() asks
IsDemoAccount(account) == account.demoMode \/ account.demoServer
MayConnect(c, account) == (c.requireDemo \/ c.accountType = "demo") => IsDemoAccount(account)

\* resolve_scan_symbols
ScanSymbols(c, requested) ==
    LET universe == TradeableSymbols(c.groups, c.symbols)
    IN  IF c.rotation.enabled /\ c.rotation.multi /\ c.rotation.expand /\ universe # << >>
        THEN universe
        ELSE IF requested # << >> THEN requested ELSE c.symbols
=============================================================================
