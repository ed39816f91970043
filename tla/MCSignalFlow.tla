---------------------------- MODULE MCSignalFlow ----------------------------
(***************************************************************************)
(* Three symbols, of which two pairs share one where all are of one group; *)
(* other settings files have two groups, one not to be traded, a symbol of *)
(* two groups, or none.                                                    *)
(***************************************************************************)
EXTENDS SignalFlow

MCGroupNames == <<"g1", "g2", "ungrouped">>
Group(symbols) == [symbols |-> List(symbols)]
\* what all files have in common
MCStrategies(pairs) == [pairs |-> List(pairs), pair_priority_strength |-> Number(11)]
MCRotation == [max_active_groups |-> Number(1), max_symbols_concurrent |-> Number(3)]
MCBase(groups, pairs) ==
    [asset_groups |-> groups, strategies |-> MCStrategies(pairs), asset_rotation |-> MCRotation,
     project |-> [graduation_stage |-> Text("demo_live"), max_symbols |-> Number(3)],
     trading |-> [dry_run |-> Flag(FALSE)]]
MCMode(mode) == [multi_agent |-> [arbitration_mode |-> Text(mode)]]
MCSetup(base, local) == [base |-> base, local |-> local, requested |-> << >>]
\* all symbols of one group; c, at half lots, of another one; a of both
MCOneGroup  == MCBase([g1 |-> Group(<<"a", "b", "c">>)], << <<"a", "b">>, <<"b", "c">> >>)
MCTwoGroups == MCBase([g1 |-> Group(<<"a", "b">>),
                       g2 |-> [symbols |-> List(<<"c">>), lot_multiplier |-> Number(50)]],
                      << <<"a", "b">> >>)
MCShared    == MCBase([g1 |-> Group(<<"a">>), g2 |-> Group(<<"a", "b">>)], << <<"a", "b">> >>)
MCSetups ==
    [one     |-> MCSetup(MCOneGroup, Missing),
     rank    |-> MCSetup(MCOneGroup, MCMode("hierarchy")),
     ballot  |-> MCSetup(MCShared, MCMode("voting")),
     two     |-> MCSetup(MCTwoGroups, Null),
     barred  |-> MCSetup(MCTwoGroups, [asset_groups |-> [g2 |-> [tradeable |-> Flag(FALSE)]]]),
     shared  |-> MCSetup(MCShared, Missing),
     \* no groups, no rotation, and asked for a symbol that the file does not name
     plain   |-> [MCSetup([symbols |-> [forex |-> List(<<"a", "b">>)],
                           strategies |-> MCStrategies(<< <<"a", "b">> >>)],
                          [asset_rotation |-> [enabled |-> Flag(FALSE)]])
                      EXCEPT !.requested = <<"b", "c">>],
     asked   |-> [MCSetup(MCOneGroup, [asset_rotation |-> [expand_scan_to_all_groups |-> Flag(FALSE)],
                                          costs |-> [block_untradable |-> Null]])
                      EXCEPT !.requested = <<"b">>],
     \* real money, and an empty entry that counts as a no
     real    |-> MCSetup(MCShared, [broker |-> [account_type |-> Text("live")],
                                       mt5 |-> [require_demo |-> Null],
                                       project |-> [graduation_stage |-> Text("small_live")],
                                       strategies |-> [pairs |-> List(<< >>)],
                                       costs |-> [enabled |-> Flag(FALSE)]]),
     \* these do not start, or do not load
     paper   |-> MCSetup(MCTwoGroups, [project |-> [graduation_stage |-> Text("paper")]]),
     across  |-> MCSetup(MCTwoGroups, [strategies |-> MCStrategies(<< <<"b", "c">> >>)]),
     many    |-> MCSetup(MCOneGroup, [project |-> [max_symbols |-> Number(2)]]),
     limit   |-> MCSetup(MCOneGroup, [risk |-> [max_total_exposure_pct |-> Null]]),
     nested  |-> MCSetup(MCOneGroup, [strategies |-> [pairs_trading |-> Text("off")]]),
     emptied |-> MCSetup(MCOneGroup, [trading |-> Null]),
     text    |-> MCSetup(MCOneGroup, Text("dry_run")),
     none    |-> MCSetup(Missing, MCTwoGroups)]
\* as shipped: veto, pairs that share a symbol, and room for eight entries
MCShipped == [shipped |-> MCSetup(MCOneGroup,
                                  [asset_rotation |-> [max_symbols_concurrent |-> Number(8)]])]
MCLogins == [demoMode : BOOLEAN, demoServer : {FALSE}]
Sure(label)    == [label |-> label, prob |-> 80, pending |-> FALSE, switches |-> 1, span |-> 30]
Pending(label) == [Sure(label) EXCEPT !.pending = TRUE]
MCAssessments == [t \in {"a", "b", "c", "market"} |->
    CASE t = "b"      -> {Sure("stress"), Pending("stable_trend")}
      [] t = "market" -> {[Sure("stable_range") EXCEPT !.prob = 60]}
      [] OTHER        -> {Sure("stable_range")}]
MCOffers == [trend |-> {<<"buy", 14>>}, reversion |-> {<<"sell", 8>>}, grid |-> {<<"buy", 8>>},
             ml |-> {<<"sell", 14, 16, -2000>>}]
\* only pairs are signalled
MCNoOffers == [g \in DOMAIN MCOffers |-> {}]
MCMeasures == { [phi |-> 2, halfLife |-> 5, drift |-> 1, trend |-> 0, cross |-> 2, vol |-> 1] }
\* phi in fifths, and the half-life it means in bars: 0.2, 0.4, 0.6, 0.8
MCHalfLife == <<4, 9, 16, 31>>
MCSpreads == {[phi |-> phi, halfLife |-> HalfLifeOf(phi, MCHalfLife), drift |-> drift,
               trend |-> trend, cross |-> cross, vol |-> vol] :
              phi \in {0, 2, 4, 5}, drift \in {1, 2, 4}, trend \in {0, 2, 4}, cross \in {0, 2, 4},
              vol \in 0..1}
MCZScores == {-9, 0, 16}
MCVols == { [s \in {"a", "b", "c"} |-> 1], [s \in {"a", "b", "c"} |-> IF s = "a" THEN 1 ELSE 4] }
MCPrevious == {<<>>, [g1 |-> 10, g2 |-> 50]}
MCQuotes == {[spread |-> 200, sigma |-> sigma, commission |-> 0, part |-> 1] : sigma \in {1500, 6000}}
MCQuoteGrid == [spread : {0, 300}, sigma : {500, 2000, 8000}, commission : {0, 100},
                part : {1, 100, 400, 600}]
MCAccounts == {[equity |-> 0, exposure |-> 0], [equity |-> 10000, exposure |-> 55]}
MCInstrument == [s \in {"a", "b", "c"} |->
    [price |-> 10, contract |-> 10, atr |-> IF s = "a" THEN 100 ELSE 0,
     sigma |-> IF s = "c" THEN 0 ELSE 5, least |-> 10, most |-> 5000, step |-> 10]]
MCTrades == [count |-> 0, lower |-> 50, odds |-> 15]
MCConditions == [label : {"stable_trend", "high_vol_trend"}, prob : {40, 60, 80},
                 pending : BOOLEAN, switches : {0, 1, 4}, span : {7, 30}]
\* the registry of a build in which c had too few bars, of the right age and too old
MCRegistry == Build(<<"a", "b", "c">>, [s \in {"a", "b", "c"} |-> IF s = "b" THEN {"feature_score"} ELSE Rated],
                    {"c"})
MCFile == [readable |-> TRUE, wellFormed |-> TRUE, timeframe |-> "D1", age |-> 1,
           entries |-> MCRegistry]
MCGateFiles == {MCFile, [MCFile EXCEPT !.age = 30]}
MCGatePassed == {[s \in {"a", "b", "c"} |-> Rated]}
=============================================================================
