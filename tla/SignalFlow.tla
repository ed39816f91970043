----------------------------- MODULE SignalFlow -----------------------------
(***************************************************************************)
(* One run of the pipeline from the analysis of all symbols to the orders *)
(* it asks for: the analysis agents in a pool of threads with the circuit *)
(* of every agent, the degradation by unsure regimes, the gate registry,  *)
(* the scan of symbols and pairs, the arbitrations, the choice among      *)
(* asset groups, sizing, and the gate every leg passes before it is       *)
(* handed to execution (which PairExecution models).                      *)
(***************************************************************************)
EXTENDS Config, PairHealth, Degradation, Sizing, TradeCost, GateRegistry, Functions

CONSTANTS
    Setups,             \* settings files, and the symbols the run is asked for
    Logins,             \* accounts the terminal may be logged in to
    Assessments,        \* Assessments[s]: how symbol s, and "market", may be assessed
    Offers,             \* Offers[g]: what generator g may signal
    Measures,           \* what may be measured on the spread of a pair
    Spreads,            \* measurements to compare with each other
    ZScores, ZEntry,
    Workers,            \* threads of the pool; 1 is the serial analysis
    Threshold,          \* circuit_breaker_threshold of the agents
    Vols,               \* volatilities the optimizer may find: functions on symbols
    Previous,           \* group weights earlier runs may have left, in percent
    MaxRisk,            \* volatility at max_risk_leverage, in tenths of the unit of Vols
    MaxSingleWeight,
    ApplyThreshold,     \* apply_dynamic_threshold
    Accounts,           \* equity and exposure the run may find
    Quotes,             \* spread, volatility and size an order may have
    GateFiles,          \* what gate_cache_path may hold
    GatePassed,         \* what a symbol's backtests may pass, when they are run
    Conditions, QuoteGrid,  \* assessments and quotes to compare with each other
    FaultBound          \* calls that raise or hang, per run

VARIABLES
    phase,      \* where MetaAgent.run is
    setup,      \* the settings files of this run
    login,      \* the account the terminal is logged in to
    queue,      \* tasks of the analysis not yet started
    flying,     \* tasks in a thread of the pool
    regime,     \* regime_map: label and uncertain, None where there is no assessment
    level,      \* degradation_level: the worst of the assessments so far
    failures,   \* _failures
    opened,     \* _circuit_open
    late,       \* the wait for research or market has timed out
    blocked,    \* <<symbol, strategy>> pairs that failed the quality gate
    cursor,     \* position of the scan
    signals,    \* the signals that are left
    account,    \* equity and exposure the signals were sized for
    jobs,       \* what the partition of the signals left to do
    ready,      \* legs of the current job that passed the gate
    sent,       \* legs handed to execution, with their job
    faults

vars == <<phase, setup, login, queue, flying, regime, level, failures, opened, late, blocked,
          cursor, signals, account, jobs, ready, sent, faults>>

Loaded  == [n \in {m \in DOMAIN Setups : Loads(Setups[m])} |-> LoadConfig(Setups[n])]
Scans   == [n \in DOMAIN Loaded |-> ScanSymbols(Loaded[n], Setups[n].requested)]
config  == Loaded[setup]
scan    == Scans[setup]
NamedIn(c) == ToSet(c.symbols) \union UNION {ToSet(p) : p \in ToSet(c.pairs)}
Symbols == UNION {NamedIn(Loaded[n]) \union ToSet(Setups[n].requested) : n \in DOMAIN Loaded}

\* what load_config leaves to whoever writes the settings: lists of symbols and
\* of pairs are such lists, a limit is a number, a pair has two symbols, which is
\* only asked where there are groups, and no pair is listed twice.  Groups have
\* different names, as keys of a mapping
ASSUME SignalFlowAssumption ==
    /\ Workers \in Nat \ {0} /\ Threshold \in Nat \ {0} /\ FaultBound \in Nat
    /\ GroupNames \in Seq(ToSet(GroupNames))
    /\ \A i, j \in 1..Len(GroupNames) : GroupNames[i] = GroupNames[j] => i = j
    /\ \A n \in DOMAIN Loaded :
          /\ Loaded[n].symbols \in Seq(Symbols) /\ Setups[n].requested \in Seq(Symbols)
          /\ \A g \in ToSet(Loaded[n].groups) : g.symbols \in Seq(Symbols)
          /\ Loaded[n].pairs \in Seq(Seq(Symbols))
          /\ \A i \in 1..Len(Loaded[n].pairs) : Len(Loaded[n].pairs[i]) = 2
          /\ \A i, j \in 1..Len(Loaded[n].pairs) : Loaded[n].pairs[i] = Loaded[n].pairs[j] => i = j
          /\ Loaded[n].rotation.maxSymbols \in Int

\* what is compared with each other: spreads whose phi could be estimated, with the
\* half-life it means (estimate_half_life); numbers elsewhere, and a positive z_entry
ASSUME GradesAssumption ==
    /\ None \notin Int /\ ZScores \subseteq Int /\ ZEntry \in Nat \ {0}
    /\ \A m \in Spreads : /\ {m.phi, m.drift, m.trend, m.cross, m.vol} \subseteq Int
                         /\ IF m.phi <= 0 \/ m.phi >= UnitRoot THEN m.halfLife = None
                            ELSE m.halfLife \in Nat
    /\ \A m, n \in Spreads :
          m.halfLife # None /\ n.halfLife # None /\ n.phi >= m.phi => n.halfLife >= m.halfLife
    /\ \A a \in Conditions : {a.prob, a.switches, a.span} \subseteq Nat /\ a.pending \in BOOLEAN
    /\ \A q \in QuoteGrid : {q.spread, q.sigma, q.commission, q.part} \subseteq Nat

\* the numbers that sizes are made of: an instrument for each symbol, volatilities,
\* which are never zero (inverse_volatility_weights), no signal, account or group
\* weight below zero, and numbers for the limits of the groups
ASSUME SizesAssumption ==
    /\ Symbols \subseteq DOMAIN Instrument
    /\ \A g \in {"trend", "reversion", "grid", "ml"} : \A o \in Offers[g] : o[2] \in Nat
    /\ \A o \in Offers["ml"] : o[3] \in Nat
    /\ \A vol \in Vols : \A s \in Symbols : vol[s] \in Nat \ {0}
    /\ \A weight \in Previous : \A g \in DOMAIN weight : weight[g] \in Nat
    /\ MaxRisk \in Nat /\ MaxSingleWeight \in Nat \ {0}
    /\ \A acct \in Accounts : acct.equity \in Nat /\ acct.exposure \in Nat
    /\ \A n \in DOMAIN Loaded :
          /\ {Loaded[n].rotation.minWeight, Loaded[n].rotation.maxWeight} \subseteq Nat
          /\ \A g \in ToSet(Loaded[n].groups) : g.lots \in Int

Homes   == [n \in DOMAIN Loaded |-> [s \in Symbols |-> GroupForSymbol(Loaded[n].groups, s)]]
Home(s) == Homes[setup][s]
Agents  == {"Research", "Regime", "Risk", "Cost"}
Tasks   == {"research", "market"} \union Symbols
AgentOf(t) == IF t = "research" THEN "Research" ELSE "Regime"

LabelOf(s) == IF regime[s] = None THEN None ELSE regime[s].label
\* the position scale of a symbol, which is not degraded where nothing was assessed
ScaleOf(s) == IF regime[s] = None THEN 100
              ELSE PositionScale(regime[s].label, regime[s].uncertain, level)
Halted(s) == regime[s] # None /\ (SelectedStrategy(LabelOf(s)) = "crisis_halt" \/ ScaleOf(s) = 0)

NoPair == <<>>
IsPairLeg(sig) == sig.pair # NoPair
Opposite(side) == IF side = "buy" THEN "sell" ELSE "buy"
\* the edge is predicted_return, in millionths
Single(s, side, strength, conf, edge, strategy) ==
    [symbol |-> s, side |-> side, strength |-> strength, conf |-> conf, edge |-> edge,
     weight |-> None, strategy |-> strategy, pair |-> NoPair]
PairLegs(p, side, strength) ==
    LET Half(s, own) == [Single(s, own, strength, strength, 500 * strength, "pairs") EXCEPT !.pair = p]
    IN  << Half(p[1], side), Half(p[2], Opposite(side)) >>

NoAccount == [equity |-> 0, exposure |-> 0]

\* main.py loads the settings, asks for the stage, and connects
Init ==
    /\ phase = "analysis"
    /\ setup \in {n \in DOMAIN Loaded : ValidateStage(Loaded[n])}
    /\ login \in Logins /\ MayConnect(config, login)
    /\ queue = <<"research", "market">> \o scan
    /\ flying = {} /\ regime = [s \in Symbols |-> None] /\ level = Normal
    /\ failures = [a \in Agents |-> 0] /\ opened = {}
    /\ late = FALSE /\ blocked = {} /\ cursor = 1
    /\ signals = <<>> /\ account = NoAccount /\ jobs = <<>> /\ ready = <<>> /\ sent = {}
    /\ faults = 0

-----------------------------------------------------------------------------
\* _safe_call: an open circuit skips the call; a call that raises counts, and
\* as many in a row as the threshold open the circuit for the rest of the run

Skipped(a) == a \in opened
CallOk(a) ==
    /\ a \notin opened
    /\ failures' = [failures EXCEPT ![a] = 0]
    /\ UNCHANGED <<opened, faults>>
CallRaises(a) ==
    /\ a \notin opened /\ faults < FaultBound
    /\ faults' = faults + 1
    /\ failures' = [failures EXCEPT ![a] = @ + 1]
    /\ opened' = IF failures'[a] >= Threshold THEN opened \union {a} ELSE opened
CallSkipped(a) ==
    /\ a \in opened
    /\ UNCHANGED <<failures, opened, faults>>
\* the caller carries on with the default
CallDefaults(a) == CallRaises(a) \/ CallSkipped(a)

-----------------------------------------------------------------------------
\* The analysis: tasks start in the order they were submitted and end in any

analysing == <<phase, setup, login, blocked, cursor, signals, account, jobs, ready, sent>>

\* a thread takes the next task; whether the circuit is open is asked now
StartTask ==
    /\ phase = "analysis" /\ queue # <<>> /\ Cardinality(flying) < Workers
    /\ queue' = Tail(queue)
    /\ flying' = IF Skipped(AgentOf(Head(queue))) THEN flying ELSE flying \union {Head(queue)}
    /\ UNCHANGED <<regime, level, failures, opened, late, faults, analysing>>

\* the agent answers; with too few bars there is no assessment.  The market
\* proxy is not in the map, but what it is assessed at counts for the run.  A
\* call that was under way when the circuit was opened still counts
EndTask(t) ==
    /\ t \in flying
    /\ flying' = flying \ {t}
    /\ failures' = [failures EXCEPT ![AgentOf(t)] = 0]
    /\ IF t = "research" THEN UNCHANGED <<regime, level>>
       ELSE \/ UNCHANGED <<regime, level>>
            \/ \E a \in {Assessed(x) : x \in Assessments[t]} :
                 /\ level' = Max({level, a.level})
                 /\ regime' = IF t = "market" THEN regime
                              ELSE [regime EXCEPT ![t] = [label |-> a.label,
                                                          uncertain |-> a.uncertain]]
    /\ UNCHANGED <<queue, opened, late, faults, analysing>>

TaskRaises(t) ==
    /\ t \in flying /\ faults < FaultBound
    /\ flying' = flying \ {t}
    /\ faults' = faults + 1
    /\ failures' = [failures EXCEPT ![AgentOf(t)] = @ + 1]
    /\ opened' = IF failures'[AgentOf(t)] >= Threshold
                 THEN opened \union {AgentOf(t)} ELSE opened
    /\ UNCHANGED <<queue, regime, level, late, analysing>>

\* result(timeout) of research or market raises; leaving the pool waits for
\* every task, started or not
WaitTimesOut ==
    /\ phase = "analysis" /\ ~late /\ faults < FaultBound /\ Workers > 1
    /\ flying \intersect {"research", "market"} # {}
    /\ late' = TRUE /\ faults' = faults + 1
    /\ UNCHANGED <<queue, flying, regime, level, failures, opened, analysing>>

\* the pool is empty: the timeout leaves run, or the account is assessed.  The
\* circuits of research and regimes are not asked again, and are forgotten
EndAnalysis ==
    /\ phase = "analysis" /\ queue = <<>> /\ flying = {}
    /\ phase' = IF late THEN "failed" ELSE "gate"
    /\ \/ ~late /\ faults < FaultBound /\ faults' = faults + 1
          /\ failures' = [a \in Agents |-> IF a = "Risk" THEN 1 ELSE 0]
          /\ opened' = IF Threshold = 1 THEN {"Risk"} ELSE {}
       \/ /\ failures' = [a \in Agents |-> 0] /\ opened' = {}
          /\ UNCHANGED faults
    /\ UNCHANGED <<setup, login, queue, flying, regime, level, late, blocked, cursor, signals,
                   account, jobs, ready, sent>>

-----------------------------------------------------------------------------
\* The gate registry and the scan

settled == <<setup, login, queue, flying, regime, level, late, account, sent, jobs, ready>>

\* _resolve_gate_registry.  Building it assesses each symbol's backtests
LoadGates ==
    /\ phase = "gate" /\ phase' = "scan"
    /\ \/ /\ \E file \in GateFiles, passed \in GatePassed, short \in SUBSET Symbols :
               blocked' = Refused(LoadOrBuild(file, IF BuildOnMiss
                                                    THEN Build(scan, passed, short)
                                                    ELSE NoEntries))
          /\ UNCHANGED faults
       \/ /\ BuildOnMiss /\ faults < FaultBound /\ faults' = faults + 1
          /\ blocked' = {}
    /\ UNCHANGED <<failures, opened, cursor, signals, settled>>

\* allows: a symbol or a strategy that is not listed is let through
Allowed(s, strategy) == <<s, strategy>> \notin blocked

\* an answer is added unless it is a _duplicate: same symbol and side
AddNew(sigs, answer) ==
    IF \E i \in 1..Len(sigs) : \E sig \in ToSet(answer) :
          sigs[i].symbol = sig.symbol /\ sigs[i].side = sig.side
    THEN sigs ELSE sigs \o answer

Chosen(s) == IF regime[s] = None THEN "crisis_halt" ELSE SelectedStrategy(LabelOf(s))
Routed(s) == Chosen(s) \in {"trend_following", "mean_reversion"}

\* what an agent answers when it is asked: nothing, or one of its signals
Answers(asked, answers) == {<<>>} \union {<<sig>> : sig \in IF asked THEN answers ELSE {}}

\* _apply_regime_weight: strength and confidence are multiplied by the scale,
\* by which the risk review will multiply the lots once more; what is left is
\* kept when it is more than a twentieth
Weighted(s, offer, strategy) ==
    LET left == (offer[2] * ScaleOf(s)) \div 100
    IN  Single(s, offer[1], left, left, 500 * offer[2], strategy)
RegimeAgent(s, strategy, generator) ==
    Answers(Chosen(s) = strategy /\ Allowed(s, strategy),
            {sig \in {Weighted(s, o, strategy) : o \in Offers[generator]} : sig.strength > 1})
TrendAgent(s)         == RegimeAgent(s, "trend_following", "trend")
MeanReversionAgent(s) == RegimeAgent(s, "mean_reversion", "reversion")
\* the grid is barred by another regime, not by a missing one
Grid(s) ==
    Answers(~Halted(s) /\ (regime[s] = None \/ Chosen(s) = "mean_reversion"),
            {Single(s, o[1], o[2], o[2] \div 2, 250 * o[2], "grid_dry_run") : o \in Offers["grid"]})
\* the score of the model is above a half for buys and below for sells, and
\* its distance from a half is the edge: a sell has a negative one
MlAgent(s) ==
    Answers(~Halted(s) /\ Routed(s) /\ Allowed(s, "feature_score"),
            {Single(s, o[1], o[2], o[3], o[4], "trend_following") : o \in Offers["ml"]})

\* one symbol of the scan, unless its group is not to be traded
ScanSymbol ==
    /\ phase = "scan" /\ cursor <= Len(scan)
    /\ \E s \in {scan[cursor]} :
          IF ~Home(s).tradeable THEN UNCHANGED signals
          ELSE \E own \in TrendAgent(s) \union MeanReversionAgent(s), grid \in Grid(s),
                 ml \in MlAgent(s) :
                 signals' = AddNew(AddNew(AddNew(signals, own), grid), ml)
    /\ cursor' = cursor + 1
    /\ UNCHANGED <<phase, failures, opened, faults, blocked, settled>>

\* a pair outside of the groups, across two of them, or in one that is not to
\* be traded is skipped; the relation decides, then the distance
PairAllowed(p) ==
    /\ Home(p[1]) # NoGroup /\ Home(p[2]) # NoGroup
    /\ Home(p[1]).name = Home(p[2]).name
    /\ Home(p[1]).tradeable
ScanPair ==
    /\ phase = "scan"
    /\ cursor \in Len(scan) + 1 .. Len(scan) + Len(config.pairs)
    /\ \E p \in {config.pairs[cursor - Len(scan)]}, m \in Measures, z \in ZScores :
          LET strength == EntryStrength(m, z, ZEntry, <<LabelOf(p[1]), LabelOf(p[2])>>)
          IN  signals' = IF PairAllowed(p) /\ strength > 0
                         THEN signals \o PairLegs(p, PairSide(z), strength)
                         ELSE signals
    /\ cursor' = cursor + 1
    /\ UNCHANGED <<phase, failures, opened, faults, blocked, settled>>

\* _arbitrate_single_vs_pair: a pair that is strong enough takes its symbols.
\* Singles come first, as their scan does
Winner(sigs, p) ==
    \E i \in 1..Len(sigs) : sigs[i].pair = p /\ sigs[i].strength >= config.pairPriority
TakenFirst(sigs) == {sigs[i].pair[1] : i \in {j \in 1..Len(sigs) :
                        IsPairLeg(sigs[j]) /\ Winner(sigs, sigs[j].pair)}}
Taken(sigs) == {sigs[i].symbol : i \in {j \in 1..Len(sigs) :
                                        IsPairLeg(sigs[j]) /\ Winner(sigs, sigs[j].pair)}}
SingleVsPair(sigs) ==
    LET taken == Taken(sigs)
    IN  Keep(sigs, {i \in 1..Len(sigs) : IF IsPairLeg(sigs[i]) THEN Winner(sigs, sigs[i].pair)
                                         ELSE sigs[i].symbol \notin taken})

\* resolve_signal_conflicts: veto keeps everything, otherwise one signal of a
\* symbol is kept, the strongest, or nothing on a tied vote
Strongest(S, sigs) ==
    LET Stronger(i) == Cardinality({j \in S : sigs[j].strength > sigs[i].strength})
    IN  CHOOSE i \in S : \A j \in S :
            \/ Stronger(i) < Stronger(j)
            \/ Stronger(i) = Stronger(j) /\ i <= j
SumOf(S, sigs) == FoldSet(LAMBDA i, sum : sigs[i].strength + sum, 0, S)
Of(s, sigs)    == {i \in 1..Len(sigs) : sigs[i].symbol = s}
Voters(s, sigs) ==
    LET all  == Of(s, sigs)
        buys == {i \in all : sigs[i].side = "buy"}
        net  == SumOf(buys, sigs) - SumOf(all \ buys, sigs)
    IN  IF config.mode = "hierarchy" \/ buys \in {{}, all} THEN all
        ELSE IF net > 0 THEN buys ELSE IF net < 0 THEN all \ buys ELSE {}
ResolveConflicts(sigs) ==
    LET kept == {Strongest(Voters(s, sigs), sigs) : s \in {t \in Symbols : Voters(t, sigs) # {}}}
        order == Ordered(kept, [i \in kept |-> Min(Of(sigs[i].symbol, sigs))])
    IN  IF config.mode = "veto" THEN sigs ELSE [k \in 1..Cardinality(kept) |-> sigs[order[k]]]

\* the end of the scan
Arbitrate ==
    /\ phase = "scan" /\ cursor > Len(scan) + Len(config.pairs)
    /\ phase' = "construct"
    /\ signals' = ResolveConflicts(SingleVsPair(signals)) /\ cursor' = 1 /\ blocked' = {}
    /\ UNCHANGED <<failures, opened, faults, settled>>

\* the scan raises: no signals, and the run goes on
ScanRaises ==
    /\ phase = "scan" /\ faults < FaultBound
    /\ faults' = faults + 1
    /\ phase' = "construct" /\ signals' = <<>> /\ cursor' = 1 /\ blocked' = {}
    /\ UNCHANGED <<failures, opened, settled>>

-----------------------------------------------------------------------------
\* Allocation, adaptation, vote and sizing

shaped == <<failures, opened, blocked, cursor, settled>>

Total(f) == FoldFunction(+, 0, f)
Clamp(lo, n, hi) == Min({hi, Max({lo, n})})

\* inverse_volatility_weights and cap_weights, in percent.  Weights are made to
\* add up again after they were cut, and are equal ones where nothing adds up
Shares(f) == [s \in DOMAIN f |-> IF Total(f) = 0 THEN 100 \div Cardinality(DOMAIN f)
                                 ELSE (100 * f[s]) \div Total(f)]
InverseVolatility(vol, syms) == Shares([s \in syms |-> 100 \div vol[s]])
Capped(weight) == Shares([s \in DOMAIN weight |-> Min({weight[s], MaxSingleWeight})])

\* above max_risk_leverage of the benchmark's volatility, all weights are cut
Levered(weight, vol) ==
    LET part == [s \in DOMAIN weight |-> (weight[s] * vol[s]) \div 10]
        risk == Root(Total([s \in DOMAIN weight |-> part[s] * part[s]]))
    IN  [s \in DOMAIN weight |-> IF risk <= MaxRisk THEN weight[s]
                                 ELSE (weight[s] * MaxRisk) \div risk]

\* PortfolioOptimizer.allocate.  _returns_matrix keeps min_bars - 1 returns, and
\* the branch with the covariance asks for min_bars of them: it is never taken,
\* and without it no correlation is penalised.  The strength is cut at the
\* full one and the confidence is not
ConfidenceOf(sig) == IF sig.conf = 0 THEN sig.strength ELSE sig.conf
Optimized(sigs, vol) ==
    LET syms        == {sigs[i].symbol : i \in 1..Len(sigs)}
        weight      == Levered(Capped(InverseVolatility(vol, syms)), vol)
        Scaled(n, sig) == (n * weight[sig.symbol] * Cardinality(syms)) \div 100
        Allotted(sig)  == [sig EXCEPT !.strength = Clamp(0, Scaled(@, sig), FullStrength),
                                      !.conf     = Scaled(ConfidenceOf(sig), sig),
                                      !.weight   = weight[sig.symbol]]
        kept           == Keep(sigs, {i \in 1..Len(sigs) : weight[sigs[i].symbol] > 0})
    IN  [i \in 1..Len(kept) |-> Allotted(kept[i])]

\* _score_groups: the strength of the signals of each group; tradeable groups
\* without a signal have a score of zero
GroupScore(sigs) ==
    LET named == {Home(sigs[i].symbol).name : i \in 1..Len(sigs)}
        idle  == {g.name : g \in {h \in ToSet(config.groups) : h.tradeable}}
    IN  [g \in named \union idle |->
            SumOf({i \in 1..Len(sigs) : Home(sigs[i].symbol).name = g}, sigs)]

\* _normalize_group_weights: the shares of the scores, equal ones when there is
\* no edge, blended with the weights of the last run, cut and made to add up as
\* long as anything is left
GroupWeights(score, previous) ==
    LET base     == Shares(score)
        blended  == [g \in DOMAIN base |->
                        6 * base[g] + 4 * (IF g \in DOMAIN previous THEN previous[g] ELSE base[g])]
        shares   == IF previous = <<>> \/ ~config.rotation.migrates THEN base ELSE Shares(blended)
        cut      == [g \in DOMAIN shares |-> Clamp(config.rotation.minWeight, shares[g],
                                                  config.rotation.maxWeight)]
    IN  IF Total(cut) = 0 THEN cut ELSE Shares(cut)

\* _select_active_groups: the heaviest ones; sorting keeps the order of names
ActiveGroups(weight) ==
    LET Rank(g)      == CHOOSE n \in 1..Len(GroupNames) : GroupNames[n] = g
        Heavier(g, h) == \/ weight[g] > weight[h]
                         \/ weight[g] = weight[h] /\ Rank(g) < Rank(h)
        limit == IF config.rotation.multi THEN Max({1, config.rotation.maxGroups}) ELSE 1
    IN  {g \in DOMAIN weight : Cardinality({h \in DOMAIN weight : Heavier(h, g)}) < limit}

\* apply_asset_rotation: the signals of the active groups are ordered by
\* weight and strength and cut at the limit, whatever pair they belong to
HomeNames(sigs) == [i \in 1..Len(sigs) |-> Home(sigs[i].symbol).name]
Ranks(sigs, home, weight, active) ==
    LET Score(i)     == weight[home[i]] * sigs[i].strength
        Born(i)      == Min({j \in 1..Len(sigs) : home[j] = home[i]})
        Better(i, j) == \/ Score(i) > Score(j)
                        \/ Score(i) = Score(j) /\ Born(i) < Born(j)
    IN  Sequence([i \in 1..Len(sigs) |-> Cardinality({j \in active : Better(j, i)})], Len(sigs))
Cut(active, rank) ==
    LET limit == Min({Max({1, config.rotation.maxSymbols}), Cardinality(active)})
    IN  SubSeq(Ordered(active, rank), 1, limit)

\* groups come in the order of their first signal, and what is left of them in
\* the order of their best one.  A signal has its share among those of its
\* group that are left
Rotated(sigs, home, weight, cut) ==
    LET First(k) == Min({l \in 1..Len(cut) : home[cut[l]] = home[cut[k]]})
        out      == Ordered(1..Len(cut), [k \in 1..Len(cut) |-> First(k)])
        Strong(g) == SumOf({cut[k] : k \in {l \in 1..Len(cut) : home[cut[l]] = g}}, sigs)
        Share(i)  == IF Strong(home[i]) = 0 THEN 0
                     ELSE (sigs[i].weight * weight[home[i]] * sigs[i].strength)
                              \div (100 * Strong(home[i]))
    IN  [k \in 1..Len(cut) |-> [sigs[cut[out[k]]] EXCEPT !.weight = Share(cut[out[k]])]]

\* PortfolioConstructionAgent.allocate; when it raises, everything is kept
Allocates(vol, previous) ==
    \E sized \in {Optimized(signals, vol)} :
       IF ~config.rotation.enabled \/ sized = <<>> THEN signals' = sized
       ELSE \E weight \in {GroupWeights(GroupScore(sized), previous)}, home \in {HomeNames(sized)} :
            \E active \in {{i \in 1..Len(sized) : home[i] \in ActiveGroups(weight)}} :
            \E rank \in {Ranks(sized, home, weight, active)} : \E cut \in {Cut(active, rank)} :
               signals' = Rotated(sized, home, weight, cut)
Construct ==
    /\ phase = "construct" /\ phase' = "adapt"
    /\ \/ /\ \E vol \in Vols, previous \in Previous : Allocates(vol, previous)
          /\ UNCHANGED faults
       \/ /\ faults < FaultBound /\ faults' = faults + 1
          /\ UNCHANGED signals
    /\ UNCHANGED <<failures, opened, blocked, cursor, settled>>

\* apply_signal_adaptation: a signal below the threshold is dropped, and the
\* others are copied, without their pair
Adapted(sigs, least) ==
    LET above == Keep(sigs, {i \in 1..Len(sigs) : sigs[i].strength >= least})
    IN  [i \in 1..Len(above) |-> [above[i] EXCEPT !.pair = NoPair]]
Adapt ==
    /\ phase = "adapt" /\ phase' = "vote"
    /\ \E least \in {signals[i].strength : i \in 1..Len(signals)} \union {FullStrength} :
         signals' = IF ApplyThreshold THEN Adapted(signals, least) ELSE signals
    /\ UNCHANGED <<faults, shaped>>

\* vote_on_proposal: the signal, the regime and the exposure have one vote
\* each, and the exposure a veto
RegimeVote(sig) ==
    IF regime[sig.symbol] = None THEN 0
    ELSE IF SelectedStrategy(LabelOf(sig.symbol)) = (IF sig.strategy = "trend_following"
                                                    THEN "trend_following" ELSE "mean_reversion")
    THEN 1 ELSE -1
Vote ==
    /\ phase = "vote" /\ phase' = "decide"
    /\ IF config.mode # "voting" THEN UNCHANGED signals
       ELSE \E exposed \in BOOLEAN :
              LET Approved(sig) == ~exposed /\ 1 + RegimeVote(sig) + 1 > 0
              IN  signals' = Keep(signals, {i \in 1..Len(signals) : Approved(signals[i])})
    /\ UNCHANGED <<faults, shaped>>

\* decide: the signals are sized one after the other, each within what the
\* ones before it have left of the total exposure.  A symbol whose market is
\* closed has no price and gets no lots; one whose description cannot be had
\* gets fallback lots, and so do all without equity.  Of two signals of a
\* symbol the weight of the later one counts for both
WeightOf(s, sigs, vol) ==
    LET given == {i \in 1..Len(sigs) : sigs[i].weight # None}
        own   == {i \in given : sigs[i].symbol = s}
    IN  IF given = {} THEN InverseVolatility(vol, {sigs[i].symbol : i \in 1..Len(sigs)})[s]
        ELSE IF own = {} THEN 100 \div Len(sigs) ELSE sigs[Max(own)].weight
PositionOf(sig, room, weight) == (HybridPosition(sig.symbol, room, weight) * sig.conf) \div FullConfidence
Order(sig, lots, sized) ==
    [symbol |-> sig.symbol, side |-> sig.side, strategy |-> sig.strategy, pair |-> sig.pair,
     edge |-> sig.edge, conf |-> sig.conf, lots |-> lots, sized |-> sized]
FallbackOrder(sig) == Order(sig, Fallback(sig.strength, Home(sig.symbol).lots), FALSE)
Sized(sigs, acct, vol, closed, unknown) ==
    LET Passed(i)       == sigs[i].conf < MinConfidence \/ sigs[i].symbol = closed
        Position(i, before) == IF Passed(i) THEN 0
                               ELSE PositionOf(sigs[i], RoomLeft(acct, before), WeightOf(sigs[i].symbol, sigs, vol))
        taken[i \in 0..Len(sigs)] == IF i = 0 THEN 0 ELSE taken[i - 1] + Position(i, taken[i - 1])
        Lots(i) == LotsFor(sigs[i].symbol, acct.equity, Position(i, taken[i - 1]),
                           Home(sigs[i].symbol).lots)
    IN  Sequence([i \in 1..Len(sigs) |->
                     IF Passed(i) THEN Order(sigs[i], 0, TRUE)
                     ELSE IF sigs[i].symbol = unknown THEN FallbackOrder(sigs[i])
                     ELSE Order(sigs[i], Lots(i), TRUE)], Len(sigs))
ApplyFallback(sigs) == [i \in 1..Len(sigs) |-> FallbackOrder(sigs[i])]
ZeroSignals(sigs)   == [i \in 1..Len(sigs) |-> Order(sigs[i], 0, TRUE)]
Decided(sigs, acct, vol, closed, unknown) ==
    IF ~DecisionEnabled \/ acct.equity = 0 THEN ApplyFallback(sigs)
    ELSE IF Room(acct) = 0 THEN ZeroSignals(sigs)
    ELSE Sized(sigs, acct, vol, closed, unknown)

\* partition_signals: singles first, then pairs by their id
Partition(orders) ==
    LET all    == 1..Len(orders)
        alone  == Keep(orders, {i \in all : ~IsPairLeg(orders[i])})
        firsts == Keep(orders, {i \in all : /\ IsPairLeg(orders[i])
                                            /\ \A j \in 1..i - 1 : orders[j].pair # orders[i].pair})
    IN  [i \in 1..Len(alone) |-> <<alone[i]>>]
            \o [k \in 1..Len(firsts) |-> Keep(orders, {i \in all : orders[i].pair = firsts[k].pair})]

Decide ==
    /\ phase = "decide" /\ phase' = "risk"
    /\ \E acct \in Accounts, vol \in Vols :
         /\ account' = acct
         /\ \/ \E closed \in Symbols \union {None} :
                 /\ \E orders \in {Decided(signals, acct, vol, closed, None)} : jobs' = Partition(orders)
                 /\ UNCHANGED faults
            \/ \E unknown \in Symbols :
                 /\ faults < FaultBound /\ faults' = faults + 1
                 /\ \E orders \in {Decided(signals, acct, vol, None, unknown)} : jobs' = Partition(orders)
    /\ signals' = <<>>
    /\ UNCHANGED <<failures, opened, blocked, cursor, setup, login, queue, flying, regime, level,
                   late, sent, ready>>

\* build_state raises, ahead of the allocation or of the sizing: nothing
\* catches it, and the run is over
StateRaises ==
    /\ phase \in {"construct", "decide"} /\ faults < FaultBound
    /\ faults' = faults + 1
    /\ phase' = "failed" /\ signals' = <<>>
    /\ UNCHANGED <<failures, opened, blocked, cursor, settled>>

-----------------------------------------------------------------------------
\* The gate of every leg

gated == <<setup, login, queue, flying, regime, level, late, blocked, cursor, signals, account>>

IsPairJob(job) == IsPairLeg(job[1])
NextJob == jobs' = Tail(jobs) /\ ready' = <<>> /\ phase' = "risk"
Leg     == Head(jobs)[Len(ready) + 1]

\* a pair that lost a leg on the way is skipped as a whole
SkipBrokenPair ==
    /\ phase = "risk" /\ jobs # <<>>
    /\ IsPairJob(Head(jobs)) /\ Len(Head(jobs)) # 2
    /\ NextJob
    /\ UNCHANGED <<failures, opened, faults, sent, gated>>

CompleteAnyway(job) == TRUE
Complete(job) == IsPairJob(job) => Len(job) = 2

RiskFailsOpen ==
    /\ phase = "risk" /\ jobs # <<>> /\ Complete(Head(jobs))
    /\ \/ CallOk("Risk") /\ NextJob
       \/ CallDefaults("Risk") /\ phase' = "cost" /\ UNCHANGED <<jobs, ready>>
    /\ UNCHANGED <<sent, gated>>

\* review: nothing is approved without lots, or when the scale of the regime
\* leaves less than a hundredth; a symbol without an assessment has its full
\* size.  The caps may refuse more
RiskReview ==
    /\ phase = "risk" /\ jobs # <<>> /\ Complete(Head(jobs))
    /\ \/ /\ CallOk("Risk")
          /\ \/ /\ Leg.lots * ScaleOf(Leg.symbol) > 50
                /\ phase' = "cost" /\ UNCHANGED <<jobs, ready>>
             \/ NextJob
       \/ CallDefaults("Risk") /\ NextJob
    /\ UNCHANGED <<sent, gated>>

\* the cost estimate blocks a leg, or passes it; without an estimate, or when
\* the settings do not ask for one, it passes
PassLeg ==
    IF Len(ready) + 1 < Len(Head(jobs))
    THEN /\ ready' = Append(ready, Leg) /\ phase' = "risk"
         /\ UNCHANGED <<jobs, sent>>
    ELSE /\ sent' = sent \union {[symbol |-> l.symbol, side |-> l.side, strategy |-> l.strategy,
                                  pair |-> l.pair] : l \in ToSet(Append(ready, Leg))}
         /\ NextJob
CostGate ==
    /\ phase = "cost"
    /\ \/ /\ ~config.cost.enabled /\ PassLeg
          /\ UNCHANGED <<failures, opened, faults>>
       \/ /\ config.cost.enabled /\ CallOk("Cost")
          /\ \E quote \in Quotes :
               IF config.cost.blocks /\ ~Tradable(Leg.edge, quote) THEN NextJob /\ UNCHANGED sent
               ELSE PassLeg
       \/ config.cost.enabled /\ CallDefaults("Cost") /\ PassLeg
    /\ UNCHANGED gated

InfoRetried ==
    /\ phase = "cost" /\ faults < FaultBound
    /\ faults' = faults + 1
    /\ UNCHANGED <<phase, failures, opened, jobs, ready, sent, gated>>

\* fetch_market_symbol_info raises, outside of any circuit: the run is over
InfoRaises ==
    /\ phase = "cost" /\ faults < FaultBound
    /\ faults' = faults + 1
    /\ phase' = "failed"
    /\ UNCHANGED <<failures, opened, jobs, ready, sent, gated>>

\* the reports and the advice after the orders are each guarded by _safe_call
\* and change nothing of the above: the run returns its result
Finish ==
    /\ phase = "risk" /\ jobs = <<>>
    /\ phase' = "done"
    /\ UNCHANGED <<failures, opened, faults, jobs, ready, sent, gated>>

-----------------------------------------------------------------------------
Ended == phase \in {"done", "failed"} /\ UNCHANGED vars

Run ==
    \/ StartTask \/ EndAnalysis \/ LoadGates \/ ScanSymbol \/ ScanPair \/ Arbitrate \/ ScanRaises
    \/ Construct \/ Adapt \/ Vote \/ Decide \/ StateRaises
    \/ SkipBrokenPair \/ RiskReview \/ CostGate \/ InfoRaises \/ Finish

Next ==
    \/ Run \/ Ended \/ WaitTimesOut
    \/ \E t \in Tasks : EndTask(t) \/ TaskRaises(t)

Spec == Init /\ [][Next]_vars

-----------------------------------------------------------------------------
\* A leg of a pair is never handed to execution without the opposite leg on
\* the other symbol of the pair, whatever dropped one of them before: the
\* conflict of two signals, the optimizer, the limit of concurrent symbols,
\* the vote, sizing, or the risk and cost gate (pair_execution.py, "both-or-
\* neither").  The pair is one of the settings, and within one group, although
\* a symbol of several groups is looked up by two rules (config.py:596, :719).
PairsAreWhole ==
    \A x \in sent : x.strategy = "pairs" =>
        \E y \in sent : /\ y.strategy = "pairs" /\ y.side = Opposite(x.side)
                        /\ {<<x.symbol, y.symbol>>, <<y.symbol, x.symbol>>}
                               \intersect ToSet(config.pairs) # {}
                        /\ Home(x.symbol).name = Home(y.symbol).name

\* A run trades what its two settings files say, key by key the local one if it
\* says anything.  Orders are for real only where a file says so itself, never
\* in the stage of paper trading, and on an account that is no demo account
\* only if both the type of the account and require_demo are given up; and
\* nothing is traded that neither the files nor the command line name, or that
\* belongs to a group which is not to be traded (main.py:30,
\* mt5_connector.py:286, "Refusing to trade").
Says(file, section, key) ==
    section \in DOMAIN file /\ IsMapping(file[section]) /\ key \in DOMAIN file[section]
Said(section, key) ==
    LET base  == LoadYaml(Setups[setup].base)
        local == LoadYaml(Setups[setup].local)
    IN  IF Says(local, section, key) THEN {local[section][key]}
        ELSE IF Says(base, section, key) THEN {base[section][key]} ELSE {}
SaidNo(said) == \E entry \in said : ~Truth(entry)
TradesAsConfigured ==
    sent # {} =>
        /\ ~config.dryRun => SaidNo(Said("trading", "dry_run"))
                             /\ Said("project", "graduation_stage") \notin {{}, {Text("paper")}}
        /\ ~IsDemoAccount(login) => /\ SaidNo(Said("mt5", "require_demo"))
                                    /\ Said("broker", "account_type") \notin {{}, {Text("demo")}}
        /\ \A x \in sent : /\ x.symbol \in ToSet(config.symbols) \union ToSet(Setups[setup].requested)
                           /\ Home(x.symbol).tradeable

\* README.md:80: positions held at the same time in one symbol are forbidden, so
\* one run enters no symbol twice, be it for two strategies or for two pairs.
OnePositionPerSymbol == \A x, y \in sent : x.symbol = y.symbol => x = y

\* The two arbitrations keep to what each of them is for: no symbol is entered
\* both for a pair and on its own (portfolio_agent.py: "never hold both for same
\* symbol"), and in the modes that choose between rivals no symbol is entered
\* twice.  Under veto two pairs that share a symbol, and two signals for a single
\* one, are both entered: OnePositionPerSymbol is about that.
RivalsAreArbitrated ==
    \A x, y \in sent : x.symbol = y.symbol =>
        /\ x.strategy = "pairs" <=> y.strategy = "pairs"
        /\ config.mode # "veto" => x = y

\* The review of risk fails closed: once its circuit is open, no leg is handed
\* to execution any more, also none of a pair that is half reviewed.
RiskFailsClosed == [][("Risk" \in opened) => sent' = sent]_vars

\* Whatever agents raise or hang, and whichever circuits open, every step
\* brings the run closer to its end, in which it does not stop before: to the
\* next stage, to the next job of the stage, or through what is left of it.
Stages == [analysis |-> 8, gate |-> 7, scan |-> 6, construct |-> 5, adapt |-> 4, vote |-> 3,
           decide |-> 2, risk |-> 1, cost |-> 1, done |-> 0, failed |-> 0]
Stage == Stages[phase]
Left ==
    CASE phase = "analysis" -> 2 * Len(queue) + Cardinality(flying) + (IF late THEN 0 ELSE 1)
      [] phase = "scan"     -> Len(scan) + Len(config.pairs) + 1 - cursor
      [] phase \in {"risk", "cost"} /\ jobs # <<>> ->
           2 * (Len(Head(jobs)) - Len(ready)) + (IF phase = "cost" THEN 0 ELSE 1)
      [] OTHER              -> 0
ComesToAnEnd ==
    [][\/ Stage' < Stage
       \/ Stage' = Stage /\ Len(jobs') < Len(jobs)
       \/ Stage' = Stage /\ Len(jobs') = Len(jobs) /\ Left' \in 0..Left - 1]_vars

\* What the orders of a run are worth together is within the exposure the
\* account had left, whatever was sized first, and none of them is more than
\* a single position may be or loses more at its stop than a trade may risk
\* (decision_agent.py, "hybrid sizing").  Exempt are runs in which the code goes
\* beyond these limits: with fallback lots, a confidence that the optimizer has
\* scaled past the full one, or a group whose lot multiplier is above 1.
SizesShareTheRoom ==
    LET legs     == FlattenSeq(jobs)
        Worth(l) == l.lots * LotValue(l.symbol) * 100
        AtRisk(l) == l.lots * Instrument[l.symbol].contract * StopOf(l.symbol)
    IN  (\A i \in 1..Len(legs) : /\ legs[i].sized /\ legs[i].conf <= FullConfidence
                                /\ Home(legs[i].symbol).lots <= 100) =>
        /\ FoldLeft(LAMBDA sum, l : sum + Worth(l), 0, legs) <= account.equity * Room(account)
        /\ \A i \in 1..Len(legs) : /\ Worth(legs[i]) <= account.equity * 100 * MaxSinglePct
                                   /\ AtRisk(legs[i]) <= account.equity * RiskPerTrade

WorseSpread(n, m) ==
    /\ n.phi >= m.phi /\ n.drift >= m.drift /\ n.trend >= m.trend /\ n.vol >= m.vol
    /\ n.cross = m.cross \/ (n.cross <= m.cross /\ m.cross <= ChopCross)
WorseRegime(b, a) ==
    /\ b.label = a.label /\ b.prob <= a.prob
    /\ (a.pending => b.pending)
    /\ b.switches >= a.switches /\ b.span <= a.span
WorseQuote(r, q) ==
    /\ r.spread >= q.spread /\ r.sigma >= q.sigma /\ r.part >= q.part
    /\ r.commission >= q.commission /\ SlippageRate(q) > 0
ScaleAlone(a, run) == PositionScale(a.label, Uncertain(a), Max({LevelOf(a), run}))

\* Nothing is traded at a larger size because something about it is worse.  A
\* pair whose spread is worse in any respect is never entered with more
\* strength, and once it is refused nothing that gets worse admits it again
\* (pairs/health.py; fewer crossings are worse except above ChopCross, where
\* they are fewer signs of chop).  A less certain or more restless regime never
\* has the larger position scale (regime/health.py, resilience.py).  An order
\* that costs more, or is larger, is never let through where a cheaper one is
\* stopped (cost_estimator_agent.py), as long as slippage can be estimated.  This
\* is checked for all conditions and quotes of the instance where a run begins.
WorseNeverTradesMore ==
    queue = <<"research", "market">> \o scan =>
    /\ \A m, n \in Spreads, z \in ZScores : WorseSpread(n, m) =>
          EntryStrength(n, z, ZEntry, <<None, None>>) <= EntryStrength(m, z, ZEntry, <<None, None>>)
    /\ \A a, b \in Conditions, run \in Normal..Defensive : WorseRegime(b, a) =>
          ScaleAlone(b, run) <= ScaleAlone(a, run)
    /\ \A q, r \in QuoteGrid, edge \in {500 * n : n \in 0..FullStrength} : WorseQuote(r, q) =>
          (Tradable(edge, r) => Tradable(edge, q))
=============================================================================
