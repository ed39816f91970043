----------------------------- MODULE TradeCost -----------------------------
(***************************************************************************)
(* Whether the edge of a signal outlives what trading it costs.  A quote  *)
(* is a record: the spread and the volatility of a day in millionths of   *)
(* the notional, the commission likewise, and the part of a day's volume  *)
(* the order takes in ten-thousandths.  Costs and edges are in millionths. *)
(***************************************************************************)
EXTENDS Integers, FiniteSetsExt

CONSTANTS
    SlippageModel,      \* flat, linear or sqrt
    FlatSlippage,       \* slippage_rate
    SlippageK,          \* slippage_k_linear or slippage_k_sqrt, in percent
    SpreadWhenUnknown,  \* use_spread_when_slippage_unknown
    ImpactY,            \* market_impact_Y, in percent
    DecayLoss,          \* what an edge loses during execution_delay_minutes, in thousandths
    MinNetEdge,         \* min_net_alpha_pct
    MaxAdv              \* max_order_adv_ratio, in ten-thousandths

ASSUME CostAssumption ==
    /\ SlippageModel \in {"flat", "linear", "sqrt"} /\ SpreadWhenUnknown \in BOOLEAN
    /\ {FlatSlippage, SlippageK, ImpactY, MinNetEdge, MaxAdv} \subseteq Nat
    /\ DecayLoss \in 0..1000

\* square root, rounded down
Root(n) == CHOOSE r \in 0..n : r * r <= n /\ n < (r + 1) * (r + 1)

\* _slippage_rate, and linear_slippage and sqrt_slippage
SlippageRate(q) ==
    CASE SlippageModel = "flat"   -> FlatSlippage
      [] SlippageModel = "linear" -> SlippageK * q.part
      [] SlippageModel = "sqrt"   -> (SlippageK * q.sigma * Root(q.part)) \div 10000

\* _slippage_cost_jpy: a rate of zero counts as unknown
Slippage(q) ==
    IF SlippageRate(q) > 0 THEN SlippageRate(q)
    ELSE IF SpreadWhenUnknown THEN q.spread ELSE 0

\* the square root law, and almgren_chriss_total_cost: temporary and
\* permanent impact of a tenth of the participation each, and one day at risk
SquareRootImpact(q) == (ImpactY * q.sigma * Root(Min({q.part, 10000}))) \div 10000
AlmgrenChriss(q)    == 20 * Min({q.part, 10000}) + q.sigma
Impact(q)           == Max({SquareRootImpact(q), AlmgrenChriss(q)})

\* opportunity_cost: nothing is lost of an edge that is none
Opportunity(edge) == Max({0, (DecayLoss * edge) \div 1000})

\* build_cost_components: the spread is paid beside the slippage
CostOf(edge, q) == q.commission + q.spread + Slippage(q) + Impact(q) + Opportunity(edge)

\* assess_trade
Tradable(edge, q) == edge - CostOf(edge, q) > MinNetEdge /\ q.part <= MaxAdv
=============================================================================
