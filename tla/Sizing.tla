------------------------------ MODULE Sizing ------------------------------
(***************************************************************************)
(* How many lots a signal asks for.  Positions are in ten-thousandths of  *)
(* the equity, lots in hundredths, confidences in twentieths, where 20 is *)
(* full and more is possible, weights in percent, and distances of stops  *)
(* in hundredths of the unit of the price.                                 *)
(***************************************************************************)
EXTENDS Integers, FiniteSetsExt

CONSTANTS
    DecisionEnabled,
    WinRate,            \* win_rate, in percent
    RewardRisk,         \* reward_risk_ratio, in tenths
    Trades,             \* trade statistics: count, lower bound of the win rate, odds
    RiskPerTrade,       \* risk_pct_per_trade, in ten-thousandths
    MaxSinglePct, MaxTotalPct,
    MinConfidence,
    DefaultLots,
    FallbackLots,       \* {} when fallback_lots is null, else the lots alone
    UseAtrStops, AtrMultiplier, VolMultiplier,
    StopLossPct,        \* stop_loss_pct of the price, where nothing else is known
    Instrument          \* of a symbol: price, contract, atr (in hundredths, 0 if unknown),
                        \* daily volatility (in percent, 0 if unknown), least, most, step

ASSUME SizingAssumption ==
    /\ DecisionEnabled \in BOOLEAN
    /\ WinRate \in 0..100 /\ RewardRisk \in Nat
    /\ Trades.count \in Nat /\ Trades.lower \in 0..100 /\ Trades.odds \in Nat
    /\ {RiskPerTrade, MaxSinglePct, MaxTotalPct, MinConfidence, DefaultLots} \subseteq Nat
    /\ FallbackLots \subseteq Nat
    /\ UseAtrStops \in BOOLEAN
    /\ {AtrMultiplier, VolMultiplier, StopLossPct} \subseteq Nat
    /\ \A s \in DOMAIN Instrument :
          /\ Instrument[s].step \in Nat \ {0}
          /\ {Instrument[s].price, Instrument[s].contract, Instrument[s].atr, Instrument[s].sigma,
              Instrument[s].least, Instrument[s].most} \subseteq Nat

FullConfidence == 20
Positive(n) == Max({0, n})

\* full_kelly, of a win rate and of odds in tenths
Kelly(win, odds) == IF odds = 0 THEN 0 ELSE Positive(((win * (odds + 10) - 1000) * 100) \div odds)

\* kelly_sample_discount, in percent
SampleDiscount(n) ==
    CASE n < 30 -> 0 [] n \in 30..99 -> 25 [] n \in 100..299 -> 50 [] n \in 300..999 -> 70
      [] OTHER  -> 80

\* conservative_kelly_cap: half of Kelly, from the lower bound of the win
\* rate once there are thirty trades
KellyCap ==
    IF Trades.count >= 30
    THEN (Kelly(Trades.lower, Trades.odds) * SampleDiscount(Trades.count)) \div 200
    ELSE Kelly(WinRate, RewardRisk) \div 2

\* get_stop_distance: by the range if it is known, else by the volatility,
\* else a share of the price
StopDistance(s) ==
    LET i     == Instrument[s]
        byVol == i.price * i.sigma * VolMultiplier
    IN  IF UseAtrStops /\ i.atr > 0 THEN i.atr * AtrMultiplier
        ELSE IF byVol > 0 THEN byVol ELSE i.price * StopLossPct
\* _stop_distance: where the distance is none, one unit of the price
StopOf(s) == IF StopDistance(s) > 0 THEN StopDistance(s) ELSE 100

\* van_tharp_cap_pct: as much as loses the risk of a trade at its stop
VanTharpCap(s) == (RiskPerTrade * Instrument[s].price * 100) \div StopOf(s)

\* hybrid_position_pct
HybridPosition(s, room, weight) ==
    (Min({KellyCap, VanTharpCap(s), 100 * MaxSinglePct, room}) * Positive(Min({weight, 100}))) \div 100

\* notional_per_lot
LotValue(s) == Instrument[s].contract * Instrument[s].price

\* lots_from_equity_pct, the multiplier of the group and the least volume
LotsFor(s, equity, position, multiplier) ==
    LET i     == Instrument[s]
        raw   == IF LotValue(s) = 0 THEN 0 ELSE (equity * position) \div (100 * LotValue(s))
        whole == (raw \div i.step) * i.step
        lots  == IF whole < i.least THEN 0 ELSE Min({whole, i.most})
        mine  == (lots * multiplier + 50) \div 100
    IN  IF mine < i.least THEN 0 ELSE mine

\* _fallback_lots
Fallback(strength, multiplier) ==
    LET base == IF FallbackLots = {} THEN (DefaultLots * strength + FullConfidence \div 2)
                                            \div FullConfidence
                ELSE CHOOSE n \in FallbackLots : TRUE
    IN  (base * multiplier + 50) \div 100

\* what of the total exposure is left for new positions
Room(account) == 100 * Positive(MaxTotalPct - account.exposure)
RoomIgnored(account, taken) == Room(account)
RoomLeft(account, taken)    == Positive(Room(account) - taken)
=============================================================================
