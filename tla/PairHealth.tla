----------------------------- MODULE PairHealth -----------------------------
(***************************************************************************)
(* The relation between the two symbols of a pair: regimes R1 to R5, from *)
(* what is measured on the spread and, for R5, from the regimes of the    *)
(* legs.  A measurement is a record of integers; a half-life or a phi     *)
(* that could not be estimated is None.                                   *)
(***************************************************************************)
EXTENDS Integers, FiniteSets

CONSTANTS
    None,           \* no half-life, no phi, no regime
    MaxHalfLife,    \* max_half_life_bars
    MaxDrift, BreakDrift,
    MaxTrend, BreakTrend,
    MinCross,       \* below: weakening
    ChopCross,      \* above: a half-life near the limit counts as chop
    UnitRoot        \* phi from which a spread does not revert

ASSUME HealthThresholds ==
    /\ MaxHalfLife \in Nat /\ MinCross \in Nat /\ ChopCross \in Nat /\ UnitRoot \in Nat
    /\ MaxDrift \in Nat /\ BreakDrift \in Nat /\ MaxDrift <= BreakDrift
    /\ MaxTrend \in Nat /\ BreakTrend \in Nat /\ MaxTrend <= BreakTrend

Abs(n) == IF n < 0 THEN -n ELSE n

PairRegimes == {"r1_stable_mr", "r2_volatile_mr", "r3_weakening", "r4_structural_break",
                "r5_event_exec"}
EntryAllowed == {"r1_stable_mr", "r2_volatile_mr"}

\* size_scale in halves: 2 is the full size, 0 none
SizeScale == [r \in PairRegimes |-> CASE r = "r1_stable_mr" -> 2
                                     [] r = "r2_volatile_mr" -> 1
                                     [] OTHER -> 0]

\* estimate_half_life: a spread with a unit root, or without persistence, has
\* no half-life; otherwise it grows with phi (halfLife is the table log 2 / -log phi)
HalfLifeOf(phi, halfLife) ==
    IF phi = None \/ phi >= UnitRoot \/ phi <= 0 THEN None ELSE halfLife[phi]

\* beta_drift_ratio, in hundredths of the long beta
Drift(short, long) == (100 * Abs(short - long)) \div (IF long = 0 THEN 1 ELSE Abs(long))

\* one leg in stress, or both in chop; a leg without a regime is no evidence
EventRisk(regimes) ==
    \/ \E i \in DOMAIN regimes : regimes[i] = "stress"
    \/ \A i \in DOMAIN regimes : regimes[i] = "high_vol_chop"

BreakBySlope(m) == m.drift >= BreakDrift \/ m.trend >= BreakTrend
StructuralBreak(m) ==
    \/ m.drift >= BreakDrift
    \/ m.trend >= BreakTrend
    \/ m.halfLife = None /\ m.phi # None /\ m.phi >= UnitRoot
    \/ m.halfLife # None /\ m.halfLife > 3 * MaxHalfLife

Weakening(m) ==
    \/ m.halfLife # None /\ m.halfLife > MaxHalfLife
    \/ m.drift >= MaxDrift
    \/ m.trend >= MaxTrend
    \/ m.cross < MinCross

\* no history of spread volatility is passed by the only caller: the proxy
\* is a half-life above 80 % of the limit while the spread still crosses
Volatile(m) ==
    /\ m.vol > 0
    /\ m.halfLife # None
    /\ 5 * m.halfLife > 4 * MaxHalfLife
    /\ m.cross > ChopCross

ClassifyPairHealth(m, regimes) ==
    IF EventRisk(regimes)       THEN "r5_event_exec"
    ELSE IF StructuralBreak(m)  THEN "r4_structural_break"
    ELSE IF Weakening(m)        THEN "r3_weakening"
    ELSE IF Volatile(m)         THEN "r2_volatile_mr"
    ELSE "r1_stable_mr"

(***************************************************************************)
(* The entry of a pair.  z and the entry threshold are in quarters of a   *)
(* standard deviation, strengths in twentieths.                           *)
(***************************************************************************)

FullStrength == 20

\* z_entry_mult in quarters
EntryMult == [r \in PairRegimes |-> CASE r = "r1_stable_mr"   -> 4
                                     [] r = "r2_volatile_mr" -> 5
                                     [] r = "r3_weakening"   -> 6
                                     [] OTHER                -> 396]

\* the strength of both legs, 0 when the spread is inside the entry band
PairStrength(z, entry, regime) ==
    LET band  == (entry * EntryMult[regime]) \div 4
        base  == (FullStrength * Abs(z)) \div (2 * band)
        whole == IF base > FullStrength THEN FullStrength ELSE base
        floor == (3 * FullStrength) \div 10
    IN  IF Abs(z) < band THEN 0
        ELSE ((IF whole < floor THEN floor ELSE whole) * SizeScale[regime]) \div 2

\* what a pair is entered with: nothing unless its relation allows entries
EntryStrength(m, z, entry, regimes) ==
    LET class == ClassifyPairHealth(m, regimes)
    IN  IF class \in EntryAllowed THEN PairStrength(z, entry, class) ELSE 0

\* the side of the first leg; the second leg takes the other one
PairSide(z) == IF z < 0 THEN "buy" ELSE "sell"
=============================================================================
