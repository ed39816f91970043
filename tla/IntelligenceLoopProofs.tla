----------------------- MODULE IntelligenceLoopProofs -----------------------
(***************************************************************************)
(* Proofs about IntelligenceLoop, for any processes, knobs, grid,          *)
(* thresholds, settings and faults: types, that what is adopted has been   *)
(* validated, that stored metrics and parameters belong together and are   *)
(* kept, and that the improvements of a run add up.                        *)
(***************************************************************************)
EXTENDS IntelligenceLoop, TLAPS

\* The types of what a run has in hand, and of everything else.
RunTypes ==
    /\ pc \in [Procs -> {"idle", "review", "read", "baseline", "ask", "llm", "grid", "seed"}]
    /\ keyed \in [Procs -> BOOLEAN]
    /\ working \in [Procs -> Params] /\ best \in [Procs -> Params]
    /\ baseline \in [Procs -> Results \cup {None}] /\ base \in [Procs -> Results \cup {None}]
    /\ metrics \in [Procs -> Results \cup {None}]
    /\ \A p \in Procs : pc[p] \in {"ask", "llm", "grid"} => baseline[p] # None /\ base[p] # None
    /\ reply \in [Procs -> Seq(Verdicts)]
    /\ gains \in [Procs -> Nat] /\ sameData \in [Procs -> BOOLEAN]

Cells ==
    /\ spec \in [Procs -> 1..(Len(Grid) + 1)] /\ at \in [Procs -> Nat]
    /\ \A p \in Procs : at[p] \in IF InGrid(p) THEN 1..Len(Grid[spec[p]]) ELSE {1}

DiskTypes ==
    disk \in [params : Params \cup {None}, metrics : Results \cup {None},
              path : {"llm", "grid", "baseline_seed", None}, accepted : BOOLEAN]

MeasuredTypes == DOMAIN measured \subseteq Params /\ \A ps \in DOMAIN measured : measured[ps] \in Results

CountTypes == runCount \in 0..MaxRuns /\ dataCount \in 0..MaxData /\ faultCount \in 0..FaultBound

HistoryTypes ==
    /\ validated \subseteq Params /\ measuredOn \in Params \cup {None}
    /\ overlap \in BOOLEAN /\ misread \in BOOLEAN

Types == RunTypes /\ Cells /\ DiskTypes /\ MeasuredTypes /\ HistoryTypes /\ CountTypes

-----------------------------------------------------------------------------
(* The inductive invariant                                                 *)

\* Until two runs overlap there is only one.
Alone == ~overlap => \A p, q \in Procs : pc[p] # "idle" /\ pc[q] # "idle" => p = q

Sound == ~overlap /\ ~misread

\* Nothing has been accepted before the search, which starts from `working`.
Fresh(p) ==
    /\ pc[p] \in {"idle", "review", "read", "baseline"} => gains[p] = 0 /\ metrics[p] = None
    /\ pc[p] = "baseline" => best[p] = working[p]

\* What has been accepted has been accepted as a whole.
Accepted(p) == metrics[p] # None => best[p] \in validated

\* A run that read the store still knows what is in it.
Current(p) == Sound /\ pc[p] \in {"baseline", "ask", "llm", "grid", "seed"} => working[p] = Stored

\* The baselines are what was measured, and as far apart as the gains say.
Gained(p) ==
    pc[p] \in {"ask", "llm", "grid"} /\ sameData[p] =>
        /\ {working[p], best[p]} \subseteq DOMAIN measured
        /\ baseline[p] = measured[working[p]] /\ base[p] = measured[best[p]]
        /\ base[p].wf >= baseline[p].wf + gains[p] * Improvement

Local(p) == Fresh(p) /\ Accepted(p) /\ Current(p) /\ Gained(p)

\* What the store says of itself.
Recorded == AdoptedIsValidated /\ MetricsOfParams /\ (disk.params = None => disk.metrics = None)

Invariant == Types /\ Alone /\ Recorded /\ \A p \in Procs : Local(p)

-----------------------------------------------------------------------------
(* The operators                                                           *)

LEMMA TypesAreTypeOK == Types => TypeOK
  BY SMT DEF Types, TypeOK, RunTypes, Cells, DiskTypes, MeasuredTypes, HistoryTypes, CountTypes

\* A candidate on top of parameters is a full set of parameters.
LEMMA MergeTypes ==
  ASSUME NEW ps \in Params, NEW c \in Candidates
  PROVE  Merge(ps, c) \in Params
<1>1. PICK K \in SUBSET Knobs \ {{}} : c \in [K -> Values]
  BY DEF Candidates
<1>2. \A k \in Knobs : (IF k \in DOMAIN c THEN c[k] ELSE ps[k]) \in Values
  BY <1>1 DEF Params
<1> QED
  BY <1>2 DEF Merge, Params

LEMMA StoredTypes ==
  ASSUME DiskTypes
  PROVE  Stored \in Params
  BY IntelligenceAssumption DEF Stored, DiskTypes

\* A backtest adds to what is measured and changes nothing of it.
LEMMA BacktestFacts ==
  ASSUME MeasuredTypes, NEW p, NEW ps \in Params, NEW r \in Results, Backtest(p, ps, r)
  PROVE  /\ MeasuredTypes'
         /\ \A x \in DOMAIN measured : x \in DOMAIN measured' /\ measured'[x] = measured[x]
         /\ sameData[p] => ps \in DOMAIN measured' /\ measured'[ps] = r
<1>1. CASE sameData[p]
  <2>1. /\ ps \in DOMAIN measured => r = measured[ps]
        /\ measured' = [x \in DOMAIN measured \cup {ps} |-> IF x = ps THEN r ELSE measured[x]]
    BY <1>1 DEF Backtest
  <2>2. DOMAIN measured' = DOMAIN measured \cup {ps}
    BY <2>1
  <2>3. \A x \in DOMAIN measured \cup {ps} : measured'[x] = IF x = ps THEN r ELSE measured[x]
    BY <2>1
  <2> QED
    BY <2>1, <2>2, <2>3 DEF MeasuredTypes
<1>2. CASE ~sameData[p]
  BY <1>2 DEF Backtest, MeasuredTypes
<1> QED
  BY <1>1, <1>2

LEMMA FaultTypes ==
  ASSUME CountTypes, NEW f, Happens(f)
  PROVE  faultCount' \in 0..FaultBound
  BY IntelligenceAssumption, SMT DEF CountTypes, Happens

\* One more gain is one more improvement.
LEMMA OneMore ==
  ASSUME NEW g \in Nat, NEW i \in Int
  PROVE  (g + 1) * i = g * i + i /\ 0 * i = 0
  BY SMT

LEMMA GridNat == Len(Grid) \in Nat /\ Improvement \in Int
  BY IntelligenceAssumption

\* A result has a walk-forward Sharpe.
LEMMA ResultTypes ==
  ASSUME NEW r \in Results
  PROVE  r.wf \in Int /\ r # None
  BY IntelligenceAssumption

\* The first cell of the grid, if it has any.
LEMMA FirstCell ==
  ASSUME NEW g \in 1..(Len(Grid) + 1)
  PROVE  g <= Len(Grid) => Len(Grid[g]) \in Nat /\ 1 \in 1..Len(Grid[g]) /\ \A i \in 1..Len(Grid[g]) : Grid[g][i] \in Candidates
<1>1. SUFFICES ASSUME g <= Len(Grid)
               PROVE  Len(Grid[g]) \in Nat /\ 1 \in 1..Len(Grid[g]) /\ \A i \in 1..Len(Grid[g]) : Grid[g][i] \in Candidates
  OBVIOUS
<1>2. Grid \in Seq(Seq(Candidates)) /\ Len(Grid) \in Nat
  BY IntelligenceAssumption
<1>3. g \in 1..Len(Grid)
  BY <1>1, <1>2, SMT
<1>4. Grid[g] \in Seq(Candidates) /\ Grid[g] # <<>>
  BY <1>2, <1>3, IntelligenceAssumption
<1>5. Len(Grid[g]) \in Nat /\ Len(Grid[g]) # 0
  BY <1>4, SMT
<1> QED
  BY <1>4, <1>5, SMT

-----------------------------------------------------------------------------
(* What a step of one process leaves of the invariant                      *)

Same(q) ==
    /\ pc'[q] = pc[q] /\ working'[q] = working[q] /\ best'[q] = best[q] /\ baseline'[q] = baseline[q]
    /\ base'[q] = base[q] /\ metrics'[q] = metrics[q] /\ gains'[q] = gains[q] /\ sameData'[q] = sameData[q]

MeasuresMore == \A x \in DOMAIN measured : x \in DOMAIN measured' /\ measured'[x] = measured[x]

\* A process keeps what it knows while others measure, validate and, once runs
\* have overlapped, write the store.
LEMMA SameKeeps ==
  ASSUME NEW q \in Procs, Local(q), Same(q), MeasuresMore, validated \subseteq validated',
         Sound' /\ pc[q] # "idle" => Sound /\ Stored' = Stored
  PROVE  Local(q)'
<1>1. Fresh(q)' /\ Accepted(q)'
  BY DEF Local, Fresh, Accepted, Same
<1>2. Current(q)'
  BY DEF Local, Current, Same
<1>3. Gained(q)'
  BY DEF Local, Gained, Same, MeasuresMore
<1> QED
  BY <1>1, <1>2, <1>3 DEF Local

\* What a run that ends leaves behind.
LEMMA EndFacts ==
  ASSUME Types, NEW p \in Procs, NEW from, End(p, from)
  PROVE  /\ RunTypes' /\ Cells'
         /\ pc[p] = from /\ pc'[p] = "idle" /\ gains'[p] = 0 /\ metrics'[p] = None
         /\ \A q \in Procs \ {p} : Same(q)
<1>1. /\ pc[p] = from /\ pc' = [pc EXCEPT ![p] = "idle"] /\ keyed' = [keyed EXCEPT ![p] = FALSE]
      /\ working' = [working EXCEPT ![p] = Defaults] /\ best' = [best EXCEPT ![p] = Defaults]
      /\ baseline' = [baseline EXCEPT ![p] = None]
      /\ base' = [base EXCEPT ![p] = None] /\ metrics' = [metrics EXCEPT ![p] = None]
      /\ spec' = [spec EXCEPT ![p] = 1] /\ at' = [at EXCEPT ![p] = 1] /\ reply' = [reply EXCEPT ![p] = <<>>]
      /\ gains' = [gains EXCEPT ![p] = 0] /\ sameData' = [sameData EXCEPT ![p] = TRUE]
  BY DEF End, Move
<1>2. RunTypes'
  BY <1>1, IntelligenceAssumption, GridNat, SMT DEF Types, RunTypes
<1>3. Cells'
  <2>1. 1 \in 1..(Len(Grid) + 1)
    BY GridNat, SMT
  <2>2. spec' \in [Procs -> 1..(Len(Grid) + 1)] /\ at' \in [Procs -> Nat]
    BY <1>1, <2>1, SMT DEF Types, Cells
  <2>3. ASSUME NEW q \in Procs
        PROVE  (at[q] \in IF InGrid(q) THEN 1..Len(Grid[spec[q]]) ELSE {1})'
    <3>1. CASE q = p
      <4>1. spec'[q] = 1 /\ at'[q] = 1
        BY <1>1, <3>1 DEF Types, Cells
      <4> QED
        BY <4>1, <2>1, FirstCell DEF InGrid
    <3>2. CASE q # p
      <4>1. spec'[q] = spec[q] /\ at'[q] = at[q]
        BY <1>1, <3>2 DEF Types, Cells
      <4> QED
        BY <4>1 DEF Types, Cells, InGrid
    <3> QED
      BY <3>1, <3>2
  <2> QED
    BY <2>2, <2>3 DEF Cells
<1>4. pc'[p] = "idle" /\ gains'[p] = 0 /\ metrics'[p] = None /\ \A q \in Procs \ {p} : Same(q)
  BY <1>1 DEF Types, RunTypes, Same
<1> QED
  BY <1>1, <1>2, <1>3, <1>4

\* A run that ends without writing the store.
LEMMA EndKeeps ==
  ASSUME Invariant, NEW p \in Procs, NEW from, End(p, from),
         UNCHANGED <<disk, validated, measuredOn, overlap, misread>>, MeasuredTypes', MeasuresMore, CountTypes'
  PROVE  Invariant'
<1> USE DEF Invariant
<1>1. /\ RunTypes' /\ Cells' /\ pc[p] = from /\ pc'[p] = "idle" /\ gains'[p] = 0 /\ metrics'[p] = None
      /\ \A q \in Procs \ {p} : Same(q)
  BY EndFacts
<1>2. Types'
  BY <1>1 DEF Types, DiskTypes, HistoryTypes
<1>3. Alone'
  BY <1>1 DEF Alone, Same
<1>4. Recorded'
  BY DEF Recorded, AdoptedIsValidated, MetricsOfParams
<1>5. Local(p)'
  BY <1>1 DEF Local, Fresh, Accepted, Current, Gained
<1>6. ASSUME NEW q \in Procs \ {p}
      PROVE  Local(q)'
  BY <1>1, SameKeeps DEF Sound, Stored
<1> QED
  BY <1>2, <1>3, <1>4, <1>5, <1>6

\* A run that goes on with what it has.
LEMMA MoveKeeps ==
  ASSUME Invariant, NEW p \in Procs, NEW from, NEW to, Move(p, from, to),
         from # "idle", to \in {"read", "llm", "grid", "seed"},
         to = "read" => from = "review",
         to \in {"llm", "grid"} => from \in {"ask", "llm", "grid"},
         to = "seed" => from \in {"baseline", "llm", "grid", "seed"},
         UNCHANGED <<working, best, baseline, base, metrics, gains, sameData, keyed, disk, validated, measuredOn,
                     overlap, misread>>,
         reply' \in [Procs -> Seq(Verdicts)], Cells', MeasuredTypes', MeasuresMore, CountTypes'
  PROVE  Invariant'
<1> USE DEF Invariant
<1>1. /\ pc[p] = from /\ pc'[p] = to /\ \A q \in Procs \ {p} : Same(q)
      /\ pc' \in [Procs -> {"idle", "review", "read", "baseline", "ask", "llm", "grid", "seed"}]
  BY DEF Move, Types, RunTypes, Same
<1>2. Types'
  BY <1>1 DEF Types, RunTypes, DiskTypes, HistoryTypes, Same
<1>3. Alone'
  BY <1>1 DEF Alone, Same
<1>4. Recorded'
  BY DEF Recorded, AdoptedIsValidated, MetricsOfParams
<1>5. Local(p)'
  <2>1. Fresh(p)' /\ Accepted(p)'
    BY <1>1 DEF Local, Fresh, Accepted
  <2>2. Current(p)'
    BY <1>1 DEF Local, Current, Sound, Stored
  <2>3. Gained(p)'
    BY <1>1 DEF Local, Gained, MeasuresMore
  <2> QED
    BY <2>1, <2>2, <2>3 DEF Local
<1>6. ASSUME NEW q \in Procs \ {p}
      PROVE  Local(q)'
  BY <1>1, SameKeeps DEF Sound, Stored
<1> QED
  BY <1>2, <1>3, <1>4, <1>5, <1>6

-----------------------------------------------------------------------------
(* Every action keeps the invariant                                        *)

LEMMA BeginKeeps ==
  ASSUME Invariant, NEW p \in Procs, Begin(p)
  PROVE  Invariant'
<1> USE DEF Invariant
<1>1. PICK to \in {"read", "review"}, key \in BOOLEAN :
        /\ pc[p] = "idle" /\ pc' = [pc EXCEPT ![p] = to] /\ keyed' = [keyed EXCEPT ![p] = key]
        /\ overlap' = (overlap \/ \E q \in Procs : pc[q] # "idle")
        /\ runCount < MaxRuns /\ runCount' = runCount + 1
        /\ UNCHANGED <<working, best, baseline, base, metrics, spec, at, reply, gains, sameData, disk, measured,
                       validated, measuredOn, misread, dataCount, faultCount>>
  <2>1. \A env \in Environments : Available(env) \in BOOLEAN
    BY DEF Available, LooksLikeApiKey
  <2> QED
    BY <2>1 DEF Begin, Move
<1>2. pc'[p] = to /\ \A q \in Procs \ {p} : Same(q)
  BY <1>1 DEF Types, RunTypes, Same
<1>3. Types'
  <2>1. RunTypes'
    BY <1>1, <1>2 DEF Types, RunTypes, Same
  <2>2. CountTypes'
    BY <1>1, IntelligenceAssumption, SMT DEF Types, CountTypes
  <2>3. Cells' /\ DiskTypes' /\ MeasuredTypes' /\ HistoryTypes'
    BY <1>1 DEF Types, Cells, InGrid, DiskTypes, MeasuredTypes, HistoryTypes
  <2> QED
    BY <2>1, <2>2, <2>3 DEF Types
<1>4. overlap' = FALSE => overlap = FALSE /\ \A q \in Procs : pc[q] = "idle"
  BY <1>1 DEF Types, HistoryTypes
<1>5. Alone' /\ Recorded'
  BY <1>1, <1>2, <1>4 DEF Alone, Recorded, AdoptedIsValidated, MetricsOfParams, Same, Types, HistoryTypes
<1>6. Local(p)'
  BY <1>1, <1>2 DEF Local, Fresh, Accepted, Current, Gained
<1>7. ASSUME NEW q \in Procs \ {p}
      PROVE  Local(q)'
  BY <1>1, <1>2, <1>4, SameKeeps DEF Sound, Stored, MeasuresMore, Types, HistoryTypes
<1> QED
  BY <1>3, <1>5, <1>6, <1>7

\* The parameters a run starts with, be they those of the store or the defaults.
LEMMA StartKeeps ==
  ASSUME Invariant, NEW p \in Procs, NEW ps \in Params, Start(p, ps), CountTypes',
         \/ ps = Stored /\ UNCHANGED misread
         \/ misread' = TRUE
  PROVE  Invariant'
<1> USE DEF Invariant
<1>1. PICK to \in {"seed", "baseline"} :
        /\ pc[p] = "read" /\ pc' = [pc EXCEPT ![p] = to]
        /\ working' = [working EXCEPT ![p] = ps] /\ best' = [best EXCEPT ![p] = ps]
        /\ UNCHANGED <<keyed, baseline, base, metrics, spec, at, reply, gains, sameData, disk, measured, validated,
                       measuredOn, overlap, runCount, dataCount>>
  BY DEF Start, Move
<1>2. pc'[p] = to /\ working'[p] = ps /\ best'[p] = ps /\ \A q \in Procs \ {p} : Same(q)
  BY <1>1 DEF Types, RunTypes, Same
<1>3. Types'
  <2>1. RunTypes'
    BY <1>1, <1>2 DEF Types, RunTypes, Same
  <2>2. Cells' /\ DiskTypes' /\ MeasuredTypes' /\ HistoryTypes'
    BY <1>1 DEF Types, Cells, InGrid, DiskTypes, MeasuredTypes, HistoryTypes
  <2> QED
    BY <2>1, <2>2 DEF Types
<1>4. Alone' /\ Recorded'
  BY <1>1, <1>2 DEF Alone, Recorded, AdoptedIsValidated, MetricsOfParams, Same, Types, HistoryTypes
<1>5. Local(p)'
  BY <1>1, <1>2 DEF Local, Fresh, Accepted, Current, Gained, Sound, Stored
<1>6. ASSUME NEW q \in Procs \ {p}
      PROVE  Local(q)'
  BY <1>1, <1>2, SameKeeps DEF Sound, Stored, MeasuresMore
<1> QED
  BY <1>3, <1>4, <1>5, <1>6

LEMMA BaselineKeeps ==
  ASSUME Invariant, NEW p \in Procs, Baseline(p)
  PROVE  Invariant'
<1> USE DEF Invariant
<1>1. PICK to \in {"ask", "grid"}, r \in Results :
        /\ pc[p] = "baseline" /\ pc' = [pc EXCEPT ![p] = to] /\ Backtest(p, working[p], r)
        /\ baseline' = [baseline EXCEPT ![p] = r] /\ base' = [base EXCEPT ![p] = r]
        /\ UNCHANGED <<keyed, working, best, metrics, spec, at, reply, gains, sameData, disk, histVars, faultCount>>
  BY DEF Baseline, Move
<1>2. /\ pc'[p] = to /\ baseline'[p] = r /\ base'[p] = r /\ \A q \in Procs \ {p} : Same(q)
      /\ working[p] \in Params
  BY <1>1 DEF Types, RunTypes, Same
<1>3. MeasuredTypes' /\ MeasuresMore /\ (sameData[p] => working[p] \in DOMAIN measured' /\ measured'[working[p]] = r)
  BY <1>1, <1>2, BacktestFacts DEF Types, MeasuresMore
<1>4. Types'
  <2>1. RunTypes'
    BY <1>1, <1>2, ResultTypes DEF Types, RunTypes, Same
  <2>2. Cells' /\ DiskTypes' /\ HistoryTypes' /\ CountTypes'
    BY <1>1 DEF Types, Cells, InGrid, DiskTypes, HistoryTypes, CountTypes, histVars
  <2> QED
    BY <1>3, <2>1, <2>2 DEF Types
<1>5. Alone' /\ Recorded'
  BY <1>1, <1>2 DEF Alone, Recorded, AdoptedIsValidated, MetricsOfParams, Same, histVars
<1>6. Local(p)'
  <2>1. Fresh(p)' /\ Accepted(p)' /\ Current(p)'
    BY <1>1, <1>2 DEF Local, Fresh, Accepted, Current, Sound, Stored, histVars
  <2>2. best[p] = working[p] /\ gains[p] = 0
    BY <1>1 DEF Local, Fresh
  <2>3. r.wf >= r.wf + gains[p] * Improvement
    BY <2>2, OneMore, ResultTypes, GridNat, SMT
  <2>4. Gained(p)'
    BY <1>1, <1>2, <1>3, <2>2, <2>3 DEF Gained
  <2> QED
    BY <2>1, <2>4 DEF Local
<1>7. ASSUME NEW q \in Procs \ {p}
      PROVE  Local(q)'
  BY <1>1, <1>2, <1>3, SameKeeps DEF Sound, Stored, histVars
<1> QED
  BY <1>4, <1>5, <1>6, <1>7

\* A candidate that is tried, and accepted or not.
LEMMA ValidateKeeps ==
  ASSUME Invariant, NEW p \in Procs, NEW c \in Candidates, NEW r \in Results, Validate(p, c, r),
         pc[p] \in {"llm", "grid"},
         UNCHANGED <<pc, keyed, working, baseline, sameData, disk, measuredOn, overlap, misread, runCount, dataCount,
                     faultCount>>,
         reply' \in [Procs -> Seq(Verdicts)], Cells'
  PROVE  Invariant'
<1> USE DEF Invariant
<1>1. best[p] \in Params /\ Trial(p, c) = Merge(best[p], c) /\ Trial(p, c) \in Params
  BY MergeTypes DEF Types, RunTypes, Trial
<1>2. MeasuredTypes' /\ MeasuresMore
      /\ (sameData[p] => Trial(p, c) \in DOMAIN measured' /\ measured'[Trial(p, c)] = r)
  BY <1>1, BacktestFacts DEF Types, MeasuresMore, Validate
<1>3. Cells' /\ DiskTypes' /\ CountTypes'
  BY DEF Types, DiskTypes, CountTypes
<1>4. CASE Accepts(r, base[p])
  <2>1. /\ best' = [best EXCEPT ![p] = Trial(p, c)] /\ metrics' = [metrics EXCEPT ![p] = r]
        /\ base' = [base EXCEPT ![p] = r] /\ validated' = validated \cup {Trial(p, c)}
        /\ gains' = [gains EXCEPT ![p] = @ + 1]
    BY <1>1, <1>4 DEF Validate, NextBase, Types, RunTypes
  <2>2. /\ best'[p] = Trial(p, c) /\ metrics'[p] = r /\ base'[p] = r /\ gains'[p] = gains[p] + 1
        /\ \A q \in Procs \ {p} : Same(q)
    BY <2>1 DEF Types, RunTypes, Same
  <2>3. Types'
    <3>1. RunTypes'
      BY <1>1, <2>1, <2>2, ResultTypes, SMT DEF Types, RunTypes, Same
    <3>2. HistoryTypes'
      BY <1>1, <2>1 DEF Types, HistoryTypes
    <3> QED
      BY <1>2, <1>3, <3>1, <3>2 DEF Types
  <2>4. Alone' /\ Recorded'
    BY <2>1 DEF Alone, Recorded, AdoptedIsValidated, MetricsOfParams
  <2>5. Fresh(p)' /\ Accepted(p)' /\ Current(p)'
    BY <2>1, <2>2 DEF Local, Fresh, Accepted, Current, Sound, Stored
  <2>6. Gained(p)'
    <3>1. SUFFICES ASSUME sameData[p]
                   PROVE  Gained(p)'
      BY DEF Gained
    <3>2. /\ {working[p], best[p]} \subseteq DOMAIN measured
          /\ baseline[p] = measured[working[p]] /\ base[p].wf >= baseline[p].wf + gains[p] * Improvement
      BY <3>1 DEF Local, Gained
    <3>3. base[p] \in Results /\ baseline[p] \in Results /\ gains[p] \in Nat
      BY DEF Types, RunTypes
    <3>4. r.wf >= base[p].wf + Improvement
      BY <1>4 DEF Accepts, TierA
    <3>5. r.wf >= baseline[p].wf + (gains[p] + 1) * Improvement
      <4> DEFINE w == baseline[p].wf
                 b == base[p].wf
                 g == gains[p] * Improvement
      <4>1. w \in Int /\ b \in Int /\ g \in Int /\ r.wf \in Int
        BY <3>3, ResultTypes, GridNat, SMT
      <4>2. (gains[p] + 1) * Improvement = g + Improvement
        BY <3>3, OneMore, GridNat
      <4> HIDE DEF w, b, g
      <4>3. r.wf >= w + (g + Improvement)
        <5>1. b >= w + g /\ r.wf >= b + Improvement
          BY <3>2, <3>4 DEF w, b, g
        <5> QED
          BY <4>1, <5>1, GridNat, SMT
      <4> QED
        BY <4>2, <4>3 DEF w
    <3> QED
      BY <1>2, <2>2, <3>1, <3>2, <3>5 DEF Gained, MeasuresMore
  <2>7. ASSUME NEW q \in Procs \ {p}
        PROVE  Local(q)'
    BY <1>2, <2>1, <2>2, SameKeeps DEF Sound, Stored
  <2> QED
    BY <2>3, <2>4, <2>5, <2>6, <2>7 DEF Local
<1>5. CASE ~Accepts(r, base[p])
  <2>1. UNCHANGED <<best, metrics, base, validated, gains>>
    BY <1>5 DEF Validate
  <2>2. \A q \in Procs : Same(q)
    BY <2>1 DEF Same
  <2>3. Types'
    BY <1>2, <1>3, <2>1 DEF Types, RunTypes, HistoryTypes
  <2>4. Alone' /\ Recorded'
    BY <2>1 DEF Alone, Recorded, AdoptedIsValidated, MetricsOfParams
  <2>5. ASSUME NEW q \in Procs
        PROVE  Local(q)'
    BY <1>2, <2>1, <2>2, SameKeeps DEF Sound, Stored
  <2> QED
    BY <2>3, <2>4, <2>5
<1> QED
  BY <1>4, <1>5

\* What a run writes when it ends: parameters that were accepted with the result
\* they were accepted for, or those it started from, with or without a result.
LEMMA PersistKeeps ==
  ASSUME Invariant, NEW p \in Procs, NEW from \in {"llm", "grid", "seed"}, NEW ps \in Params,
         NEW r \in Results \cup {None}, NEW path \in {"llm", "grid", "baseline_seed"}, NEW accepted \in BOOLEAN,
         Persist(p, from, ps, r, path, accepted),
         \/ ps = working[p]
         \/ r # None,
         accepted /\ path \in {"llm", "grid"} => ps \in validated
  PROVE  Invariant'
<1> USE DEF Invariant
<1>1. PICK m \in {Keep(r), r} :
        /\ disk' = [params |-> ps, metrics |-> m, path |-> path, accepted |-> accepted]
        /\ IF m = Keep(r) THEN UNCHANGED faultCount ELSE Happens("read")
  BY DEF Persist
<1>2. /\ End(p, from) /\ measuredOn' = (IF r = None THEN measuredOn ELSE ps)
      /\ UNCHANGED <<measured, validated, overlap, misread, runCount, dataCount>>
  BY DEF Persist
<1>3. /\ RunTypes' /\ Cells' /\ pc[p] = from /\ pc'[p] = "idle" /\ gains'[p] = 0 /\ metrics'[p] = None
      /\ \A q \in Procs \ {p} : Same(q)
  BY <1>2, EndFacts
<1>4. m \in Results \cup {None} /\ (r # None => m = r) /\ (r = None => m = disk.metrics \/ m = None)
  BY <1>1, SMT DEF Keep, Types, DiskTypes
<1>5. disk'.params = ps /\ disk'.metrics = m /\ disk'.path = path /\ disk'.accepted = accepted
  BY <1>1
<1>6. Types'
  <2>1. DiskTypes'
    BY <1>1, <1>4 DEF DiskTypes
  <2>2. CountTypes'
    BY <1>1, <1>2, FaultTypes DEF Types, CountTypes
  <2>3. HistoryTypes' /\ MeasuredTypes'
    BY <1>2 DEF Types, HistoryTypes, MeasuredTypes
  <2> QED
    BY <1>3, <2>1, <2>2, <2>3 DEF Types
<1>7. Alone'
  BY <1>2, <1>3 DEF Alone, Same
<1>8. Recorded'
  <2>1. AdoptedIsValidated'
    BY <1>2, <1>5 DEF AdoptedIsValidated
  <2>2. (disk.params = None => disk.metrics = None)'
    BY <1>5, IntelligenceAssumption
  <2>3. MetricsOfParams'
    <3>1. CASE r # None
      BY <1>2, <1>5, <3>1 DEF MetricsOfParams
    <3>2. ASSUME r = None, ~overlap, ~misread, m # None
          PROVE  measuredOn' = ps
      <4>1. ps = working[p] /\ working[p] = Stored
        BY <1>3, <3>2 DEF Local, Current, Sound
      <4>2. disk.metrics # None
        BY <1>4, <3>2
      <4>3. disk.params # None /\ measuredOn = disk.params
        BY <3>2, <4>2 DEF Recorded, MetricsOfParams
      <4> QED
        BY <1>2, <3>2, <4>1, <4>3 DEF Stored
    <3> QED
      BY <1>2, <1>5, <3>1, <3>2 DEF MetricsOfParams
  <2> QED
    BY <2>1, <2>2, <2>3 DEF Recorded
<1>9. Local(p)'
  BY <1>3 DEF Local, Fresh, Accepted, Current, Gained
<1>10. ASSUME NEW q \in Procs \ {p}
       PROVE  Local(q)'
  <2>1. ~overlap => pc[q] = "idle"
    BY <1>3 DEF Alone
  <2> QED
    BY <1>2, <1>3, <2>1, SameKeeps DEF Sound, MeasuresMore
<1> QED
  BY <1>6, <1>7, <1>8, <1>9, <1>10

\* The three ways in which a run writes the store.
LEMMA PersistCases ==
  ASSUME Invariant, NEW p \in Procs, PersistLLM(p) \/ PersistGrid(p) \/ Seed(p)
  PROVE  \E from \in {"llm", "grid", "seed"}, ps \in Params, r \in Results \cup {None},
            path \in {"llm", "grid", "baseline_seed"}, accepted \in BOOLEAN :
           /\ Persist(p, from, ps, r, path, accepted)
           /\ ps = working[p] \/ r # None
           /\ accepted /\ path \in {"llm", "grid"} => ps = best[p] /\ ps \in validated
<1>1. /\ working[p] \in Params /\ best[p] \in Params /\ baseline[p] \in Results \cup {None}
      /\ metrics[p] \in Results \cup {None} /\ (metrics[p] # None => best[p] \in validated)
  BY DEF Invariant, Types, RunTypes, Local, Accepted
<1>2. CASE PersistLLM(p)
  BY <1>1, <1>2 DEF PersistLLM
<1>3. CASE Seed(p)
  BY <1>1, <1>3 DEF Seed
<1>4. CASE PersistGrid(p)
  <2>1. CASE metrics[p] # None /\ best[p] # working[p]
    BY <1>1, <1>4, <2>1 DEF PersistGrid
  <2>2. CASE ~(metrics[p] # None /\ best[p] # working[p]) /\ SeedIfNoAdopt
    BY <1>1, <1>4, <2>2 DEF PersistGrid
  <2>3. CASE ~(metrics[p] # None /\ best[p] # working[p]) /\ ~SeedIfNoAdopt
    BY <1>1, <1>4, <2>3 DEF PersistGrid
  <2> QED
    BY <2>1, <2>2, <2>3
<1> QED
  BY <1>2, <1>3, <1>4

LEMMA NewDataKeeps ==
  ASSUME Invariant, NewData
  PROVE  Invariant'
<1> USE DEF Invariant
<1>1. /\ dataCount < MaxData /\ dataCount' = dataCount + 1
      /\ measured' = [ps \in {} |-> None] /\ sameData' = [p \in Procs |-> pc[p] = "idle"]
      /\ UNCHANGED <<pc, keyed, working, best, baseline, base, metrics, spec, at, reply, gains, disk, validated,
                     measuredOn, overlap, misread, runCount, faultCount>>
  BY DEF NewData
<1>2. Types'
  <2>1. RunTypes'
    BY <1>1 DEF Types, RunTypes
  <2>2. CountTypes'
    BY <1>1, IntelligenceAssumption, SMT DEF Types, CountTypes
  <2>3. Cells' /\ DiskTypes' /\ HistoryTypes'
    BY <1>1 DEF Types, Cells, InGrid, DiskTypes, HistoryTypes
  <2>4. MeasuredTypes'
    <3>1. DOMAIN measured' = {}
      BY <1>1
    <3> QED
      BY <3>1 DEF MeasuredTypes
  <2> QED
    BY <2>1, <2>2, <2>3, <2>4 DEF Types
<1>3. Alone' /\ Recorded'
  BY <1>1 DEF Alone, Recorded, AdoptedIsValidated, MetricsOfParams
<1>4. ASSUME NEW p \in Procs
      PROVE  Local(p)'
  <2>1. Fresh(p)' /\ Accepted(p)' /\ Current(p)'
    BY <1>1 DEF Local, Fresh, Accepted, Current, Sound, Stored
  <2>2. Gained(p)'
    BY <1>1 DEF Gained
  <2> QED
    BY <2>1, <2>2 DEF Local
<1> QED
  BY <1>2, <1>3, <1>4

-----------------------------------------------------------------------------
(* The steps of a process                                                  *)

\* What the Checker says is a sequence of verdicts, whatever the replies hold.
LEMMA ReviewsAreVerdicts ==
  ASSUME NEW d \in Dialogues
  PROVE  Reviews(d) \in Seq(Verdicts)
<1>1. IsCall(d.checker)
  BY DialogueAssumption
<1>2. Len(Reviewed(d)) \in Nat
  <2> DEFINE r == d.checker.reply
  <2>1. r.items \in Seq(Items) /\ (r.text = "cut" => r.cut.items \in 0..(Len(r.items) - 1))
        /\ r.text \in {"whole", "cut", "lost"}
    BY <1>1 DEF IsCall, IsReply, Cuts
  <2>2. Len(<<>>) \in Nat /\ Len(r.items) \in Nat
    BY <2>1
  <2>3. CASE r.text = "cut"
    <3>1. Len(SubSeq(r.items, 1, r.cut.items)) \in Nat
      BY <2>1, <2>3, SMT
    <3>2. SubSeq(r.items, 1, r.cut.items) \in Seq(Items)
      BY <2>1, <2>3, SMT
    <3>3. ASSUME NEW item
          PROVE  Len(Append(SubSeq(r.items, 1, r.cut.items), item)) \in Nat
      <4>1. SubSeq(r.items, 1, r.cut.items) \in Seq(Items \cup {item})
        BY <2>1, <2>3, SMT
      <4> QED
        BY <4>1, SMT
    <3>4. Len(ExtractJson(r)) \in Nat
      BY <2>3, <3>3 DEF ExtractJson, Repaired
    <3> QED
      BY <2>2, <3>4 DEF Reviewed, Received
  <2>4. CASE r.text = "whole"
    BY <2>2, <2>4 DEF Reviewed, Received, ExtractJson
  <2>5. CASE r.text = "lost"
    BY <2>2, <2>5 DEF Reviewed, Received, ExtractJson
  <2> QED
    BY <2>1, <2>3, <2>4, <2>5
<1>3. ASSUME NEW o
      PROVE  Canonical(o) \in Candidates \cup {None}
  BY DEF Canonical
<1>4. ASSUME NEW o, Canonical(o) \in Proposed(d)
      PROVE  Canonical(o) \in Candidates
  BY <1>3, <1>4 DEF Proposed
<1>5. ASSUME NEW i \in 1..Len(Reviewed(d))
      PROVE  Reviews(d)[i] \in Verdicts
  <2> DEFINE item == Reviewed(d)[i]
  <2>1. Reviews(d)[i] = [params |-> Canonical(item.overrides),
                         approved |-> Canonical(item.overrides) \in Proposed(d) /\ Approves(item)]
    BY DEF Reviews
  <2>2. Canonical(item.overrides) \in Candidates \cup {None}
    BY <1>3
  <2>3. (Canonical(item.overrides) \in Proposed(d) /\ Approves(item)) \in BOOLEAN
    BY DEF Approves
  <2> DEFINE approved == Canonical(item.overrides) \in Proposed(d) /\ Approves(item)
             params == Canonical(item.overrides)
  <2>4. approved => params \in Candidates
    BY <1>4
  <2>5. Reviews(d)[i] = [params |-> params, approved |-> approved] /\ params \in Candidates \cup {None}
        /\ approved \in BOOLEAN
    BY <2>1, <2>2, <2>3
  <2> HIDE DEF approved, params
  <2>6. /\ Reviews(d)[i] \in [params : Candidates \cup {None}, approved : BOOLEAN]
        /\ Reviews(d)[i].approved = approved /\ Reviews(d)[i].params = params
    BY <2>5
  <2> QED
    BY <2>4, <2>6 DEF Verdicts
<1> QED
  BY <1>2, <1>5, SMT DEF Reviews

\* The first review and the others.
LEMMA TakingFacts ==
  ASSUME NEW S, NEW s \in Seq(S), s # <<>>
  PROVE  Head(s) \in S /\ Tail(s) \in Seq(S)
  BY SMT

LEMMA BeginsKeeps ==
  ASSUME Invariant, NEW p \in Procs, Begins(p)
  PROVE  Invariant'
<1>1. /\ Types /\ RunTypes /\ Cells /\ DiskTypes /\ MeasuredTypes /\ CountTypes
      /\ Stored \in Params /\ reply \in [Procs -> Seq(Verdicts)]
  BY StoredTypes DEF Invariant, Types, RunTypes
<1>2. CASE Begin(p)
  BY <1>2, BeginKeeps
<1>3. CASE ReviewUnmeasured(p)
  <2>1. CountTypes'
    BY <1>1, <1>3, FaultTypes DEF ReviewUnmeasured, CountTypes, histVars
  <2>2. Move(p, "review", "read") /\ UNCHANGED <<runVars, disk, measured, histVars>>
    BY <1>3 DEF ReviewUnmeasured
  <2>3. Cells' /\ MeasuredTypes' /\ MeasuresMore /\ reply' \in [Procs -> Seq(Verdicts)]
    BY <1>1, <2>2 DEF runVars, Cells, InGrid, MeasuredTypes, MeasuresMore
  <2> QED
    BY <2>1, <2>2, <2>3, MoveKeeps DEF runVars, histVars
<1>4. CASE Review(p)
  <2>1. PICK r \in Results :
          /\ Backtest(p, Stored, r)
          /\ \/ Move(p, "review", "read") /\ UNCHANGED runVars
             \/ End(p, "review")
    BY <1>4 DEF Review
  <2>2. MeasuredTypes' /\ MeasuresMore
    BY <1>1, <2>1, BacktestFacts DEF MeasuresMore
  <2>3. UNCHANGED <<disk, histVars, faultCount>> /\ CountTypes'
    BY <1>1, <1>4 DEF Review, CountTypes, histVars
  <2>4. CASE Move(p, "review", "read") /\ UNCHANGED runVars
    <3>1. Cells' /\ reply' \in [Procs -> Seq(Verdicts)]
      BY <1>1, <2>4 DEF runVars, Cells, InGrid
    <3> QED
      BY <2>2, <2>3, <2>4, <3>1, MoveKeeps DEF runVars, histVars
  <2>5. CASE End(p, "review")
    BY <2>2, <2>3, <2>5, EndKeeps DEF histVars
  <2> QED
    BY <2>1, <2>4, <2>5
<1>5. CASE ReviewRaises(p)
  <2>1. CountTypes'
    BY <1>1, <1>5, FaultTypes DEF ReviewRaises, CountTypes, histVars
  <2>2. End(p, "review") /\ UNCHANGED <<disk, measured, histVars>>
    BY <1>5 DEF ReviewRaises
  <2> QED
    BY <1>1, <2>1, <2>2, EndKeeps DEF histVars, MeasuredTypes, MeasuresMore
<1>6. CASE Read(p)
  <2>1. Start(p, Stored) /\ UNCHANGED <<misread, faultCount>>
    BY <1>6 DEF Read
  <2>2. CountTypes'
    BY <1>1, <2>1 DEF Start, CountTypes
  <2> QED
    BY <1>1, <2>1, <2>2, StartKeeps
<1>7. CASE ReadFails(p)
  <2>1. Happens("read") /\ Start(p, Defaults) /\ misread' = TRUE
    BY <1>7 DEF ReadFails
  <2>2. CountTypes'
    BY <1>1, <2>1, FaultTypes DEF Start, CountTypes
  <2> QED
    BY <2>1, <2>2, StartKeeps, IntelligenceAssumption
<1>8. CASE Baseline(p)
  BY <1>8, BaselineKeeps
<1>9. CASE BaselineRaises(p)
  <2>1. UNCHANGED <<disk, measured, histVars>> /\ CountTypes'
    BY <1>1, <1>9, FaultTypes DEF BaselineRaises, CountTypes, histVars
  <2>2. MeasuredTypes' /\ MeasuresMore
    BY <1>1, <2>1 DEF MeasuredTypes, MeasuresMore
  <2>3. CASE Move(p, "baseline", "seed") /\ UNCHANGED runVars
    <3>1. Cells' /\ reply' \in [Procs -> Seq(Verdicts)]
      BY <1>1, <2>3 DEF runVars, Cells, InGrid
    <3> QED
      BY <2>1, <2>2, <2>3, <3>1, MoveKeeps DEF runVars, histVars
  <2>4. CASE End(p, "baseline")
    BY <2>1, <2>2, <2>4, EndKeeps DEF histVars
  <2> QED
    BY <1>9, <2>3, <2>4 DEF BaselineRaises
<1>10. CASE Ask(p)
  <2>1. PICK d \in Dialogues :
          /\ Move(p, "ask", "llm") /\ reply' = [reply EXCEPT ![p] = Reviews(d)]
          /\ UNCHANGED <<keyed, working, best, baseline, base, metrics, spec, at, gains, sameData, disk, measured,
                         histVars, faultCount>>
    BY <1>10 DEF Ask
  <2>2. reply' \in [Procs -> Seq(Verdicts)]
    BY <1>1, <2>1, ReviewsAreVerdicts
  <2>3. Cells' /\ MeasuredTypes' /\ MeasuresMore /\ CountTypes'
    BY <1>1, <2>1 DEF histVars, Cells, InGrid, MeasuredTypes, MeasuresMore, CountTypes
  <2> QED
    BY <2>1, <2>2, <2>3, MoveKeeps DEF histVars
<1>11. CASE AskRaises(p)
  <2>1. End(p, "ask") /\ UNCHANGED <<disk, measured, histVars, faultCount>>
    BY <1>11 DEF AskRaises
  <2>2. CountTypes' /\ MeasuredTypes' /\ MeasuresMore
    BY <1>1, <2>1 DEF CountTypes, MeasuredTypes, MeasuresMore, histVars
  <2> QED
    BY <2>1, <2>2, EndKeeps DEF histVars
<1> QED
  BY <1>2, <1>3, <1>4, <1>5, <1>6, <1>7, <1>8, <1>9, <1>10, <1>11 DEF Begins

\* The next place in the grid is a cell of it or just behind it.
LEMMA NextCellTypes ==
  ASSUME Types, NEW p \in Procs, InGrid(p), NEW accepted \in BOOLEAN, NextCell(p, accepted)
  PROVE  Cells'
<1>1. /\ spec \in [Procs -> 1..(Len(Grid) + 1)] /\ at \in [Procs -> Nat]
      /\ spec[p] <= Len(Grid) /\ at[p] \in 1..Len(Grid[spec[p]]) /\ Len(Grid) \in Nat
  BY GridNat DEF Types, Cells, InGrid
<1>2. Len(Grid[spec[p]]) \in Nat
  BY <1>1, FirstCell
<1>3. CASE accepted \/ at[p] = Len(Grid[spec[p]])
  <2>1. spec' = [spec EXCEPT ![p] = @ + 1] /\ at' = [at EXCEPT ![p] = 1]
    BY <1>3 DEF NextCell
  <2>2. spec[p] + 1 \in 1..(Len(Grid) + 1)
    BY <1>1, SMT
  <2>3. spec'[p] = spec[p] + 1 /\ at'[p] = 1 /\ spec' \in [Procs -> 1..(Len(Grid) + 1)] /\ at' \in [Procs -> Nat]
    BY <1>1, <2>1, <2>2
  <2>4. (at[p] \in IF InGrid(p) THEN 1..Len(Grid[spec[p]]) ELSE {1})'
    BY <2>2, <2>3, FirstCell DEF InGrid
  <2>5. \A q \in Procs \ {p} : spec'[q] = spec[q] /\ at'[q] = at[q]
    BY <1>1, <2>1
  <2> QED
    BY <2>3, <2>4, <2>5 DEF Types, Cells, InGrid
<1>4. CASE ~(accepted \/ at[p] = Len(Grid[spec[p]]))
  <2>1. spec' = [spec EXCEPT ![p] = @] /\ at' = [at EXCEPT ![p] = @ + 1]
    BY <1>4 DEF NextCell
  <2>2. at[p] + 1 \in 1..Len(Grid[spec[p]])
    BY <1>1, <1>2, <1>4, SMT
  <2>3. spec' = spec /\ at'[p] = at[p] + 1 /\ at' \in [Procs -> Nat]
    BY <1>1, <2>1, <2>2
  <2>4. \A q \in Procs \ {p} : at'[q] = at[q]
    BY <1>1, <2>1
  <2> QED
    BY <1>1, <2>2, <2>3, <2>4 DEF Types, Cells, InGrid
<1> QED
  BY <1>3, <1>4

LEMMA AcceptsBoolean ==
  ASSUME NEW r \in Results, NEW than
  PROVE  Accepts(r, than) \in BOOLEAN
  BY DEF Accepts, TierA

LEMMA SearchesKeeps ==
  ASSUME Invariant, NEW p \in Procs, Searches(p)
  PROVE  Invariant'
<1>1. /\ Types /\ RunTypes /\ Cells /\ DiskTypes /\ MeasuredTypes /\ CountTypes
      /\ reply \in [Procs -> Seq(Verdicts)]
  BY DEF Invariant, Types, RunTypes
<1>2. ASSUME TakesReview(p)
      PROVE  /\ Head(reply[p]) \in Verdicts /\ reply' \in [Procs -> Seq(Verdicts)]
             /\ pc[p] = "llm" /\ pc' = [pc EXCEPT ![p] = "llm"] /\ Move(p, "llm", "llm")
  <2>1. /\ reply[p] \in Seq(Verdicts) /\ reply[p] # <<>> /\ reply' = [reply EXCEPT ![p] = Tail(@)]
        /\ pc[p] = "llm" /\ pc' = [pc EXCEPT ![p] = "llm"] /\ Move(p, "llm", "llm")
    BY <1>1, <1>2 DEF TakesReview, Move
  <2>2. Head(reply[p]) \in Verdicts /\ Tail(reply[p]) \in Seq(Verdicts)
    BY <2>1, TakingFacts
  <2> QED
    BY <1>1, <2>1, <2>2
<1>3. CASE ReviewCandidate(p)
  <2>1. /\ TakesReview(p) /\ Head(reply[p]).approved
        /\ UNCHANGED <<keyed, working, baseline, spec, at, sameData, disk, measuredOn, overlap, misread, runCount,
                       dataCount, faultCount>>
    BY <1>3 DEF ReviewCandidate
  <2>2. PICK r \in Results : Validate(p, Head(reply[p]).params, r)
    BY <1>3 DEF ReviewCandidate
  <2>3. pc' = pc /\ pc[p] = "llm" /\ reply' \in [Procs -> Seq(Verdicts)]
    BY <1>1, <1>2, <2>1 DEF RunTypes
  <2>4. Cells'
    BY <1>1, <2>1 DEF Cells, InGrid
  <2>5. Head(reply[p]).params \in Candidates
    BY <1>2, <2>1 DEF Verdicts
  <2> QED
    BY <2>1, <2>2, <2>3, <2>4, <2>5, ValidateKeeps
<1>4. CASE CandidateRejected(p)
  <2>1. /\ TakesReview(p)
        /\ UNCHANGED <<keyed, working, best, baseline, base, metrics, spec, at, gains, sameData, disk, measured,
                       histVars>>
    BY <1>4 DEF CandidateRejected
  <2>2. CountTypes'
    BY <1>1, <1>4, <2>1, FaultTypes DEF CandidateRejected, CountTypes, histVars
  <2>3. Cells' /\ MeasuredTypes' /\ MeasuresMore
    BY <1>1, <2>1 DEF Cells, InGrid, MeasuredTypes, MeasuresMore
  <2> QED
    BY <1>2, <2>1, <2>2, <2>3, MoveKeeps DEF histVars
<1>5. CASE FallBack(p)
  <2>1. Move(p, "llm", "grid") /\ UNCHANGED <<runVars, disk, measured, histVars, faultCount>>
    BY <1>5 DEF FallBack
  <2>2. Cells' /\ MeasuredTypes' /\ MeasuresMore /\ CountTypes' /\ reply' \in [Procs -> Seq(Verdicts)]
    BY <1>1, <2>1 DEF runVars, histVars, Cells, InGrid, MeasuredTypes, MeasuresMore, CountTypes
  <2> QED
    BY <2>1, <2>2, MoveKeeps DEF runVars, histVars
<1>6. CASE GridCell(p)
  <2>1. /\ InGrid(p) /\ pc[p] = "grid" /\ pc' = [pc EXCEPT ![p] = "grid"]
        /\ UNCHANGED <<keyed, working, baseline, reply, sameData, disk, measuredOn, overlap, misread, runCount,
                       dataCount, faultCount>>
    BY <1>6 DEF GridCell, Move
  <2>2. PICK r \in Results : Validate(p, Grid[spec[p]][at[p]], r) /\ NextCell(p, Accepts(r, base[p]))
    BY <1>6 DEF GridCell
  <2>3. pc' = pc
    BY <1>1, <2>1 DEF RunTypes
  <2>4. Cells'
    BY <1>1, <2>1, <2>2, NextCellTypes, AcceptsBoolean
  <2>5. Grid[spec[p]][at[p]] \in Candidates
    <3>1. /\ spec[p] \in 1..(Len(Grid) + 1) /\ spec[p] <= Len(Grid) /\ at[p] \in 1..Len(Grid[spec[p]])
      BY <1>1, <2>1 DEF Cells, InGrid
    <3> QED
      BY <3>1, FirstCell
  <2>6. reply' \in [Procs -> Seq(Verdicts)]
    BY <1>1, <2>1
  <2> QED
    BY <2>1, <2>2, <2>3, <2>4, <2>5, <2>6, ValidateKeeps
<1>7. CASE GridCellRaises(p)
  <2>1. /\ InGrid(p) /\ Move(p, "grid", "grid") /\ NextCell(p, FALSE)
        /\ UNCHANGED <<keyed, working, best, baseline, base, metrics, reply, gains, sameData, disk, measured,
                       histVars>>
    BY <1>7 DEF GridCellRaises
  <2>2. CountTypes'
    BY <1>1, <1>7, FaultTypes DEF GridCellRaises, CountTypes, histVars
  <2>3. Cells' /\ MeasuredTypes' /\ MeasuresMore /\ reply' \in [Procs -> Seq(Verdicts)]
    BY <1>1, <2>1, NextCellTypes DEF MeasuredTypes, MeasuresMore
  <2> QED
    BY <2>1, <2>2, <2>3, MoveKeeps DEF histVars
<1> QED
  BY <1>3, <1>4, <1>5, <1>6, <1>7 DEF Searches

LEMMA EndsKeeps ==
  ASSUME Invariant, NEW p \in Procs, Ends(p)
  PROVE  Invariant'
<1>1. Types /\ CountTypes /\ MeasuredTypes
  BY DEF Invariant, Types
<1>2. CASE PersistLLM(p) \/ PersistGrid(p) \/ Seed(p)
  <2>1. PICK from \in {"llm", "grid", "seed"}, ps \in Params, r \in Results \cup {None},
             path \in {"llm", "grid", "baseline_seed"}, accepted \in BOOLEAN :
          /\ Persist(p, from, ps, r, path, accepted)
          /\ ps = working[p] \/ r # None
          /\ accepted /\ path \in {"llm", "grid"} => ps = best[p] /\ ps \in validated
    BY <1>2, PersistCases
  <2> QED
    BY <2>1, PersistKeeps
<1>3. ASSUME NEW from, End(p, from), NEW f, Happens(f), UNCHANGED <<disk, measured, histVars>>
      PROVE  Invariant'
  <2>1. CountTypes' /\ MeasuredTypes' /\ MeasuresMore
    BY <1>1, <1>3, FaultTypes DEF CountTypes, MeasuredTypes, MeasuresMore, histVars
  <2> QED
    BY <1>3, <2>1, EndKeeps DEF histVars
<1>4. CASE WriteRaises(p)
  BY <1>3, <1>4 DEF WriteRaises
<1>5. CASE Kill(p)
  BY <1>3, <1>5 DEF Kill
<1> QED
  BY <1>2, <1>4, <1>5 DEF Ends

LEMMA InitKeeps == Init => Invariant
<1> SUFFICES ASSUME Init PROVE Invariant
  OBVIOUS
<1> USE IntelligenceAssumption DEF Init
<1>1. RunTypes
  BY GridNat, SMT DEF RunTypes
<1>2. Cells
  <2>1. 1 \in 1..(Len(Grid) + 1)
    BY GridNat, SMT
  <2>2. \A p \in Procs : spec[p] = 1 /\ at[p] = 1
    OBVIOUS
  <2> QED
    BY <2>1, <2>2, FirstCell DEF Cells, InGrid
<1>3. MeasuredTypes
  <2>1. DOMAIN measured = {}
    OBVIOUS
  <2> QED
    BY <2>1 DEF MeasuredTypes
<1>4. CountTypes
  BY SMT DEF CountTypes
<1>5. DiskTypes /\ HistoryTypes
  BY DEF DiskTypes, HistoryTypes
<1>6. Alone /\ Recorded
  BY DEF Alone, Recorded, AdoptedIsValidated, MetricsOfParams
<1>7. ASSUME NEW p \in Procs
      PROVE  Local(p)
  BY DEF Local, Fresh, Accepted, Current, Gained
<1> QED
  BY <1>1, <1>2, <1>3, <1>4, <1>5, <1>6, <1>7 DEF Invariant, Types

LEMMA StutterKeeps ==
  ASSUME Invariant, UNCHANGED vars
  PROVE  Invariant'
<1>1. /\ UNCHANGED <<pc, keyed, working, best, baseline, base, metrics, spec, at, reply, gains, sameData>>
      /\ UNCHANGED <<disk, measured, validated, measuredOn, overlap, misread, runCount, dataCount, faultCount>>
  BY DEF vars, runVars, histVars
<1>2. Types' /\ Alone' /\ Recorded'
  BY <1>1 DEF Invariant, Types, RunTypes, Cells, InGrid, DiskTypes, MeasuredTypes, HistoryTypes, CountTypes, Alone,
              Recorded, AdoptedIsValidated, MetricsOfParams
<1>3. ASSUME NEW p \in Procs
      PROVE  Local(p)'
  BY <1>1, SameKeeps DEF Invariant, Same, MeasuresMore, Sound, Stored
<1> QED
  BY <1>2, <1>3 DEF Invariant

LEMMA NextKeeps ==
  ASSUME Invariant, [Next]_vars
  PROVE  Invariant'
  BY BeginsKeeps, SearchesKeeps, EndsKeeps, NewDataKeeps, StutterKeeps DEF Next

LEMMA InvariantHolds == Spec => []Invariant
<1>1. Invariant /\ [Next]_vars => Invariant'
  BY NextKeeps
<1> QED
  BY InitKeeps, <1>1, PTL DEF Spec

-----------------------------------------------------------------------------
(* The theorems                                                            *)

\* Every variable keeps its type, and the search stays on the grid.
THEOREM IntelligenceTypes == Spec => []TypeOK
<1>1. Invariant => TypeOK
  BY TypesAreTypeOK DEF Invariant
<1> QED
  BY InvariantHolds, <1>1, PTL

\* What a search records as adopted (loop.py 220-232, 246-262) has passed the
\* Validator as a whole, whatever the models propose and whatever fails.
THEOREM IntelligenceAdopted == Spec => []AdoptedIsValidated
<1>1. Invariant => AdoptedIsValidated
  BY DEF Invariant, Recorded
<1> QED
  BY InvariantHolds, <1>1, PTL

\* The metrics that the review compares with (resident.py 549-574) were measured
\* on the parameters beside them.
THEOREM IntelligenceMetrics == Spec => []MetricsOfParams
<1>1. Invariant => MetricsOfParams
  BY DEF Invariant, Recorded
<1> QED
  BY InvariantHolds, <1>1, PTL

\* Only persist steps write the store.
LEMMA WritesAreCases ==
  ASSUME Invariant, Next, disk' # disk
  PROVE  \E p \in Procs : PersistLLM(p) \/ PersistGrid(p) \/ Seed(p)
<1>1. ~NewData
  BY DEF NewData
<1>2. PICK p \in Procs : Begins(p) \/ Searches(p) \/ Ends(p)
  BY <1>1 DEF Next
<1>3. ~Begins(p)
  BY DEF Begins, Begin, ReviewUnmeasured, Review, ReviewRaises, Read, ReadFails, Start, Baseline, BaselineRaises, Ask,
          AskRaises
<1>4. ~Searches(p)
  BY DEF Searches, ReviewCandidate, CandidateRejected, FallBack, GridCell, GridCellRaises
<1>5. ~WriteRaises(p) /\ ~Kill(p)
  BY DEF WriteRaises, Kill
<1> QED
  BY <1>2, <1>3, <1>4, <1>5 DEF Ends

\* What such a step writes, in terms of the run that makes it.
LEMMA WriteFacts ==
  ASSUME Invariant, NEW p \in Procs, PersistLLM(p) \/ PersistGrid(p) \/ Seed(p)
  PROVE  /\ pc[p] \in {"llm", "grid", "seed"} /\ \A q \in Procs \ {p} : Same(q)
         /\ validated' = validated /\ measured' = measured
         /\ \/ disk'.params = working[p] /\ (disk'.accepted => disk'.path = "baseline_seed")
            \/ disk'.params = best[p] /\ best[p] \in validated /\ disk'.accepted
<1>1. Types /\ (metrics[p] # None => best[p] \in validated)
  BY DEF Invariant, Local, Accepted
<1>2. ASSUME NEW from \in {"llm", "grid", "seed"}, NEW ps, NEW r, NEW path, NEW accepted,
             Persist(p, from, ps, r, path, accepted)
      PROVE  /\ pc[p] = from /\ \A q \in Procs \ {p} : Same(q)
             /\ validated' = validated /\ measured' = measured
             /\ disk'.params = ps /\ disk'.path = path /\ disk'.accepted = accepted
  <2>1. End(p, from) /\ validated' = validated /\ measured' = measured
        /\ \E m \in {Keep(r), r} : disk' = [params |-> ps, metrics |-> m, path |-> path, accepted |-> accepted]
    BY <1>2 DEF Persist
  <2> QED
    BY <1>1, <2>1, EndFacts
<1>3. CASE PersistLLM(p)
  BY <1>1, <1>2, <1>3 DEF PersistLLM
<1>4. CASE Seed(p)
  BY <1>2, <1>4 DEF Seed
<1>5. CASE PersistGrid(p)
  <2>1. CASE metrics[p] # None /\ best[p] # working[p]
    BY <1>1, <1>2, <1>5, <2>1 DEF PersistGrid
  <2>2. CASE ~(metrics[p] # None /\ best[p] # working[p]) /\ SeedIfNoAdopt
    <3>1. Persist(p, "grid", working[p], baseline[p], "baseline_seed", TRUE)
      BY <1>5, <2>2 DEF PersistGrid
    <3>2. /\ pc[p] = "grid" /\ \A q \in Procs \ {p} : Same(q)
          /\ validated' = validated /\ measured' = measured
      BY <1>2, <3>1
    <3>3. \E m \in {Keep(baseline[p]), baseline[p]} :
            disk' = [params |-> working[p], metrics |-> m, path |-> "baseline_seed", accepted |-> TRUE]
      BY <3>1 DEF Persist
    <3>4. disk'.params = working[p] /\ disk'.path = "baseline_seed"
      BY <3>3
    <3> QED
      BY <3>2, <3>4
  <2>3. CASE ~(metrics[p] # None /\ best[p] # working[p]) /\ ~SeedIfNoAdopt
    BY <1>2, <1>5, <2>3 DEF PersistGrid
  <2> QED
    BY <2>1, <2>2, <2>3
<1> QED
  BY <1>3, <1>4, <1>5

\* Seeding and searches that find nothing (loop.py 264-310) leave the stored
\* parameters, unless runs overlap or a read has failed.
THEOREM IntelligenceKeeps == Spec => KeepsAdopted
<1> DEFINE Keeps == disk.params # None /\ disk'.params # disk.params /\ ~overlap /\ ~misread
                      => disk'.accepted /\ disk'.params \in validated
<1>1. Invariant /\ [Next]_vars => [Keeps]_vars
  <2> SUFFICES ASSUME Invariant, Next, disk.params # None, disk'.params # disk.params, ~overlap, ~misread
               PROVE  disk'.accepted /\ disk'.params \in validated
    OBVIOUS
  <2>1. PICK p \in Procs : PersistLLM(p) \/ PersistGrid(p) \/ Seed(p)
    BY WritesAreCases
  <2>2. pc[p] \in {"llm", "grid", "seed"} => working[p] = disk.params
    BY DEF Invariant, Local, Current, Sound, Stored
  <2> QED
    BY <2>1, <2>2, WriteFacts
<1> QED
  BY InvariantHolds, <1>1, PTL DEF Spec, KeepsAdopted

\* The candidates that are accepted one after the other (loop.py 183-213, grid.py
\* 38-65) add up their improvements on the data of the run.
THEOREM IntelligenceGains == Spec => EachGainCounts
<1> DEFINE Counts == \A p \in Procs :
                       pc[p] \in {"llm", "grid"} /\ disk' # disk /\ pc'[p] = "idle" /\ disk'.path # "baseline_seed"
                         /\ disk'.accepted /\ sameData[p] =>
                           measured[disk'.params].wf >= measured[working[p]].wf + gains[p] * Improvement
<1>1. Invariant /\ [Next]_vars => [Counts]_vars
  <2> SUFFICES ASSUME Invariant, Next, NEW p \in Procs, pc[p] \in {"llm", "grid"}, disk' # disk, pc'[p] = "idle",
                      disk'.path # "baseline_seed", disk'.accepted, sameData[p]
               PROVE  measured[disk'.params].wf >= measured[working[p]].wf + gains[p] * Improvement
    OBVIOUS
  <2>1. PICK q \in Procs : PersistLLM(q) \/ PersistGrid(q) \/ Seed(q)
    BY WritesAreCases
  <2>2. q = p
    BY <2>1, WriteFacts DEF Same
  <2>3. disk'.params = best[p]
    BY <2>1, <2>2, WriteFacts
  <2>4. Gained(p)
    BY DEF Invariant, Local
  <2> QED
    BY <2>3, <2>4 DEF Gained
<1> QED
  BY InvariantHolds, <1>1, PTL DEF Spec, EachGainCounts
=============================================================================
