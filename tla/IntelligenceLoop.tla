-------------------------- MODULE IntelligenceLoop --------------------------
(***************************************************************************)
(* IntelligenceLoop.run on one parameter store: baseline, candidates of    *)
(* the language models (Dialogue), validation by backtest (Validator),     *)
(* grid search as a fallback, seeding, and the record of the outcome.  A   *)
(* run is begun by pretrade optimisation, by `main.py optimize`, or by the *)
(* weekly review when metrics have degraded; two processes may run at once *)
(* on the same store.  A backtest is a function of parameters and data,    *)
(* whose results are chosen when first asked for.                          *)
(***************************************************************************)
EXTENDS Dialogue

CONSTANTS Procs,
          Defaults,       \* params_from_config; a default need not be an allowed value
          Grid,           \* specs in order of priority, each a sequence of candidates
          Results,        \* results of a backtest, [wf, mdd, sound, robust, gate]
          MinWf, Improvement, \* min_wf_test_sharpe, wf_sharpe_improvement
          MaxMdd, Tolerance,  \* max_mdd_pct, mdd_worsen_tolerance_pct
          Trigger,        \* sharpe_degrade_trigger in percent
          AdoptTierA,     \* loop_engineering.adopt_tier_a
          NoApiSeed,      \* no_api_seed_baseline
          SeedIfNoAdopt,  \* seed_baseline_if_no_adopt
          Faults, FaultBound, \* the faults that may happen, and how many
          MaxRuns, MaxData \* bounds on the runs begun and on the changes of the data

AllFaults == {"read",     \* STATE.md cannot be read: the store answers with its defaults
              "write",    \* STATE.md or SKILL.md cannot be written
              "backtest", \* validate_strategy raises
              "kill"}     \* the process dies

Params == [Knobs -> Values]

ASSUME IntelligenceAssumption ==
    /\ Defaults \in Params /\ None \notin Params /\ None \notin Results
    /\ Grid \in Seq(Seq(Candidates)) /\ \A g \in 1..Len(Grid) : Grid[g] # <<>>
    /\ Results \subseteq [wf : Int, mdd : Nat, sound : BOOLEAN, robust : BOOLEAN, gate : BOOLEAN]
    /\ {MinWf, Improvement} \subseteq Int
    /\ {MaxMdd, Tolerance, FaultBound, MaxRuns, MaxData} \subseteq Nat /\ Trigger \in Nat \ {0}
    /\ {AdoptTierA, NoApiSeed, SeedIfNoAdopt} \subseteq BOOLEAN
    /\ Faults \subseteq AllFaults

VARIABLES
    \* one run
    pc,       \* where its thread stands
    keyed,    \* client.available()
    working,  \* the parameters it started from
    best,     \* working with what has been accepted
    baseline, \* result of working
    base,     \* result that the next candidate must improve on
    metrics,  \* result of best, None while nothing is accepted
    spec, at, \* position in the grid
    reply,    \* reviews of the Checker that are still to be looked at
    \* the store
    disk,     \* params, last_metrics, path and accepted of STATE.md
    \* the data
    measured, \* backtests on the present data, with their results
    \* history
    validated,  \* parameters the Validator has accepted
    measuredOn, \* parameters that last_metrics was measured on
    gains,      \* candidates accepted in the run
    sameData,   \* no new data since the run began
    overlap,    \* two runs on the store have been under way at once
    misread,    \* a run has been given defaults in place of the store
    runCount, dataCount, faultCount

runVars  == <<keyed, working, best, baseline, base, metrics, spec, at, reply, gains, sameData>>
histVars == <<validated, measuredOn, overlap, misread, runCount, dataCount>>
vars == <<pc, runVars, disk, measured, histVars, faultCount>>

Happens(f) == f \in Faults /\ faultCount < FaultBound /\ faultCount' = faultCount + 1

Move(p, from, to) == pc[p] = from /\ pc' = [pc EXCEPT ![p] = to]

\* What a run has in hand is gone when it ends.
End(p, from) ==
    /\ Move(p, from, "idle")
    /\ keyed' = [keyed EXCEPT ![p] = FALSE]
    /\ working' = [working EXCEPT ![p] = Defaults] /\ best' = [best EXCEPT ![p] = Defaults]
    /\ baseline' = [baseline EXCEPT ![p] = None]
    /\ base' = [base EXCEPT ![p] = None] /\ metrics' = [metrics EXCEPT ![p] = None]
    /\ spec' = [spec EXCEPT ![p] = 1] /\ at' = [at EXCEPT ![p] = 1] /\ reply' = [reply EXCEPT ![p] = <<>>]
    /\ gains' = [gains EXCEPT ![p] = 0] /\ sameData' = [sameData EXCEPT ![p] = TRUE]

\* LoopParams.merge
Merge(ps, c) == [k \in Knobs |-> IF k \in DOMAIN c THEN c[k] ELSE ps[k]]

\* Mutant of Stored: what has been adopted is not read back.
StoredForgotten == Defaults

\* state.get_params on top of params_from_config
Stored == IF disk.params = None THEN Defaults ELSE disk.params

\* BacktestAgent.validate_strategy.  A run keeps the regime it began with: once
\* the data have changed, its backtests are not those of another run.
Backtest(p, ps, r) ==
    IF sameData[p]
    THEN /\ ps \in DOMAIN measured => r = measured[ps]
         /\ measured' = [x \in DOMAIN measured \cup {ps} |-> IF x = ps THEN r ELSE measured[x]]
    ELSE UNCHANGED measured

Init ==
    /\ pc = [p \in Procs |-> "idle"]
    /\ keyed = [p \in Procs |-> FALSE]
    /\ working = [p \in Procs |-> Defaults] /\ best = [p \in Procs |-> Defaults]
    /\ baseline = [p \in Procs |-> None]
    /\ base = [p \in Procs |-> None] /\ metrics = [p \in Procs |-> None]
    /\ spec = [p \in Procs |-> 1] /\ at = [p \in Procs |-> 1] /\ reply = [p \in Procs |-> <<>>]
    /\ disk = [params |-> None, metrics |-> None, path |-> None, accepted |-> FALSE]
    /\ measured = [ps \in {} |-> None]
    /\ validated = {} /\ measuredOn = None
    /\ gains = [p \in Procs |-> 0] /\ sameData = [p \in Procs |-> TRUE]
    /\ overlap = FALSE /\ misread = FALSE
    /\ runCount = 0 /\ dataCount = 0 /\ faultCount = 0

-----------------------------------------------------------------------------
(* The beginning of a run                                                  *)

\* An optimisation begins at once, the review looks at the metrics first.
Begin(p) ==
    /\ runCount < MaxRuns /\ runCount' = runCount + 1
    /\ \E to \in {"read", "review"} : Move(p, "idle", to)
    /\ \E env \in Environments : keyed' = [keyed EXCEPT ![p] = Available(env)]
    /\ overlap' = (overlap \/ \E q \in Procs : pc[q] # "idle")
    /\ UNCHANGED <<working, best, baseline, base, metrics, spec, at, reply, gains, sameData, disk, measured,
                   validated, measuredOn, misread, dataCount, faultCount>>

\* metrics_degraded: a loss against the recorded Sharpe, or a failed gate.
Degraded(was, r) ==
    \/ was.wf # 0 /\ 100 * (was.wf - r.wf) >= Trigger * (IF was.wf < 0 THEN -was.wf ELSE was.wf)
    \/ ~r.gate

\* A store without metrics, or one that cannot be read, is taken for degraded.
ReviewUnmeasured(p) ==
    /\ Move(p, "review", "read")
    /\ IF disk.metrics = None THEN UNCHANGED faultCount ELSE Happens("read")
    /\ UNCHANGED <<runVars, disk, measured, histVars>>

Review(p) ==
    /\ pc[p] = "review" /\ disk.metrics # None
    /\ \E r \in Results :
         /\ Backtest(p, Stored, r)
         /\ \/ Degraded(disk.metrics, r) /\ Move(p, "review", "read") /\ UNCHANGED runVars
            \/ ~Degraded(disk.metrics, r) /\ End(p, "review")
    /\ UNCHANGED <<disk, histVars, faultCount>>

\* What raises in the review of a store leaves it as it is.
ReviewRaises(p) ==
    /\ disk.metrics # None /\ End(p, "review") /\ Happens("backtest")
    /\ UNCHANGED <<disk, measured, histVars>>

Start(p, ps) ==
    /\ Move(p, "read", IF ~keyed[p] /\ NoApiSeed THEN "seed" ELSE "baseline")
    /\ working' = [working EXCEPT ![p] = ps] /\ best' = [best EXCEPT ![p] = ps]
    /\ UNCHANGED <<keyed, baseline, base, metrics, spec, at, reply, gains, sameData, disk, measured, validated,
                   measuredOn, overlap, runCount, dataCount>>

\* The stored parameters on top of the defaults; what is stored names every knob.
Read(p) == Start(p, Stored) /\ UNCHANGED <<misread, faultCount>>

\* StateStore answers a failed read with an empty store.
ReadFails(p) ==
    /\ Happens("read") /\ disk.params # None
    /\ Start(p, Defaults) /\ misread' = TRUE

Baseline(p) ==
    /\ Move(p, "baseline", IF keyed[p] THEN "ask" ELSE "grid")
    /\ \E r \in Results : /\ Backtest(p, working[p], r)
                          /\ baseline' = [baseline EXCEPT ![p] = r] /\ base' = [base EXCEPT ![p] = r]
    /\ UNCHANGED <<keyed, working, best, metrics, spec, at, reply, gains, sameData, disk, histVars, faultCount>>

BaselineRaises(p) ==
    /\ Happens("backtest")
    /\ IF SeedIfNoAdopt THEN Move(p, "baseline", "seed") /\ UNCHANGED runVars ELSE End(p, "baseline")
    /\ UNCHANGED <<disk, measured, histVars>>

-----------------------------------------------------------------------------
(* Validator                                                               *)

\* evaluate_trial: Tier A with the hard stops, Tier B on top of it.
TierA(r, than) ==
    /\ r.sound
    /\ r.wf >= MinWf /\ r.wf >= than.wf + Improvement
    /\ r.mdd <= MaxMdd /\ r.mdd <= than.mdd + Tolerance

Accepts(r, than) == TierA(r, than) /\ (r.robust \/ AdoptTierA)

\* Mutant of Trial: the candidate is tried on the parameters of the beginning.
TrialOfWorking(p, c) == Merge(working[p], c)

\* The candidate is tried on top of what has been accepted.
Trial(p, c) == Merge(best[p], c)

\* Mutant of NextBase: each candidate is compared with the parameters of the beginning.
FirstBase(p, r) == base[p]

\* What is accepted is the next baseline.
NextBase(p, r) == r

\* ParamValidator.validate and what its callers do with the verdict.
Validate(p, c, r) ==
    /\ Backtest(p, Trial(p, c), r)
    /\ IF Accepts(r, base[p])
       THEN /\ best' = [best EXCEPT ![p] = Merge(@, c)]
            /\ metrics' = [metrics EXCEPT ![p] = r]
            /\ base' = [base EXCEPT ![p] = NextBase(p, r)]
            /\ validated' = validated \cup {Trial(p, c)} /\ gains' = [gains EXCEPT ![p] = @ + 1]
       ELSE UNCHANGED <<best, metrics, base, validated, gains>>

-----------------------------------------------------------------------------
(* _run_llm                                                                *)

\* Maker and Checker, one after the other, before any candidate is tried.
Ask(p) ==
    /\ Move(p, "ask", "llm")
    /\ \E d \in Dialogues : /\ ~\E o \in OverridesRead(d) : MustRaise(o)
                            /\ reply' = [reply EXCEPT ![p] = Reviews(d)]
    /\ UNCHANGED <<keyed, working, best, baseline, base, metrics, spec, at, gains, sameData, disk, measured, histVars,
                   faultCount>>

\* A value that is no number, proposed or reviewed, ends the run: its caller goes on
\* with the next store.
AskRaises(p) ==
    /\ End(p, "ask")
    /\ \E d \in Dialogues : \E o \in OverridesRead(d) : MayRaise(o)
    /\ UNCHANGED <<disk, measured, histVars, faultCount>>

TakesReview(p) ==
    /\ reply[p] # <<>> /\ Move(p, "llm", "llm")
    /\ reply' = [reply EXCEPT ![p] = Tail(@)]

\* An approved review, in the order of the reply; the same candidate may come twice.
ReviewCandidate(p) ==
    /\ TakesReview(p) /\ Head(reply[p]).approved
    /\ \E r \in Results : Validate(p, Head(reply[p]).params, r)
    /\ UNCHANGED <<keyed, working, baseline, spec, at, sameData, disk, measuredOn, overlap, misread, runCount,
                   dataCount, faultCount>>

\* What the Checker rejects is not tried; a trial that raises is not accepted.
CandidateRejected(p) ==
    /\ TakesReview(p)
    /\ IF Head(reply[p]).approved THEN Happens("backtest") ELSE UNCHANGED faultCount
    /\ UNCHANGED <<keyed, working, best, baseline, base, metrics, spec, at, gains, sameData, disk, measured, histVars>>

\* _persist: update_state leaves last_metrics alone when there are none to write.
Keep(r) == IF r = None THEN disk.metrics ELSE r

\* update_state merges params and last_metrics key by key; each write names every key.
\* If the store cannot be read then, what is not written is lost.
Persist(p, from, ps, r, path, accepted) ==
    /\ End(p, from)
    /\ \E m \in {Keep(r), r} :
         /\ disk' = [params |-> ps, metrics |-> m, path |-> path, accepted |-> accepted]
         /\ IF m = Keep(r) THEN UNCHANGED faultCount ELSE Happens("read")
    /\ measuredOn' = IF r = None THEN measuredOn ELSE ps
    /\ UNCHANGED <<measured, validated, overlap, misread, runCount, dataCount>>

PersistLLM(p) ==
    /\ reply[p] = <<>> /\ metrics[p] # None
    /\ Persist(p, "llm", best[p], metrics[p], "llm", TRUE)

\* No candidate, no reply, or none accepted.
FallBack(p) ==
    /\ reply[p] = <<>> /\ metrics[p] = None
    /\ Move(p, "llm", "grid")
    /\ UNCHANGED <<runVars, disk, measured, histVars, faultCount>>

-----------------------------------------------------------------------------
(* _run_grid and _seed_baseline                                            *)

\* The next value of the spec; the next spec after an accepted value or the last.
NextCell(p, accepted) ==
    LET done == accepted \/ at[p] = Len(Grid[spec[p]])
    IN  /\ spec' = [spec EXCEPT ![p] = IF done THEN @ + 1 ELSE @]
        /\ at' = [at EXCEPT ![p] = IF done THEN 1 ELSE @ + 1]

InGrid(p) == spec[p] <= Len(Grid)

GridCell(p) ==
    /\ InGrid(p) /\ Move(p, "grid", "grid")
    /\ \E r \in Results : Validate(p, Grid[spec[p]][at[p]], r) /\ NextCell(p, Accepts(r, base[p]))
    /\ UNCHANGED <<keyed, working, baseline, reply, sameData, disk, measuredOn, overlap, misread, runCount,
                   dataCount, faultCount>>

GridCellRaises(p) ==
    /\ InGrid(p) /\ Move(p, "grid", "grid") /\ Happens("backtest")
    /\ NextCell(p, FALSE)
    /\ UNCHANGED <<keyed, working, best, baseline, base, metrics, reply, gains, sameData, disk, measured, histVars>>

PersistGrid(p) ==
    /\ ~InGrid(p)
    /\ IF metrics[p] # None /\ best[p] # working[p]
       THEN Persist(p, "grid", best[p], metrics[p], "grid", TRUE)
       ELSE IF SeedIfNoAdopt
       THEN Persist(p, "grid", working[p], baseline[p], "baseline_seed", TRUE)
       ELSE Persist(p, "grid", working[p], None, "grid", FALSE)

\* Without a key or without a baseline: what the run started from, unmeasured.
Seed(p) == Persist(p, "seed", working[p], None, "baseline_seed", TRUE)

\* An exception of update_state or of SKILL.md ends the run: the caller goes on
\* with the next store, and what the run has accepted is lost.
WriteRaises(p) ==
    /\ \E from \in {"llm", "seed", "grid"} : (from = "grid" => ~InGrid(p)) /\ End(p, from)
    /\ Happens("write")
    /\ UNCHANGED <<disk, measured, histVars>>

-----------------------------------------------------------------------------
(* The end of a process, and the data                                      *)

Kill(p) ==
    /\ pc[p] # "idle" /\ End(p, pc[p]) /\ Happens("kill")
    /\ UNCHANGED <<disk, measured, histVars>>

\* New bars: a backtest may come out otherwise.
NewData ==
    /\ dataCount < MaxData /\ dataCount' = dataCount + 1
    /\ measured' = [ps \in {} |-> None]
    /\ sameData' = [p \in Procs |-> pc[p] = "idle"]
    /\ UNCHANGED <<pc, keyed, working, best, baseline, base, metrics, spec, at, reply, gains, disk, validated,
                   measuredOn, overlap, misread, runCount, faultCount>>

Begins(p) == Begin(p) \/ ReviewUnmeasured(p) \/ Review(p) \/ ReviewRaises(p) \/ Read(p) \/ ReadFails(p)
               \/ Baseline(p) \/ BaselineRaises(p) \/ Ask(p) \/ AskRaises(p)
Searches(p) == ReviewCandidate(p) \/ CandidateRejected(p) \/ FallBack(p) \/ GridCell(p) \/ GridCellRaises(p)
Ends(p) == PersistLLM(p) \/ PersistGrid(p) \/ Seed(p) \/ WriteRaises(p) \/ Kill(p)

Next == (\E p \in Procs : Begins(p) \/ Searches(p) \/ Ends(p)) \/ NewData

Spec == Init /\ [][Next]_vars

-----------------------------------------------------------------------------
(* Properties                                                              *)

\* Every variable has the type its code counterpart has, and the place in the grid
\* is one of its cells or just behind it.
TypeOK ==
    /\ pc \in [Procs -> {"idle", "review", "read", "baseline", "ask", "llm", "grid", "seed"}]
    /\ keyed \in [Procs -> BOOLEAN]
    /\ working \in [Procs -> Params] /\ best \in [Procs -> Params]
    /\ {baseline, base, metrics} \subseteq [Procs -> Results \cup {None}]
    /\ \A p \in Procs : pc[p] \in {"ask", "llm", "grid"} => baseline[p] # None /\ base[p] # None
    /\ spec \in [Procs -> 1..(Len(Grid) + 1)]
    /\ \A p \in Procs : at[p] \in IF InGrid(p) THEN 1..Len(Grid[spec[p]]) ELSE {1}
    /\ reply \in [Procs -> Seq(Verdicts)]
    /\ disk \in [params : Params \cup {None}, metrics : Results \cup {None},
                 path : {"llm", "grid", "baseline_seed", None}, accepted : BOOLEAN]
    /\ DOMAIN measured \subseteq Params /\ \A ps \in DOMAIN measured : measured[ps] \in Results
    /\ validated \subseteq Params /\ measuredOn \in Params \cup {None}
    /\ gains \in [Procs -> Nat] /\ sameData \in [Procs -> BOOLEAN]
    /\ {overlap, misread} \subseteq BOOLEAN
    /\ runCount \in 0..MaxRuns /\ dataCount \in 0..MaxData /\ faultCount \in 0..FaultBound

\* What a search records as adopted has, as a whole, passed the Validator, however
\* many candidates were put together and whatever failed or ran beside it.
AdoptedIsValidated ==
    disk.accepted /\ disk.path \in {"llm", "grid"} => disk.params \in validated

\* last_metrics, against which the review measures a loss, were measured on the
\* parameters they stand beside, unless two runs overlapped or a read failed.
MetricsOfParams ==
    ~overlap /\ ~misread /\ disk.metrics # None => measuredOn = disk.params

\* Seeding and failed searches do not replace stored parameters: only what the
\* Validator has accepted does, unless two runs overlapped or a read failed.
KeepsAdopted ==
    [][disk.params # None /\ disk'.params # disk.params /\ ~overlap /\ ~misread
         => disk'.accepted /\ disk'.params \in validated]_vars

\* Each accepted candidate improves on the one before: a run that adopts after n of
\* them is n improvements ahead of where it started, on the data of the run.
EachGainCounts ==
    [][\A p \in Procs :
         pc[p] \in {"llm", "grid"} /\ disk' # disk /\ pc'[p] = "idle" /\ disk'.path # "baseline_seed"
           /\ disk'.accepted /\ sameData[p] =>
             measured[disk'.params].wf >= measured[working[p]].wf + gains[p] * Improvement]_vars
=============================================================================
