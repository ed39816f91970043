--------------------------- MODULE PairExecution ---------------------------
(***************************************************************************)
(* The execution phase of one pipeline run: MetaAgent.run walks over its  *)
(* jobs (single signals first, then pairs), prepares and gates them, and  *)
(* drives ExecutionAgent.execute, execute_pair_atomic and                 *)
(* ExecutionAgent.close_filled_plan against an MT5 terminal whose replies *)
(* may be lost, partial or late.                                          *)
(*                                                                        *)
(* A leg is one ExecutionPlan object: execute returns the plan it was     *)
(* given, so the result list of execute_pair_atomic aliases the plans of  *)
(* the legs.  An order is <<leg, n>>, the n-th order_send of the leg, and *)
(* so is the position it opens: MT5 numbers positions by opening order.   *)
(***************************************************************************)
EXTENDS Naturals, Sequences, FiniteSets

CONSTANTS Legs,           \* plan objects, those of earlier runs included
          SymbolOf,       \* SymbolOf[l]: the MT5 symbol a leg resolves to
          Jobs,           \* sequence of [kind : {"single","pair"}, legs : Seq(Legs)]
          PriorOpen,      \* positions that earlier runs left open
          MaxRetries,     \* execution.max_retries
          Threshold,      \* execution.circuit_breaker_threshold
          OrphanRetries,  \* PAIR_ORPHAN_RETRIES
          Modes,          \* the values of trading.dry_run considered
          Faults,         \* the faults of the environment that may happen
          FaultBound      \* how many steps of a run meet a fault or age a quote, at most

AllFaults == {"lost",     \* order_send returns None, whatever the broker does
              "partial",  \* TRADE_RETCODE_DONE_PARTIAL
              "placed",   \* TRADE_RETCODE_PLACED: accepted, not executed yet
              "log",      \* the telemetry database raises after a fill
              "exit",     \* a position is closed by the broker or by hand
              "closefail",\* the closing order does not go through
              "raise",    \* an exception that is not an ExecutionError
              "kill"}     \* the process dies

ASSUME JobsAssumption ==
    Jobs \in Seq([kind : {"single", "pair"}, legs : Seq(Legs)])
\* A single signal is one leg, and every plan object belongs to one leg of one job.
ASSUME LegsAssumption ==
    /\ \A i \in 1..Len(Jobs) :
         Jobs[i].kind = "single" => Len(Jobs[i].legs) = 1
    /\ \A i1, i2 \in 1..Len(Jobs) :
         \A a \in 1..Len(Jobs[i1].legs), b \in 1..Len(Jobs[i2].legs) :
           Jobs[i1].legs[a] = Jobs[i2].legs[b] => i1 = i2 /\ a = b
ASSUME RetryAssumption ==
    MaxRetries \in Nat \ {0} /\ Threshold \in Nat \ {0} /\ OrphanRetries \in Nat \ {0}
ASSUME BrokerAssumption ==
    /\ PriorOpen \subseteq Legs \X {0}
    \* a run makes its plan objects anew
    /\ \A p \in PriorOpen : \A i \in 1..Len(Jobs) : \A a \in 1..Len(Jobs[i].legs) :
         p[1] # Jobs[i].legs[a]
    /\ Modes \subseteq BOOLEAN /\ Faults \subseteq AllFaults /\ FaultBound \in Nat

VARIABLES
    \* MetaAgent.run and execute_pair_atomic
    pc,        \* where the single thread of the run stands
    j,         \* the job it is working on
    k,         \* the leg of the job it is executing
    round,     \* 0: the entry; n > 0: n-th retry of the missing leg
    prepared,  \* legs that came through the risk and cost gate
    closed,    \* closed[l]: status of the plan appended by close_fn
    \* ExecutionAgent
    attempt,   \* attempt number inside execute, 0 outside its retry loop
    plan,      \* the mutable plan of each leg
    stale,     \* legs whose quote has grown older than quote_max_age_seconds
    failures,  \* _consecutive_failures
    circuit,   \* _circuit_open
    dryRun,    \* trading.dry_run
    \* the MT5 terminal
    sends,     \* sends[l]: order_send calls made to open l
    working,   \* orders the broker has not decided
    open,      \* open positions
    \* history
    undone,    \* undone[l]: positions closed as the orphan of leg l
    refused,   \* legs once turned away for a stale quote
    faults,    \* the kinds of faults that have happened
    faultCount \* the number of steps that met one, or aged a quote

runVars    == <<pc, j, k, round, prepared, closed>>
agentVars  == <<attempt, plan, stale, refused, failures, circuit, dryRun>>
brokerVars == <<sends, working, open, undone>>
faultVars  == <<faults, faultCount>>
vars       == <<runVars, agentVars, brokerVars, faultVars>>

Job      == Jobs[j]
Leg      == Job.legs[k]
JobLegs  == {Job.legs[i] : i \in 1..Len(Job.legs)}
Order(l) == <<l, sends[l]>>

Statuses == {"planned", "skipped", "failed", "filled", "partial", "simulated", "rejected"}
\* lots: plan.lots > 0; filled: plan.filled_lots > 0; ticket: the order it names, 0 for None
Plans == [lots : BOOLEAN, status : Statuses, filled : BOOLEAN, ticket : Nat]
PlanWith(lots, status, filled, ticket) ==
    [lots |-> lots, status |-> status, filled |-> filled, ticket |-> ticket]
NewPlan == PlanWith(TRUE, "planned", FALSE, 0)
SetPlan(p) == plan' = [plan EXCEPT ![Leg] = p]

PlanIsFilled(p) ==
    /\ p.filled
    /\ p.status \notin {"skipped", "planned", "rejected", "failed"}
    /\ p.status \in {"filled", "simulated", "partial"} \/ p.ticket # 0

AllHappen(fs) ==
    /\ fs \subseteq Faults
    /\ faults' = faults \cup fs
    /\ faultCount' = faultCount + (IF fs = {} THEN 0 ELSE 1)
    /\ faultCount' <= FaultBound
Happens(f) == AllHappen({f})

Init ==
    /\ pc = IF Jobs = <<>> THEN "done" ELSE "prepare"
    /\ j = 1 /\ k = 1 /\ round = 0
    /\ prepared = {}
    /\ closed = [l \in Legs |-> "none"]
    /\ attempt = 0
    /\ plan = [l \in Legs |-> NewPlan]
    /\ stale = {} /\ refused = {}
    /\ failures = 0 /\ circuit = FALSE      \* a fresh agent for every run
    /\ dryRun \in Modes
    /\ sends = [l \in Legs |-> 0]
    /\ working = {}
    /\ open = PriorOpen
    /\ undone = [l \in Legs |-> {}]
    /\ faults = {} /\ faultCount = 0

-----------------------------------------------------------------------------
(* MetaAgent.run: the job loop and the pair gate                           *)

NextJob ==
    /\ j' = j + 1 /\ k' = 1 /\ round' = 0
    /\ pc' = IF j = Len(Jobs) THEN "done" ELSE "prepare"

\* A leg fails the risk or the cost gate, or the pair does not have two legs:
\* the legs before the failing one have been prepared, none is executed.
BlockJob ==
    /\ pc = "prepare"
    /\ NextJob
    /\ IF Job.kind = "pair" /\ Len(Job.legs) # 2
       THEN UNCHANGED prepared
       ELSE \E blocked \in 1..Len(Job.legs) :
              prepared' = prepared \cup {Job.legs[i] : i \in 1..(blocked - 1)}
    /\ UNCHANGED <<closed, agentVars, brokerVars, faultVars>>

\* Mutant of PassGate: the pair goes on when its first leg is executable.
PassGateOnFirstLeg ==
    /\ pc = "prepare"
    /\ Job.kind = "pair" => Len(Job.legs) = 2
    /\ prepared' = prepared \cup {Job.legs[1]}
    /\ pc' = "execute"
    /\ UNCHANGED <<j, k, round, closed, agentVars, brokerVars, faultVars>>

PassGate ==
    /\ pc = "prepare"
    /\ Job.kind = "pair" => Len(Job.legs) = 2
    /\ prepared' = prepared \cup JobLegs
    /\ pc' = "execute"
    /\ UNCHANGED <<j, k, round, closed, agentVars, brokerVars, faultVars>>

\* Quotes or bars cannot be read: nothing between here and runner.py catches it.
PrepareRaises ==
    /\ pc = "prepare" /\ Happens("raise")
    /\ Job.kind = "pair" => Len(Job.legs) = 2
    /\ pc' = "aborted"
    /\ UNCHANGED <<j, k, round, prepared, closed, agentVars, brokerVars>>

-----------------------------------------------------------------------------
(* ExecutionAgent.execute before its retry loop                            *)

ExecuteStep == pc = "execute" /\ UNCHANGED <<j, k, round, prepared, closed, brokerVars>>

CircuitRejects ==
    /\ ExecuteStep /\ circuit
    /\ pc' = "failed"
    /\ UNCHANGED <<agentVars, faultVars>>

SkipZeroLots ==
    /\ ExecuteStep /\ ~circuit /\ ~plan[Leg].lots
    /\ SetPlan(PlanWith(FALSE, "skipped", plan[Leg].filled, plan[Leg].ticket))
    /\ pc' = "returned"
    /\ UNCHANGED <<attempt, stale, refused, failures, circuit, dryRun, faultVars>>

\* The age of the quote is looked at here only, before the retry loop.
RejectStaleQuote ==
    /\ ExecuteStep /\ ~circuit /\ plan[Leg].lots /\ Leg \in stale
    /\ refused' = refused \cup {Leg}
    /\ pc' = "failed"
    /\ UNCHANGED <<attempt, plan, stale, failures, circuit, dryRun, faultVars>>

\* Mutant of MayExecute: no fail-fast behind an open circuit.
MayExecuteBehindCircuit == plan[Leg].lots /\ Leg \notin stale

MayExecute == ~circuit /\ plan[Leg].lots /\ Leg \notin stale

\* _execute_dry_run: the simulator fills all, part or nothing of the lots, and
\* a database that cannot log the simulated fill raises after the plan is set.
Simulate ==
    /\ ExecuteStep /\ MayExecute /\ dryRun
    /\ \E filled \in BOOLEAN :
         \E status \in IF filled THEN {"filled", "partial"} ELSE {"rejected", "simulated"} :
           SetPlan(PlanWith(TRUE, status, filled, plan[Leg].ticket))
    /\ \/ pc' = "returned" /\ UNCHANGED faultVars
       \/ pc' = "raised" /\ Happens("log") /\ plan'[Leg].status # "simulated"
    /\ UNCHANGED <<attempt, stale, refused, failures, circuit, dryRun>>

BeginAttempts ==
    /\ ExecuteStep /\ MayExecute /\ ~dryRun
    /\ attempt' = 1
    /\ pc' = "attempt"
    /\ UNCHANGED <<plan, stale, refused, failures, circuit, dryRun, faultVars>>

-----------------------------------------------------------------------------
(* ExecutionAgent.execute, one attempt of _execute_live                    *)

\* An ExecutionError ends the attempt; the last one counts as one failure.
AttemptFails ==
    /\ IF attempt < MaxRetries
       THEN /\ attempt' = attempt + 1 /\ pc' = "attempt"
            /\ UNCHANGED <<failures, circuit>>
       ELSE /\ pc' = "failed"
            /\ failures' = failures + 1
            /\ circuit' = (circuit \/ failures + 1 >= Threshold)
            /\ attempt' = 0
    /\ UNCHANGED <<plan, stale, refused, dryRun>>

AttemptStep == pc = "attempt" /\ UNCHANGED <<j, k, round, prepared, closed>>

\* Execution disabled, the account is not a DEMO account, or no tick.
AttemptRefused ==
    /\ AttemptStep /\ AttemptFails
    /\ UNCHANGED <<brokerVars, faultVars>>

\* The Execution Guard zeroes the lots and returns: execute takes it for a success.
SpreadGuard ==
    /\ AttemptStep
    /\ SetPlan(PlanWith(FALSE, "skipped", plan[Leg].filled, plan[Leg].ticket))
    /\ failures' = 0 /\ attempt' = 0
    /\ pc' = "returned"
    /\ UNCHANGED <<stale, refused, circuit, dryRun, brokerVars, faultVars>>

\* ensure_symbol raises ValueError or RuntimeError: no retry, no failure counted.
AttemptRaises ==
    /\ AttemptStep /\ Happens("raise")
    /\ pc' = "raised" /\ attempt' = 0
    /\ UNCHANGED <<plan, stale, refused, failures, circuit, dryRun, brokerVars>>

SendOrder ==
    /\ AttemptStep
    /\ sends' = [sends EXCEPT ![Leg] = @ + 1]
    /\ working' = working \cup {<<Leg, sends[Leg] + 1>>}
    /\ pc' = "reply"
    /\ UNCHANGED <<agentVars, open, undone, faultVars>>

ReplyStep == pc = "reply" /\ UNCHANGED <<j, k, round, prepared, closed, sends, undone>>

\* Mutant of ReplyRejected: the retcode is not looked at.
ReplyRejectedTakenForFill ==
    /\ ReplyStep
    /\ SetPlan(PlanWith(TRUE, "filled", TRUE, sends[Leg]))
    /\ failures' = 0 /\ attempt' = 0
    /\ working' = working \ {Order(Leg)}
    /\ pc' = "returned"
    /\ UNCHANGED <<stale, refused, circuit, dryRun, open, faultVars>>

ReplyRejected ==
    /\ ReplyStep /\ AttemptFails
    /\ working' = working \ {Order(Leg)}
    /\ UNCHANGED <<open, faultVars>>

\* No reply: the order may never have arrived, and it may still be executed.
ReplyLost ==
    /\ ReplyStep /\ AttemptFails /\ Happens("lost")
    /\ UNCHANGED <<working, open>>

\* A partial fill opens a position and is treated as a rejected order.
ReplyPartial ==
    /\ ReplyStep /\ AttemptFails /\ Happens("partial")
    /\ working' = working \ {Order(Leg)}
    /\ open' = open \cup {Order(Leg)}

\* DONE or PLACED: the plan is filled under the ticket of this order; a fill
\* that slipped too far opens the circuit.  A telemetry database that cannot
\* be written raises after that, past the line that resets the failures.
ReplyAccepted ==
    /\ ReplyStep
    /\ SetPlan(PlanWith(TRUE, "filled", TRUE, sends[Leg]))
    /\ circuit' \in {circuit, TRUE}
    /\ \E placed, logged \in BOOLEAN :
         /\ AllHappen((IF placed THEN {"placed"} ELSE {}) \cup
                      (IF logged THEN {} ELSE {"log"}))
         /\ IF placed THEN UNCHANGED <<working, open>>
            ELSE working' = working \ {Order(Leg)} /\ open' = open \cup {Order(Leg)}
         /\ IF logged THEN pc' = "returned" /\ failures' = 0
            ELSE pc' = "raised" /\ UNCHANGED failures
    /\ attempt' = 0
    /\ UNCHANGED <<stale, refused, dryRun>>

-----------------------------------------------------------------------------
(* What the callers of execute do with its outcome                         *)

SettleStep == UNCHANGED <<prepared, closed, attempt, stale, refused, failures, circuit,
                          dryRun, brokerVars, faultVars>>

\* _execute_prepared_leg: an ExecutionError leaves the plan as it is.
SingleSettles ==
    /\ pc \in {"returned", "failed"} /\ Job.kind = "single"
    /\ NextJob
    /\ SettleStep /\ UNCHANGED plan

\* Any other exception escapes the pipeline; the jobs left are never looked at.
SingleRaises ==
    /\ pc = "raised" /\ Job.kind = "single"
    /\ pc' = "aborted"
    /\ SettleStep /\ UNCHANGED <<j, k, round, plan>>

MarkFailed ==
    SetPlan(PlanWith(plan[Leg].lots, "failed", plan[Leg].filled, plan[Leg].ticket))

\* First loop of execute_pair_atomic: every exception is caught.
EntrySettles ==
    /\ pc \in {"returned", "failed", "raised"} /\ Job.kind = "pair" /\ round = 0
    /\ IF pc = "returned" THEN UNCHANGED plan ELSE MarkFailed
    /\ IF k = 1 THEN k' = 2 /\ pc' = "execute" ELSE UNCHANGED k /\ pc' = "judge"
    /\ SettleStep /\ UNCHANGED <<j, round>>

FilledLegs == {i \in {1, 2} : PlanIsFilled(plan[Job.legs[i]])}

\* Mutants of Judge: any() in the place of all(); the wrong index retried.
JudgeAny ==
    /\ pc = "judge" /\ NextJob
    /\ SettleStep /\ UNCHANGED plan

JudgeRetriesFilled ==
    /\ pc = "judge"
    /\ IF FilledLegs \in {{}, {1, 2}}
       THEN NextJob
       ELSE k' \in FilledLegs /\ round' = 1 /\ pc' = "execute" /\ UNCHANGED j
    /\ SettleStep /\ UNCHANGED plan

\* filled_flags: both or neither ends the pair, otherwise the missing leg is retried.
Judge ==
    /\ pc = "judge"
    /\ IF FilledLegs \in {{}, {1, 2}}
       THEN NextJob
       ELSE /\ k' \in {1, 2} \ FilledLegs
            /\ round' = 1 /\ pc' = "execute"
            /\ UNCHANGED j
    /\ SettleStep /\ UNCHANGED plan

\* Mutants of RetrySettles: the last retry not looked at, and a round that is never counted.
RetrySettlesLate(next(_), last) ==
    /\ pc \in {"returned", "failed", "raised"} /\ Job.kind = "pair" /\ round > 0
    /\ IF pc = "failed" THEN MarkFailed ELSE UNCHANGED plan
    /\ IF pc = "returned" /\ PlanIsFilled(plan[Leg]) /\ round < last
       THEN NextJob
       ELSE /\ IF round < last
               THEN round' = next(round) /\ pc' = "execute"
               ELSE UNCHANGED round /\ pc' = "close"
            /\ UNCHANGED <<j, k>>
    /\ SettleStep
RetrySettlesBlindLast == RetrySettlesLate(LAMBDA r : r + 1, OrphanRetries)
RetrySettlesForever   == RetrySettlesLate(LAMBDA r : r, OrphanRetries + 1)

\* The retry loop looks at the plan only when execute returned: _exec_leg turns
\* an ExecutionError into a failed plan, any other exception skips the look.
RetrySettles ==
    /\ pc \in {"returned", "failed", "raised"} /\ Job.kind = "pair" /\ round > 0
    /\ IF pc = "failed" THEN MarkFailed ELSE UNCHANGED plan
    /\ IF pc = "returned" /\ PlanIsFilled(plan[Leg])
       THEN NextJob
       ELSE /\ IF round < OrphanRetries
               THEN round' = round + 1 /\ pc' = "execute"
               ELSE UNCHANGED round /\ pc' = "close"
            /\ UNCHANGED <<j, k>>
    /\ SettleStep

-----------------------------------------------------------------------------
(* close_filled_plan on a copy of the orphan.  Its first guard (nothing    *)
(* filled) is never met: the orphan was judged filled.                     *)

\* Mutant of Orphan: the missing leg is handed to close_fn.
OrphanIsMissing == Leg
Orphan == Job.legs[3 - k]

\* The position under the ticket of the plan, else any position of the symbol:
\* all of them carry the magic number of the program.
CloseTargets ==
    LET same == {p \in open : SymbolOf[p[1]] = SymbolOf[Orphan]}
        own  == {p \in same : p = <<Orphan, plan[Orphan].ticket>>}
    IN  IF own # {} THEN own ELSE same

CloseStep(status) ==
    /\ pc = "close"
    /\ closed' = [closed EXCEPT ![Orphan] = status]
    /\ NextJob
    /\ UNCHANGED <<prepared, agentVars, sends, working>>

CloseSimulated ==
    /\ CloseStep("orphan_closed") /\ dryRun
    /\ UNCHANGED <<open, undone, faultVars>>

CloseFindsNothing ==
    /\ CloseStep("close_failed") /\ ~dryRun /\ CloseTargets = {}
    /\ UNCHANGED <<open, undone, faultVars>>

\* Not DEMO, no tick, a rejected or a partial closing order, or no reply.  After
\* a lost reply the position may be closed all the same.
CloseFails ==
    /\ CloseStep("close_failed") /\ ~dryRun /\ Happens("closefail")
    /\ \E t \in CloseTargets : open' \in {open, open \ {t}}
    /\ UNCHANGED undone

CloseWorks ==
    /\ CloseStep("orphan_closed") /\ ~dryRun
    /\ \E t \in CloseTargets :
         /\ open' = open \ {t}
         /\ undone' = [undone EXCEPT ![Orphan] = @ \cup {t}]
    /\ UNCHANGED faultVars

\* TRADE_RETCODE_PLACED for the closing order: reported closed, still open.
ClosePlaced ==
    /\ CloseStep("orphan_closed") /\ ~dryRun /\ CloseTargets # {} /\ Happens("placed")
    /\ UNCHANGED <<open, undone>>

\* ensure_symbol raises and nothing catches it on the way to runner.py.
CloseRaises ==
    /\ pc = "close" /\ ~dryRun /\ Happens("raise")
    /\ pc' = "aborted"
    /\ UNCHANGED <<j, k, round, prepared, closed, agentVars, brokerVars>>

-----------------------------------------------------------------------------
(* The environment                                                         *)

\* The current order is decided by its reply, the others whenever the broker likes.
Undecided == IF pc = "reply" THEN working \ {Order(Leg)} ELSE working

LateFill ==
    /\ \E o \in Undecided : working' = working \ {o} /\ open' = open \cup {o}
    /\ UNCHANGED <<runVars, agentVars, sends, undone, faultVars>>

LateDrop ==
    /\ \E o \in Undecided : working' = working \ {o}
    /\ UNCHANGED <<runVars, agentVars, sends, open, undone, faultVars>>

\* A stop-out, or the operator closing a position in the MT5 mobile app.
BrokerExit ==
    /\ \E p \in open : open' = open \ {p}
    /\ Happens("exit")
    /\ UNCHANGED <<runVars, agentVars, sends, working, undone>>

\* The quote is the one taken when the leg was prepared: while gates, back-offs
\* and replies take their time it grows stale, and stays so.  It matters when
\* it is looked at and when an order leaves, and counts as a disturbed step.
QuoteAges ==
    /\ pc \in {"execute", "attempt"} /\ Leg \notin stale
    /\ stale' = stale \cup {Leg}
    /\ faultCount' = faultCount + 1 /\ faultCount' <= FaultBound
    /\ UNCHANGED <<runVars, attempt, plan, refused, failures, circuit, dryRun,
                   brokerVars, faults>>

Kill ==
    /\ pc \notin {"done", "aborted"} /\ Happens("kill")
    /\ pc' = "aborted"
    /\ UNCHANGED <<j, k, round, prepared, closed, agentVars, brokerVars>>

Terminated == pc \in {"done", "aborted"} /\ UNCHANGED vars

Gate    == BlockJob \/ PassGate \/ PrepareRaises
Execute == CircuitRejects \/ SkipZeroLots \/ RejectStaleQuote \/ Simulate \/ BeginAttempts
Attempt == AttemptRefused \/ SpreadGuard \/ AttemptRaises \/ SendOrder
Reply   == ReplyRejected \/ ReplyLost \/ ReplyPartial \/ ReplyAccepted
Settle  == SingleSettles \/ SingleRaises \/ EntrySettles \/ Judge \/ RetrySettles
Close   == CloseSimulated \/ CloseFindsNothing \/ CloseFails \/ CloseWorks
              \/ ClosePlaced \/ CloseRaises

RunStep == Gate \/ Execute \/ Attempt \/ Reply \/ Settle \/ Close
Environment == LateFill \/ LateDrop \/ BrokerExit \/ QuoteAges \/ Kill

Next == RunStep \/ Environment \/ Terminated

Spec == Init /\ [][Next]_vars

\* The run is one thread that never waits for anything but a reply of the
\* terminal, and order_send returns (with None after its timeout).
FairSpec == Spec /\ WF_vars(RunStep)

-----------------------------------------------------------------------------
(* Properties                                                              *)

Places == {"prepare", "execute", "attempt", "reply", "returned", "failed", "raised",
           "judge", "close", "done", "aborted"}

\* Every variable has the type its code counterpart has, and while a leg is
\* being executed j and k name one.
TypeOK ==
    /\ pc \in Places
    /\ j \in 1..(Len(Jobs) + 1) /\ k \in {1, 2} /\ round \in 0..OrphanRetries
    /\ prepared \subseteq Legs /\ stale \subseteq Legs /\ refused \subseteq Legs
    /\ closed \in [Legs -> {"none", "orphan_closed", "close_failed"}]
    /\ attempt \in 0..MaxRetries
    /\ plan \in [Legs -> Plans]
    /\ failures \in Nat /\ circuit \in BOOLEAN /\ dryRun \in BOOLEAN
    /\ sends \in [Legs -> Nat]
    /\ working \subseteq Legs \X Nat /\ open \subseteq Legs \X Nat
    /\ undone \in [Legs -> SUBSET (Legs \X Nat)]
    /\ faults \subseteq AllFaults /\ faultCount \in Nat

IsPair(i) == Jobs[i].kind = "pair"
FullPairs == {i \in 1..Len(Jobs) : IsPair(i) /\ Len(Jobs[i].legs) = 2}
Finished(i) == i < j
OpenLegs(i) == {a \in 1..Len(Jobs[i].legs) : \E p \in open : p[1] = Jobs[i].legs[a]}
Traded(i) == \E a \in 1..Len(Jobs[i].legs) : sends[Jobs[i].legs[a]] > 0

\* Pair gate ("neither leg will execute"): when an order was sent for any leg
\* of a pair, the pair has exactly two legs and both came through risk and cost.
GateHolds ==
    \A i \in 1..Len(Jobs) : IsPair(i) /\ Traded(i) =>
        /\ Len(Jobs[i].legs) = 2
        /\ Jobs[i].legs[1] \in prepared /\ Jobs[i].legs[2] \in prepared

\* Orders leave only for the leg in execution, and never behind an open circuit or
\* after `Threshold` failures in a row, for a plan the Execution Guard has zeroed or
\* in a dry run, however many retries lie between the check and the order; nor, in
\* any later round, for a leg turned away for its stale quote (a quote that grows
\* stale after the check is used: the code does not look again); nor for a leg
\* whose plan is filled, unless logging the fill has failed.
OrdersOnlyWhenAllowed ==
    [][\A l \in Legs : sends'[l] # sends[l] =>
         l = Leg /\ l \in prepared /\ ~dryRun
           /\ ~circuit /\ failures < Threshold
           /\ plan[l].lots /\ l \notin refused
           /\ ("log" \notin faults => ~PlanIsFilled(plan[l]))]_vars

\* A pair that was left with exactly one plan filled has had a close of the
\* filled leg attempted, whatever the broker and the databases did.
OrphanSettled ==
    \A i \in FullPairs : Finished(i) =>
        \A a \in {1, 2} :
          LET this == Jobs[i].legs[a]
              other == Jobs[i].legs[3 - a]
          IN  PlanIsFilled(plan[this]) /\ ~PlanIsFilled(plan[other])
                => closed[this] # "none"

\* A leg is closed as an orphan only when its partner's plan is not filled, unless
\* the log has failed: a retry that was filled and then raises is not believed.
ClosedOnlyAlone ==
    "log" \notin faults => \A i \in FullPairs :
        \A a \in {1, 2} :
          closed[Jobs[i].legs[a]] # "none" => ~PlanIsFilled(plan[Jobs[i].legs[3 - a]])

\* What a plan reports as filled is open at the broker or was closed by the
\* orphan close, unless the broker closed it or has still to execute it.
FillIsBacked ==
    faults \cap {"exit", "placed", "closefail"} = {} /\ ~dryRun =>
        \A l \in Legs : PlanIsFilled(plan[l]) =>
            <<l, plan[l].ticket>> \in open \cup undone[l]

\* Nothing else is open or under way at the broker: without lost or partial
\* replies every position of the run is under the ticket of a filled plan.
NoStrayPosition ==
    faults \cap {"lost", "partial", "log", "kill"} = {} =>
        \A o \in open \cup working :
            \/ o \in PriorOpen
            \/ pc = "reply" /\ o = Order(Leg)
            \/ PlanIsFilled(plan[o[1]]) /\ o[2] = plan[o[1]].ticket

\* The books of the program and of the broker agree, in both directions.
PlansMatchBroker == FillIsBacked /\ NoStrayPosition

\* The orphan close closes the orphan's own position, unless the broker
\* closed it first or has not opened it yet.
CloseHitsOwnPosition ==
    faults \cap {"exit", "placed"} = {} =>
        \A l \in Legs : undone[l] \subseteq {<<l, plan[l].ticket>>}

\* What is closed is an orphan, and the orphan's own position.
ClosesOnlyOrphans == ClosedOnlyAlone /\ CloseHitsOwnPosition

\* pair_execution.py:1: a pair that has been left is open with both legs or with neither.
BothOrNeither ==
    \A i \in FullPairs : Finished(i) => OpenLegs(i) \in {{}, {1, 2}}

\* Every run comes to its end, through every retry and close.  With KeepsPromise
\* this means that a pair left with one open leg is completed or undone.
RunEnds == <>(pc \in {"done", "aborted"})

-----------------------------------------------------------------------------
(* As long as the broker behaves, the run keeps the promise of PairPromise *)

PairJobs == {i \in 1..Len(Jobs) : IsPair(i)}
PairExposure == [i \in PairJobs |-> OpenLegs(i)]
PairsLeft == {i \in PairJobs : Finished(i)}
Trusted == faults = {}

Promise == INSTANCE PairPromise WITH
    Pairs    <- PairJobs,
    exposure <- PairExposure,
    left     <- PairsLeft,
    trusted  <- Trusted

\* The steps of a run are steps of the promise.
KeepsPromise == Promise!Spec
=============================================================================
