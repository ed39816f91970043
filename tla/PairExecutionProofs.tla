------------------------ MODULE PairExecutionProofs ------------------------
(***************************************************************************)
(* What PairExecution keeps for every list of jobs, every retry limit and *)
(* every set of faults.                                                    *)
(***************************************************************************)
EXTENDS PairExecution, SequenceTheorems, TLAPS

\* The places in which a leg of the current job is being dealt with.
Busy == {"execute", "attempt", "reply", "returned", "failed", "raised", "judge", "close"}

\* While the run lives, j, k name a leg, and a busy job has passed the gate.
Cursor ==
    /\ pc \notin {"done", "aborted"} => j \in 1..Len(Jobs)
    /\ pc = "prepare" => k = 1 /\ round = 0
    /\ pc \in Busy => /\ k \in 1..Len(Job.legs)
                      /\ JobLegs \subseteq prepared
                      /\ Job.kind = "pair" => Len(Job.legs) = 2
    /\ pc = "judge" => Job.kind = "pair" /\ round = 0
    /\ pc = "close" => Job.kind = "pair" /\ round > 0

\* Legs the run has not come to are not filled.
Fresh ==
    \A i \in 1..Len(Jobs) : \A a \in 1..Len(Jobs[i].legs) :
        \/ i > j
        \/ i = j /\ pc = "prepare"
        \/ i = j /\ pc \in Busy \ {"judge", "close"} /\ round = 0 /\ a > k
        => ~PlanIsFilled(plan[Jobs[i].legs[a]])

\* What execute has checked stays true until the order is sent.
Checked ==
    /\ pc \in {"execute", "attempt", "reply", "raised"} /\ "log" \notin faults
         => ~PlanIsFilled(plan[Leg])
    /\ pc \in {"attempt", "reply"} =>
         /\ attempt \in 1..MaxRetries
         /\ ~dryRun /\ ~circuit /\ plan[Leg].lots /\ Leg \notin refused
    /\ failures >= Threshold => circuit

\* A leg is turned away for a quote that is stale and stays so.
RefusedStale == refused \subseteq stale

\* While the missing leg is retried the other one is filled.
OrphanHeld ==
    pc \in Busy /\ round > 0 => Job.kind = "pair" /\ PlanIsFilled(plan[Orphan])

USE DEF Statuses, Places, Busy, AllFaults, PlanWith, NewPlan, SetPlan

LEMMA JobFacts ==
    ASSUME NEW i \in 1..Len(Jobs)
    PROVE  /\ Jobs[i].kind \in {"single", "pair"}
           /\ Jobs[i].legs \in Seq(Legs)
           /\ Len(Jobs[i].legs) \in Nat
           /\ \A a \in 1..Len(Jobs[i].legs) : Jobs[i].legs[a] \in Legs
           /\ Jobs[i].kind = "single" => Len(Jobs[i].legs) = 1
  <1>1. Jobs[i] \in [kind : {"single", "pair"}, legs : Seq(Legs)]
    BY ElementOfSeq, JobsAssumption
  <1>2. Jobs[i].kind \in {"single", "pair"} /\ Jobs[i].legs \in Seq(Legs)
    BY <1>1
  <1>3. Len(Jobs[i].legs) \in Nat /\ \A a \in 1..Len(Jobs[i].legs) : Jobs[i].legs[a] \in Legs
    BY <1>2, ElementOfSeq, LenProperties
  <1>4. QED
    BY <1>2, <1>3, LegsAssumption

LEMMA LegFacts ==
    ASSUME TypeOK, Cursor, pc \in Busy
    PROVE  /\ j \in 1..Len(Jobs) /\ k \in 1..Len(Job.legs)
           /\ Job.kind \in {"single", "pair"}
           /\ Leg \in Legs /\ Leg \in JobLegs /\ Leg \in prepared
           /\ Job.kind = "pair" =>
                /\ Job.legs[1] \in Legs /\ Job.legs[2] \in Legs /\ Job.legs[1] # Job.legs[2]
                /\ k \in {1, 2} /\ Orphan \in Legs /\ Orphan # Leg
  <1>1. j \in 1..Len(Jobs) /\ k \in 1..Len(Job.legs) /\ JobLegs \subseteq prepared
    BY DEF Cursor
  <1>2. Leg \in Legs /\ Leg \in JobLegs /\ Job.kind \in {"single", "pair"}
    BY <1>1, JobFacts DEF Leg, Job, JobLegs
  <1>3. ASSUME Job.kind = "pair"
        PROVE  /\ Job.legs[1] \in Legs /\ Job.legs[2] \in Legs /\ Job.legs[1] # Job.legs[2]
               /\ k \in {1, 2} /\ Orphan \in Legs /\ Orphan # Leg
    <2>1. Len(Job.legs) = 2
      BY <1>3 DEF Cursor
    <2>2. Job.legs[1] \in Legs /\ Job.legs[2] \in Legs
      BY <1>1, <2>1, JobFacts DEF Job
    <2>3. Job.legs[1] # Job.legs[2]
      BY <1>1, <2>1, LegsAssumption DEF Job
    <2>4. k = 1 \/ k = 2
      BY <1>1, <2>1
    <2>5. CASE k = 1
      BY <2>2, <2>3, <2>5 DEF Orphan, Leg
    <2>6. CASE k = 2
      BY <2>2, <2>3, <2>6 DEF Orphan, Leg
    <2>7. QED
      BY <2>2, <2>3, <2>4, <2>5, <2>6
  <1>4. QED
    BY <1>1, <1>2, <1>3

LEMMA TypeInit == Init => TypeOK
  <1> SUFFICES ASSUME Init PROVE TypeOK
    OBVIOUS
  <1>1. Len(Jobs) \in Nat
    BY JobsAssumption, LenProperties
  <1>2. NewPlan \in Plans
    BY DEF Plans
  <1>3. plan \in [Legs -> Plans]
    BY <1>2 DEF Init
  <1>4. pc \in Places /\ j \in 1..(Len(Jobs) + 1)
    BY <1>1 DEF Init
  <1>5. round \in 0..OrphanRetries /\ attempt \in 0..MaxRetries
    BY RetryAssumption DEF Init
  <1>6. open \subseteq Legs \X Nat /\ working \subseteq Legs \X Nat /\ dryRun \in BOOLEAN
    BY BrokerAssumption DEF Init
  <1>7. QED
    BY <1>3, <1>4, <1>5, <1>6 DEF Init, TypeOK

LEMMA FaultTypes ==
    ASSUME TypeOK, NEW fs, AllHappen(fs)
    PROVE  faults' \subseteq AllFaults /\ faultCount' \in Nat
  <1>1. faults \subseteq AllFaults /\ faultCount \in Nat /\ fs \subseteq AllFaults
    BY BrokerAssumption DEF AllHappen, TypeOK
  <1>2. QED
    BY <1>1 DEF AllHappen

LEMMA TypeStep == TypeOK /\ Cursor /\ Checked /\ [Next]_vars => TypeOK'
  <1> SUFFICES ASSUME TypeOK, Cursor, Checked, [Next]_vars PROVE TypeOK'
    OBVIOUS
  <1> USE DEF vars, runVars, agentVars, brokerVars, faultVars
  <1>l. Len(Jobs) \in Nat
    BY JobsAssumption, LenProperties
  <1>b. pc \in Busy => Leg \in Legs /\ j \in 1..Len(Jobs) /\ k \in 1..Len(Job.legs)
    BY LegFacts
  <1>h. \A f : Happens(f) => faults' \subseteq AllFaults /\ faultCount' \in Nat
    BY FaultTypes DEF Happens
  <1>p. ASSUME NEW lots \in BOOLEAN, NEW status \in Statuses, NEW filled \in BOOLEAN,
               NEW ticket \in Nat, SetPlan(PlanWith(lots, status, filled, ticket)), pc \in Busy
        PROVE  plan' \in [Legs -> Plans]
    BY <1>p, <1>b DEF TypeOK, Plans
  <1>q. pc \in Busy => /\ plan[Leg].lots \in BOOLEAN /\ plan[Leg].filled \in BOOLEAN
                       /\ plan[Leg].ticket \in Nat /\ sends[Leg] \in Nat
    BY <1>b DEF TypeOK, Plans
  <1>n. ASSUME NextJob, j \in 1..Len(Jobs)
        PROVE  /\ pc' \in Places /\ j' \in 1..(Len(Jobs) + 1)
               /\ k' \in {1, 2} /\ round' \in 0..OrphanRetries
    BY <1>n, <1>l, RetryAssumption DEF NextJob
  <1>1. CASE Gate
    <2>a. \A a \in 1..Len(Job.legs) : Job.legs[a] \in Legs
      BY <1>1, JobFacts DEF Gate, BlockJob, PassGate, PrepareRaises, Cursor, Job
    <2>b. j \in 1..Len(Jobs) /\ Len(Job.legs) \in Nat
      BY <1>1, JobFacts DEF Gate, BlockJob, PassGate, PrepareRaises, Cursor, Job
    <2>1. CASE BlockJob
      <3>1. prepared' \subseteq Legs
        <4>1. ASSUME NEW blocked \in 1..Len(Job.legs)
              PROVE  {Job.legs[i] : i \in 1..(blocked - 1)} \subseteq Legs
          BY <2>a, <2>b
        <4>2. prepared \subseteq Legs
          BY DEF TypeOK
        <4>3. QED
          BY <2>1, <4>1, <4>2 DEF BlockJob
      <3>2. QED
        BY <2>1, <2>b, <3>1, <1>n DEF BlockJob, TypeOK
    <2>2. CASE PassGate
      BY <2>2, <2>a DEF PassGate, TypeOK, JobLegs
    <2>3. CASE PrepareRaises
      BY <2>3, <1>h DEF PrepareRaises, TypeOK
    <2>4. QED
      BY <1>1, <2>1, <2>2, <2>3 DEF Gate
  <1>2. CASE Execute
    <2> USE DEF ExecuteStep
    <2>1. CASE CircuitRejects
      BY <2>1 DEF CircuitRejects, TypeOK
    <2>2. CASE SkipZeroLots
      BY <2>2, <1>p, <1>q DEF SkipZeroLots, TypeOK
    <2>3. CASE RejectStaleQuote
      BY <2>3, <1>b DEF RejectStaleQuote, TypeOK
    <2>4. CASE Simulate
      <3>1. plan' \in [Legs -> Plans]
        <4>1. pc \in Busy
          BY <2>4 DEF Simulate
        <4>2. PICK filled \in BOOLEAN :
                \E status \in IF filled THEN {"filled", "partial"} ELSE {"rejected", "simulated"} :
                  SetPlan(PlanWith(TRUE, status, filled, plan[Leg].ticket))
          BY <2>4 DEF Simulate
        <4>3. PICK status \in Statuses : SetPlan(PlanWith(TRUE, status, filled, plan[Leg].ticket))
          BY <4>2
        <4>4. QED
          BY <4>1, <4>2, <4>3, <1>p, <1>q
      <3>2. QED
        BY <2>4, <3>1, <1>h DEF Simulate, TypeOK
    <2>5. CASE BeginAttempts
      BY <2>5, RetryAssumption DEF BeginAttempts, TypeOK
    <2>6. QED
      BY <1>2, <2>1, <2>2, <2>3, <2>4, <2>5 DEF Execute
  <1>a. ASSUME AttemptFails
        PROVE  /\ attempt' \in 0..MaxRetries /\ pc' \in Places
               /\ failures' \in Nat /\ circuit' \in BOOLEAN
    <2>1. circuit' \in BOOLEAN
      BY <1>a, Zenon DEF AttemptFails, TypeOK
    <2>2. failures' \in Nat /\ pc' \in Places /\ attempt' \in 0..MaxRetries
      BY <1>a, RetryAssumption DEF AttemptFails, TypeOK
    <2>3. QED
      BY <2>1, <2>2
  <1>3. CASE Attempt
    <2> USE DEF AttemptStep
    <2>1. CASE AttemptRefused
      BY <2>1, <1>a DEF AttemptRefused, AttemptFails, TypeOK
    <2>2. CASE SpreadGuard
      <3>1. plan' \in [Legs -> Plans]
        BY <2>2, <1>p, <1>q DEF SpreadGuard
      <3>2. QED
        BY <2>2, <3>1, RetryAssumption DEF SpreadGuard, TypeOK
    <2>3. CASE AttemptRaises
      BY <2>3, <1>h, RetryAssumption DEF AttemptRaises, TypeOK
    <2>4. CASE SendOrder
      <3>1. sends' \in [Legs -> Nat] /\ working' \subseteq Legs \X Nat
        BY <2>4, <1>b, <1>q DEF SendOrder, TypeOK
      <3>2. QED
        BY <2>4, <3>1 DEF SendOrder, TypeOK
    <2>5. QED
      BY <1>3, <2>1, <2>2, <2>3, <2>4 DEF Attempt
  <1>4. CASE Reply
    <2> USE DEF ReplyStep
    <2>o. Order(Leg) \in Legs \X Nat
      BY <1>4, <1>b, <1>q DEF Order, Reply, ReplyRejected, ReplyLost, ReplyPartial, ReplyAccepted
    <2>1. CASE ReplyRejected
      BY <2>1, <1>a DEF ReplyRejected, AttemptFails, TypeOK
    <2>2. CASE ReplyLost
      BY <2>2, <1>a, <1>h DEF ReplyLost, AttemptFails, TypeOK
    <2>3. CASE ReplyPartial
      BY <2>3, <2>o, <1>a, <1>h DEF ReplyPartial, AttemptFails, TypeOK
    <2>4. CASE ReplyAccepted
      <3>1. plan' \in [Legs -> Plans]
        BY <2>4, <1>p, <1>q DEF ReplyAccepted
      <3>2. faults' \subseteq AllFaults /\ faultCount' \in Nat
        BY <2>4, FaultTypes DEF ReplyAccepted
      <3>3. working' \subseteq Legs \X Nat /\ open' \subseteq Legs \X Nat
        BY <2>4, <2>o DEF ReplyAccepted, TypeOK
      <3>4. /\ pc' \in Places /\ failures' \in Nat /\ circuit' \in BOOLEAN
            /\ attempt' \in 0..MaxRetries
        <4>1. circuit' \in BOOLEAN
          BY <2>4, Zenon DEF ReplyAccepted, TypeOK
        <4>2. pc' \in Places /\ failures' \in Nat /\ attempt' = 0
          BY <2>4 DEF ReplyAccepted, TypeOK
        <4>3. QED
          BY <4>1, <4>2, RetryAssumption
      <3>5. QED
        BY <2>4, <3>1, <3>2, <3>3, <3>4 DEF ReplyAccepted, TypeOK
    <2>5. QED
      BY <1>4, <2>1, <2>2, <2>3, <2>4 DEF Reply
  <1>5. CASE Settle
    <2> USE DEF SettleStep
    <2>m. MarkFailed /\ pc \in Busy => plan' \in [Legs -> Plans]
      BY <1>p, <1>q DEF MarkFailed
    <2>1. CASE SingleSettles
      BY <2>1, <1>b, <1>n DEF SingleSettles, TypeOK
    <2>2. CASE SingleRaises
      BY <2>2 DEF SingleRaises, TypeOK
    <2>3. CASE EntrySettles
      BY <2>3, <2>m DEF EntrySettles, TypeOK
    <2>4. CASE Judge
      BY <2>4, <1>b, <1>n, RetryAssumption DEF Judge, TypeOK
    <2>5. CASE RetrySettles
      <3>1. plan' \in [Legs -> Plans]
        BY <2>5, <2>m DEF RetrySettles, TypeOK
      <3>2. /\ pc' \in Places /\ j' \in 1..(Len(Jobs) + 1)
            /\ k' \in {1, 2} /\ round' \in 0..OrphanRetries
        BY <2>5, <1>b, <1>n, RetryAssumption DEF RetrySettles, TypeOK
      <3>3. QED
        BY <2>5, <3>1, <3>2 DEF RetrySettles, TypeOK
    <2>6. QED
      BY <1>5, <2>1, <2>2, <2>3, <2>4, <2>5 DEF Settle
  <1>6. CASE Close
    <2>1. CASE CloseRaises
      BY <2>1, <1>h DEF CloseRaises, TypeOK
    <2>2. CASE ~CloseRaises
      <3>1. pc = "close" /\ Orphan \in Legs /\ j \in 1..Len(Jobs)
        BY <1>6, <2>2, LegFacts DEF Close, CloseStep, CloseSimulated, CloseFindsNothing,
             CloseFails, CloseWorks, ClosePlaced, Cursor
      <3>2. NextJob /\ UNCHANGED <<prepared, agentVars, sends, working>>
        BY <1>6, <2>2 DEF Close, CloseStep, CloseSimulated, CloseFindsNothing,
             CloseFails, CloseWorks, ClosePlaced
      <3>3. closed' \in [Legs -> {"none", "orphan_closed", "close_failed"}]
        BY <1>6, <2>2, <3>1 DEF Close, CloseStep, CloseSimulated, CloseFindsNothing,
             CloseFails, CloseWorks, ClosePlaced, TypeOK
      <3>4. faults' \subseteq AllFaults /\ faultCount' \in Nat
        BY <1>6, <2>2, <1>h DEF Close, CloseSimulated, CloseFindsNothing,
             CloseFails, CloseWorks, ClosePlaced, TypeOK
      <3>5. open' \subseteq open
        BY <1>6, <2>2 DEF Close, CloseSimulated, CloseFindsNothing,
             CloseFails, CloseWorks, ClosePlaced
      <3>6. CloseTargets \subseteq open
        BY DEF CloseTargets
      <3>7. undone' \in [Legs -> SUBSET (Legs \X Nat)]
        BY <1>6, <2>2, <3>1, <3>6, SMTT(30) DEF Close, CloseSimulated, CloseFindsNothing,
             CloseFails, CloseWorks, ClosePlaced, TypeOK
      <3>8. QED
        BY <3>1, <3>2, <3>3, <3>4, <3>5, <3>7, <1>n DEF TypeOK
    <2>3. QED
      BY <2>1, <2>2
  <1>7. CASE Environment
    <2>1. CASE LateFill
      BY <2>1 DEF LateFill, Undecided, TypeOK
    <2>2. CASE LateDrop
      BY <2>2 DEF LateDrop, Undecided, TypeOK
    <2>3. CASE BrokerExit
      BY <2>3, <1>h DEF BrokerExit, TypeOK
    <2>6. CASE QuoteAges
      BY <2>6, <1>b DEF QuoteAges, TypeOK
    <2>4. CASE Kill
      BY <2>4, <1>h DEF Kill, TypeOK
    <2>5. QED
      BY <1>7, <2>1, <2>2, <2>3, <2>4, <2>6 DEF Environment
  <1>8. CASE Terminated \/ UNCHANGED vars
    BY <1>8 DEF Terminated, TypeOK
  <1>9. QED
    BY <1>1, <1>2, <1>3, <1>4, <1>5, <1>6, <1>7, <1>8 DEF Next, RunStep

-----------------------------------------------------------------------------
(* What a step leaves alone                                                *)

LEMMA NextJobCursor ==
    ASSUME TypeOK, j \in 1..Len(Jobs), NextJob PROVE Cursor'
  <1>1. Len(Jobs) \in Nat
    BY JobsAssumption, LenProperties
  <1>2. QED
    BY <1>1 DEF NextJob, Cursor

\* Only the plan of the leg in execution changes, and only while it is busy.
LEMMA PlanFrame ==
    ASSUME TypeOK, Cursor, [Next]_vars
    PROVE  /\ pc \notin Busy \ {"judge", "close"} => plan' = plan
           /\ pc \in Busy => \A l \in Legs : l # Leg => plan'[l] = plan[l]
  <1> USE DEF vars, runVars, agentVars, brokerVars, TypeOK
  <1>1. CASE Gate
    BY <1>1 DEF Gate, BlockJob, PassGate, PrepareRaises
  <1>2. CASE Execute
    BY <1>2 DEF Execute, ExecuteStep, CircuitRejects, SkipZeroLots, RejectStaleQuote,
         Simulate, BeginAttempts
  <1>3. CASE Attempt
    BY <1>3 DEF Attempt, AttemptStep, AttemptRefused, SpreadGuard, AttemptRaises, SendOrder,
         AttemptFails
  <1>4. CASE Reply
    BY <1>4 DEF Reply, ReplyStep, ReplyRejected, ReplyLost, ReplyPartial, ReplyAccepted,
         AttemptFails
  <1>5. CASE Settle
    BY <1>5 DEF Settle, SingleSettles, SingleRaises, EntrySettles, Judge, RetrySettles,
         MarkFailed
  <1>6. CASE Close
    BY <1>6 DEF Close, CloseStep, CloseSimulated, CloseFindsNothing, CloseFails, CloseWorks,
         ClosePlaced, CloseRaises
  <1>7. CASE Environment \/ Terminated \/ UNCHANGED vars
    BY <1>7 DEF Environment, LateFill, LateDrop, BrokerExit, QuoteAges, Kill, Terminated
  <1>8. QED
    BY <1>1, <1>2, <1>3, <1>4, <1>5, <1>6, <1>7 DEF Next, RunStep

\* Two legs with different places in the job list are different plans.
LEMMA Distinct ==
    ASSUME TypeOK, Cursor, pc \in Busy,
           NEW i \in 1..Len(Jobs), NEW a \in 1..Len(Jobs[i].legs), i # j \/ a # k
    PROVE  Jobs[i].legs[a] \in Legs /\ Jobs[i].legs[a] # Leg
  <1>1. j \in 1..Len(Jobs) /\ k \in 1..Len(Jobs[j].legs)
    BY LegFacts DEF Job
  <1>2. Jobs[i].legs[a] \in Legs
    BY JobFacts
  <1>3. Jobs[i].legs[a] = Jobs[j].legs[k] => i = j /\ a = k
    BY <1>1, LegsAssumption
  <1>4. QED
    BY <1>2, <1>3 DEF Leg, Job

LEMMA CursorStep == TypeOK /\ Cursor /\ [Next]_vars => Cursor'
  <1> SUFFICES ASSUME TypeOK, Cursor, [Next]_vars PROVE Cursor'
    OBVIOUS
  <1> USE DEF vars, runVars, agentVars, brokerVars
  <1>b. pc \in Busy \/ pc = "prepare" => j \in 1..Len(Jobs)
    BY DEF Cursor
  \* A step that stays with the job and its leg and leads to a busy place.
  <1>s. ASSUME UNCHANGED <<j, k, round, prepared>>, pc \in Busy,
               pc' \in Busy \ {"judge", "close"}
        PROVE  Cursor'
    <2>1. Job' = Job /\ JobLegs' = JobLegs
      BY <1>s DEF Job, JobLegs
    <2>2. QED
      BY <1>s, <2>1 DEF Cursor
  <1>e. ASSUME pc' = "aborted" PROVE Cursor'
    BY <1>e DEF Cursor
  <1>1. CASE Gate
    <2>1. CASE BlockJob
      BY <2>1, <1>b, NextJobCursor DEF BlockJob
    <2>2. CASE PassGate
      <3>1. 1 \in 1..Len(Job.legs)
        BY <2>2, <1>b, JobFacts DEF PassGate, Job
      <3>2. Job' = Job /\ JobLegs' = JobLegs
        BY <2>2 DEF PassGate, Job, JobLegs
      <3>3. QED
        BY <2>2, <3>1, <3>2 DEF PassGate, Cursor
    <2>3. QED
      BY <1>1, <2>1, <2>2, <1>e DEF Gate, PrepareRaises
  <1>2. CASE Execute
    BY <1>2, <1>s DEF Execute, ExecuteStep, CircuitRejects, SkipZeroLots, RejectStaleQuote,
         Simulate, BeginAttempts
  <1>3. CASE Attempt
    BY <1>3, <1>s DEF Attempt, AttemptStep, AttemptRefused, SpreadGuard, AttemptRaises,
         SendOrder, AttemptFails
  <1>4. CASE Reply
    BY <1>4, <1>s DEF Reply, ReplyStep, ReplyRejected, ReplyLost, ReplyPartial, ReplyAccepted,
         AttemptFails
  <1>5. CASE Settle
    <2> USE DEF SettleStep
    <2>1. CASE SingleSettles
      BY <2>1, <1>b, NextJobCursor DEF SingleSettles
    <2>2. CASE SingleRaises
      BY <2>2, <1>e DEF SingleRaises
    <2>3. CASE EntrySettles
      <3>1. Job' = Job /\ JobLegs' = JobLegs
        BY <2>3 DEF EntrySettles, Job, JobLegs
      <3>2. QED
        BY <2>3, <3>1, LegFacts DEF EntrySettles, Cursor
    <2>4. CASE Judge
      <3>1. CASE NextJob
        BY <2>4, <3>1, <1>b, NextJobCursor DEF Judge
      <3>2. CASE ~NextJob
        <4>1. Job' = Job /\ JobLegs' = JobLegs
          BY <2>4, <3>2 DEF Judge, Job, JobLegs
        <4>2. k' \in {1, 2} /\ round' = 1 /\ pc' = "execute" /\ j' = j /\ prepared' = prepared
          BY <2>4, <3>2 DEF Judge
        <4>3. QED
          BY <2>4, <4>1, <4>2 DEF Judge, Cursor
      <3>3. QED
        BY <3>1, <3>2
    <2>5. CASE RetrySettles
      <3>1. CASE NextJob
        BY <2>5, <3>1, <1>b, NextJobCursor DEF RetrySettles
      <3>2. CASE ~NextJob
        <4>1. Job' = Job /\ JobLegs' = JobLegs
          BY <2>5, <3>2 DEF RetrySettles, Job, JobLegs
        <4>2. round' > 0
          BY <2>5, <3>2 DEF RetrySettles, TypeOK
        <4>3. QED
          BY <2>5, <3>2, <4>1, <4>2 DEF RetrySettles, Cursor
      <3>3. QED
        BY <3>1, <3>2
    <2>6. QED
      BY <1>5, <2>1, <2>2, <2>3, <2>4, <2>5 DEF Settle
  <1>6. CASE Close
    <2>1. pc = "close" /\ (NextJob \/ pc' = "aborted")
      BY <1>6 DEF Close, CloseStep, CloseSimulated, CloseFindsNothing, CloseFails, CloseWorks,
           ClosePlaced, CloseRaises
    <2>2. QED
      BY <2>1, <1>b, <1>e, NextJobCursor
  <1>7. CASE Environment \/ Terminated \/ UNCHANGED vars
    <2>1. CASE UNCHANGED runVars
      BY <2>1 DEF Cursor, Job, JobLegs
    <2>2. QED
      BY <1>7, <2>1, <1>e DEF Environment, LateFill, LateDrop, BrokerExit, QuoteAges, Kill, Terminated
  <1>8. QED
    BY <1>1, <1>2, <1>3, <1>4, <1>5, <1>6, <1>7 DEF Next, RunStep

LEMMA FreshStep == TypeOK /\ Cursor /\ Fresh /\ [Next]_vars => Fresh'
  <1> SUFFICES ASSUME TypeOK, Cursor, Fresh, [Next]_vars,
                      NEW i \in 1..Len(Jobs), NEW a \in 1..Len(Jobs[i].legs),
                      \/ i > j'
                      \/ i = j' /\ pc' = "prepare"
                      \/ i = j' /\ pc' \in Busy \ {"judge", "close"} /\ round' = 0 /\ a > k'
               PROVE  ~PlanIsFilled(plan'[Jobs[i].legs[a]])
    BY DEF Fresh
  <1> USE DEF vars, runVars, agentVars, brokerVars
  <1>1. \/ i > j
        \/ i = j /\ pc = "prepare"
        \/ i = j /\ pc \in Busy \ {"judge", "close"} /\ round = 0 /\ a > k
    <2>t. j \in Nat /\ k \in Nat /\ i \in Nat /\ a \in Nat
      BY JobFacts, JobsAssumption, LenProperties DEF TypeOK
    <2>n. NextJob => i > j
      BY <2>t DEF NextJob
    <2>e. pc' = "aborted" /\ j' = j => i > j
      OBVIOUS
    <2>1. CASE Gate
      BY <2>1, <2>n, <2>e DEF Gate, BlockJob, PassGate, PrepareRaises
    <2>2. CASE Execute
      BY <2>2 DEF Execute, ExecuteStep, CircuitRejects, SkipZeroLots, RejectStaleQuote,
           Simulate, BeginAttempts
    <2>3. CASE Attempt
      BY <2>3 DEF Attempt, AttemptStep, AttemptRefused, SpreadGuard, AttemptRaises,
           SendOrder, AttemptFails
    <2>4. CASE Reply
      BY <2>4 DEF Reply, ReplyStep, ReplyRejected, ReplyLost, ReplyPartial, ReplyAccepted,
           AttemptFails
    <2>5. CASE Settle
      <3>1. CASE SingleSettles \/ SingleRaises
        BY <3>1, <2>n, <2>e DEF SingleSettles, SingleRaises
      <3>2. CASE EntrySettles
        BY <3>2, <2>t DEF EntrySettles
      <3>3. CASE Judge
        BY <3>3, <2>n, <2>t DEF Judge
      <3>4. CASE RetrySettles
        BY <3>4, <2>n, <2>t DEF RetrySettles, TypeOK
      <3>5. QED
        BY <2>5, <3>1, <3>2, <3>3, <3>4 DEF Settle
    <2>6. CASE Close
      BY <2>6, <2>n, <2>e DEF Close, CloseStep, CloseSimulated, CloseFindsNothing, CloseFails,
           CloseWorks, ClosePlaced, CloseRaises
    <2>7. CASE Environment \/ Terminated \/ UNCHANGED vars
      BY <2>7, <2>e DEF Environment, LateFill, LateDrop, BrokerExit, QuoteAges, Kill, Terminated
    <2>8. QED
      BY <2>1, <2>2, <2>3, <2>4, <2>5, <2>6, <2>7 DEF Next, RunStep
  <1>2. ~PlanIsFilled(plan[Jobs[i].legs[a]])
    BY <1>1 DEF Fresh
  <1>3. plan'[Jobs[i].legs[a]] = plan[Jobs[i].legs[a]]
    <2>1. CASE pc \in Busy
      <3>1. i # j \/ a # k
        BY <1>1, <2>1 DEF TypeOK
      <3>2. QED
        BY <2>1, <3>1, Distinct, PlanFrame
    <2>2. CASE pc \notin Busy
      BY <2>2, PlanFrame
    <2>3. QED
      BY <2>1, <2>2
  <1>4. QED
    BY <1>2, <1>3

LEMMA RefusedStep ==
    RefusedStale /\ [Next]_vars => RefusedStale'
  <1> SUFFICES ASSUME RefusedStale, [Next]_vars PROVE RefusedStale'
    OBVIOUS
  <1> USE DEF vars, runVars, agentVars, brokerVars, faultVars
  <1>1. CASE RejectStaleQuote
    BY <1>1 DEF RejectStaleQuote, RefusedStale
  <1>2. CASE QuoteAges
    BY <1>2 DEF QuoteAges, RefusedStale
  <1>3. ASSUME ~RejectStaleQuote, ~QuoteAges
        PROVE  UNCHANGED <<stale, refused>>
    <2>1. CASE Gate
      BY <2>1 DEF Gate, BlockJob, PassGate, PrepareRaises
    <2>2. CASE Execute
      BY <1>3, <2>2 DEF Execute, ExecuteStep, CircuitRejects, SkipZeroLots, Simulate, BeginAttempts
    <2>3. CASE Attempt
      BY <2>3 DEF Attempt, AttemptStep, AttemptRefused, SpreadGuard, AttemptRaises, SendOrder,
           AttemptFails
    <2>4. CASE Reply
      BY <2>4 DEF Reply, ReplyStep, ReplyRejected, ReplyLost, ReplyPartial, ReplyAccepted,
           AttemptFails
    <2>5. CASE Settle
      BY <2>5 DEF Settle, SettleStep, SingleSettles, SingleRaises, EntrySettles, Judge,
           RetrySettles
    <2>6. CASE Close
      BY <2>6 DEF Close, CloseStep, CloseSimulated, CloseFindsNothing, CloseFails,
           CloseWorks, ClosePlaced, CloseRaises
    <2>7. CASE Environment \/ Terminated \/ UNCHANGED vars
      BY <1>3, <2>7 DEF Environment, LateFill, LateDrop, BrokerExit, Kill, Terminated
    <2>8. QED
      BY <2>1, <2>2, <2>3, <2>4, <2>5, <2>6, <2>7 DEF Next, RunStep
  <1>4. QED
    BY <1>1, <1>2, <1>3 DEF RefusedStale

LEMMA CheckedStep ==
    TypeOK /\ Cursor /\ Fresh /\ Checked /\ RefusedStale /\ OrphanHeld /\ [Next]_vars => Checked'
  <1> SUFFICES ASSUME TypeOK, Cursor, Fresh, Checked, RefusedStale, OrphanHeld, [Next]_vars
               PROVE  Checked'
    OBVIOUS
  <1> USE DEF vars, runVars, agentVars, brokerVars, faultVars
  <1>l. pc \in Busy => Leg \in Legs
    BY LegFacts
  <1>h. \A f : Happens(f) => f \in faults' /\ faults \subseteq faults'
    BY DEF Happens, AllHappen
  \* A step to a place where nothing is promised about the leg.
  <1>n. ASSUME pc' \notin {"execute", "attempt", "reply", "raised"}, UNCHANGED <<failures, circuit>>
        PROVE  Checked'
    BY <1>n DEF Checked
  <1>a. ASSUME AttemptFails, UNCHANGED <<j, k>>, faults \subseteq faults',
               pc \in {"attempt", "reply"}
        PROVE  Checked'
    <2>1. CASE attempt < MaxRetries
      BY <2>1, <1>a, RetryAssumption DEF AttemptFails, Checked, Leg, Job, TypeOK
    <2>2. CASE ~(attempt < MaxRetries)
      BY <2>2, <1>a DEF AttemptFails, Checked
    <2>3. QED
      BY <2>1, <2>2
  <1>1. CASE Gate
    <2>1. CASE PassGate
      <3>1. j \in 1..Len(Jobs) /\ k = 1 /\ 1 \in 1..Len(Jobs[j].legs)
        <4>1. j \in 1..Len(Jobs) /\ k = 1
          BY <2>1 DEF PassGate, Cursor
        <4>2. Len(Jobs[j].legs) = 1 \/ Len(Jobs[j].legs) = 2
          BY <2>1, <4>1, JobFacts DEF PassGate, Job
        <4>3. QED
          BY <4>1, <4>2, SMTT(30)
      <3>2. ~PlanIsFilled(plan[Leg])
        BY <2>1, <3>1 DEF PassGate, Fresh, Leg, Job
      <3>3. QED
        BY <2>1, <3>2 DEF PassGate, Checked, Leg, Job
    <2>2. QED
      BY <1>1, <1>n, <2>1 DEF Gate, BlockJob, NextJob, PrepareRaises
  <1>2. CASE Execute
    <2> USE DEF ExecuteStep
    <2>1. CASE CircuitRejects \/ SkipZeroLots \/ RejectStaleQuote
      BY <2>1, <1>n DEF CircuitRejects, SkipZeroLots, RejectStaleQuote
    <2>2. CASE Simulate
      BY <2>2, <1>h DEF Simulate, Checked
    <2>3. CASE BeginAttempts
      BY <2>3, RetryAssumption DEF BeginAttempts, MayExecute, Checked, RefusedStale, Leg, Job
    <2>4. QED
      BY <1>2, <2>1, <2>2, <2>3 DEF Execute
  <1>3. CASE Attempt
    <2> USE DEF AttemptStep
    <2>1. CASE AttemptRefused
      BY <2>1, <1>a DEF AttemptRefused
    <2>2. CASE SpreadGuard
      BY <2>2, RetryAssumption DEF SpreadGuard, Checked
    <2>3. CASE AttemptRaises
      BY <2>3, <1>h DEF AttemptRaises, Checked, Leg, Job
    <2>4. CASE SendOrder
      BY <2>4 DEF SendOrder, Checked, Leg, Job
    <2>5. QED
      BY <1>3, <2>1, <2>2, <2>3, <2>4 DEF Attempt
  <1>4. CASE Reply
    <2> USE DEF ReplyStep
    <2>1. CASE ReplyRejected \/ ReplyLost \/ ReplyPartial
      BY <2>1, <1>a, <1>h DEF ReplyRejected, ReplyLost, ReplyPartial
    <2>2. CASE ReplyAccepted
      <3>1. PICK placed \in BOOLEAN, logged \in BOOLEAN :
              /\ AllHappen((IF placed THEN {"placed"} ELSE {}) \cup
                           (IF logged THEN {} ELSE {"log"}))
              /\ IF logged THEN pc' = "returned" /\ failures' = 0
                 ELSE pc' = "raised" /\ UNCHANGED failures
        BY <2>2 DEF ReplyAccepted
      <3>2. pc' = "raised" => "log" \in faults'
        BY <3>1 DEF AllHappen
      <3>3. ASSUME circuit = TRUE PROVE circuit' = TRUE
        <4>1. circuit' \in {circuit, TRUE}
          BY <2>2 DEF ReplyAccepted
        <4>2. QED
          BY <4>1, <3>3
      <3>4. failures' >= Threshold => circuit'
        <4>1. failures' >= Threshold => failures >= Threshold
          BY <3>1, RetryAssumption
        <4>2. failures >= Threshold => circuit = TRUE
          BY DEF Checked, TypeOK
        <4>3. QED
          BY <3>3, <4>1, <4>2
      <3>5. QED
        BY <3>1, <3>2, <3>4 DEF Checked
    <2>3. QED
      BY <1>4, <2>1, <2>2 DEF Reply
  <1>5. CASE Settle
    <2> USE DEF SettleStep
    <2>1. CASE SingleSettles \/ SingleRaises
      BY <2>1, <1>n DEF SingleSettles, SingleRaises, NextJob
    <2>2. CASE EntrySettles
      <3>1. CASE k = 1
        <4>1. j \in 1..Len(Jobs) /\ 2 \in 1..Len(Jobs[j].legs)
          BY <2>2, LegFacts DEF EntrySettles, Cursor, Job
        <4>2. ~PlanIsFilled(plan[Job.legs[2]])
          BY <2>2, <3>1, <4>1 DEF EntrySettles, Fresh, Job
        <4>3. Job.legs[2] \in Legs /\ Job.legs[2] # Leg
          BY <2>2, <3>1, <4>1, Distinct DEF EntrySettles, Job
        <4>4. plan'[Job.legs[2]] = plan[Job.legs[2]]
          BY <2>2, <4>3, PlanFrame DEF EntrySettles
        <4>5. Leg' = Job.legs[2]
          BY <2>2, <3>1 DEF EntrySettles, Leg, Job
        <4>6. pc' = "execute" /\ ~PlanIsFilled(plan'[Leg'])
          BY <2>2, <3>1, <4>2, <4>4, <4>5 DEF EntrySettles
        <4>7. QED
          BY <2>2, <4>6 DEF EntrySettles, Checked
      <3>2. CASE k # 1
        BY <2>2, <3>2, <1>n DEF EntrySettles
      <3>3. QED
        BY <3>1, <3>2
    <2>3. CASE Judge
      <3>1. CASE NextJob
        BY <2>3, <3>1, <1>n DEF Judge, NextJob
      <3>2. CASE ~NextJob
        <4>1. k' \in {1, 2} \ FilledLegs /\ pc' = "execute" /\ plan' = plan /\ j' = j
          BY <2>3, <3>2 DEF Judge
        <4>2. ~PlanIsFilled(plan'[Leg'])
          BY <4>1 DEF FilledLegs, Leg, Job
        <4>3. QED
          BY <2>3, <4>1, <4>2 DEF Judge, Checked
      <3>3. QED
        BY <3>1, <3>2
    <2>4. CASE RetrySettles
      <3>1. CASE NextJob
        BY <2>4, <3>1, <1>n DEF RetrySettles, NextJob
      <3>2. CASE ~NextJob
        <4>1. Leg' = Leg /\ ("log" \notin faults' => ~PlanIsFilled(plan'[Leg]))
          <5>1. Leg' = Leg
            BY <2>4, <3>2 DEF RetrySettles, Leg, Job
          <5>2. CASE pc = "returned"
            BY <2>4, <3>2, <5>1, <5>2 DEF RetrySettles
          <5>3. CASE pc = "failed"
            BY <2>4, <5>1, <5>3, <1>l DEF RetrySettles, MarkFailed, PlanIsFilled, TypeOK
          <5>4. CASE pc = "raised"
            BY <2>4, <5>1, <5>4 DEF RetrySettles, Checked
          <5>5. QED
            BY <2>4, <5>1, <5>2, <5>3, <5>4 DEF RetrySettles
        <4>2. QED
          BY <2>4, <3>2, <4>1 DEF RetrySettles, Checked
      <3>3. QED
        BY <3>1, <3>2
    <2>5. QED
      BY <1>5, <2>1, <2>2, <2>3, <2>4 DEF Settle
  <1>6. CASE Close
    BY <1>6, <1>n DEF Close, CloseStep, CloseSimulated, CloseFindsNothing, CloseFails,
         CloseWorks, ClosePlaced, CloseRaises, NextJob
  <1>7. CASE Environment
    BY <1>7, <1>h DEF Environment, LateFill, LateDrop, BrokerExit, QuoteAges, Kill, Checked, Leg, Job
  <1>8. CASE Terminated \/ UNCHANGED vars
    BY <1>8 DEF Terminated, Checked, Leg, Job
  <1>9. QED
    BY <1>1, <1>2, <1>3, <1>4, <1>5, <1>6, <1>7, <1>8 DEF Next, RunStep

LEMMA OrphanStep ==
    TypeOK /\ Cursor /\ OrphanHeld /\ [Next]_vars => OrphanHeld'
  <1> SUFFICES ASSUME TypeOK, Cursor, OrphanHeld, [Next]_vars, pc' \in Busy, round' > 0
               PROVE  Job'.kind = "pair" /\ PlanIsFilled(plan'[Orphan'])
    BY DEF OrphanHeld
  <1> USE DEF vars, runVars, agentVars, brokerVars
  <1>1. CASE Judge
    <2>1. /\ k' \in {1, 2} \ FilledLegs /\ pc = "judge" /\ plan' = plan /\ j' = j
          /\ FilledLegs \notin {{}, {1, 2}}
      BY <1>1 DEF Judge, NextJob
    <2>2. 3 - k' \in FilledLegs
      <3>1. k' = 1 \/ k' = 2
        BY <2>1
      <3>2. FilledLegs \subseteq {1, 2}
        BY DEF FilledLegs
      <3>3. QED
        BY <2>1, <3>1, <3>2
    <2>3. QED
      BY <2>1, <2>2 DEF FilledLegs, Orphan, Job, Cursor
  <1>2. CASE ~Judge
    <2>1. pc \in Busy /\ round > 0 /\ UNCHANGED <<j, k>>
      <3>1. CASE Gate
        BY <3>1 DEF Gate, BlockJob, PassGate, PrepareRaises, NextJob, Cursor, TypeOK
      <3>2. CASE Execute
        BY <3>2 DEF Execute, ExecuteStep, CircuitRejects, SkipZeroLots, RejectStaleQuote,
             Simulate, BeginAttempts
      <3>3. CASE Attempt
        BY <3>3 DEF Attempt, AttemptStep, AttemptRefused, SpreadGuard, AttemptRaises,
             SendOrder, AttemptFails
      <3>4. CASE Reply
        BY <3>4 DEF Reply, ReplyStep, ReplyRejected, ReplyLost, ReplyPartial, ReplyAccepted,
             AttemptFails
      <3>5. CASE Settle
        BY <3>5, <1>2 DEF Settle, SingleSettles, SingleRaises, EntrySettles, RetrySettles,
             NextJob
      <3>6. CASE Close
        BY <3>6 DEF Close, CloseStep, CloseSimulated, CloseFindsNothing, CloseFails,
             CloseWorks, ClosePlaced, CloseRaises, NextJob
      <3>7. CASE Environment \/ Terminated \/ UNCHANGED vars
        BY <3>7 DEF Environment, LateFill, LateDrop, BrokerExit, QuoteAges, Kill, Terminated
      <3>8. QED
        BY <3>1, <3>2, <3>3, <3>4, <3>5, <3>6, <3>7 DEF Next, RunStep
    <2>2. Job' = Job /\ Orphan' = Orphan
      BY <2>1 DEF Job, Orphan
    <2>3. Job.kind = "pair" /\ PlanIsFilled(plan[Orphan])
      BY <2>1 DEF OrphanHeld
    <2>4. plan'[Orphan] = plan[Orphan]
      BY <2>1, <2>3, LegFacts, PlanFrame
    <2>5. QED
      BY <2>2, <2>3, <2>4
  <1>3. QED
    BY <1>1, <1>2

\* Only SendOrder sends an order, and a prepared leg stays prepared.
LEMMA SendFrame ==
    ASSUME TypeOK, [Next]_vars
    PROVE  /\ prepared \subseteq prepared'
           /\ \A l : sends'[l] # sends[l] =>
                pc = "attempt" /\ sends' = [sends EXCEPT ![Leg] = @ + 1]
  <1> USE DEF vars, runVars, agentVars, brokerVars
  <1>0. prepared \subseteq prepared' /\ (sends' # sends => SendOrder)
    <2>1. CASE Gate
      BY <2>1 DEF Gate, BlockJob, PassGate, PrepareRaises
    <2>2. CASE Execute
      BY <2>2 DEF Execute, ExecuteStep, CircuitRejects, SkipZeroLots, RejectStaleQuote,
           Simulate, BeginAttempts
    <2>3. CASE Attempt
      BY <2>3 DEF Attempt, AttemptStep, AttemptRefused, SpreadGuard, AttemptRaises, SendOrder
    <2>4. CASE Reply
      BY <2>4 DEF Reply, ReplyStep, ReplyRejected, ReplyLost, ReplyPartial, ReplyAccepted
    <2>5. CASE Settle
      BY <2>5 DEF Settle, SettleStep, SingleSettles, SingleRaises, EntrySettles, Judge,
           RetrySettles
    <2>6. CASE Close
      BY <2>6 DEF Close, CloseStep, CloseSimulated, CloseFindsNothing, CloseFails,
           CloseWorks, ClosePlaced, CloseRaises
    <2>7. CASE Environment \/ Terminated \/ UNCHANGED vars
      BY <2>7 DEF Environment, LateFill, LateDrop, BrokerExit, QuoteAges, Kill, Terminated
    <2>8. QED
      BY <2>1, <2>2, <2>3, <2>4, <2>5, <2>6, <2>7 DEF Next, RunStep
  <1>9. QED
    BY <1>0 DEF SendOrder, AttemptStep

LEMMA GateStep == TypeOK /\ Cursor /\ GateHolds /\ [Next]_vars => GateHolds'
  <1> SUFFICES ASSUME TypeOK, Cursor, GateHolds, [Next]_vars,
                      NEW i \in 1..Len(Jobs), IsPair(i),
                      NEW a \in 1..Len(Jobs[i].legs), sends'[Jobs[i].legs[a]] > 0
               PROVE  /\ Len(Jobs[i].legs) = 2
                      /\ Jobs[i].legs[1] \in prepared' /\ Jobs[i].legs[2] \in prepared'
    BY DEF GateHolds, Traded, IsPair
  <1> USE DEF vars, runVars, agentVars, brokerVars
  <1>2. CASE sends'[Jobs[i].legs[a]] = sends[Jobs[i].legs[a]]
    BY <1>2, SendFrame DEF GateHolds, Traded
  <1>3. CASE sends'[Jobs[i].legs[a]] # sends[Jobs[i].legs[a]]
    <2>1. pc = "attempt" /\ sends' = [sends EXCEPT ![Leg] = @ + 1]
      BY <1>3, SendFrame
    <2>2. Jobs[i].legs[a] \in Legs
      BY JobFacts
    <2>3. Jobs[i].legs[a] = Leg
      BY <1>3, <2>1, <2>2 DEF TypeOK
    <2>4. i = j
      BY <2>1, <2>3, Distinct
    <2>5. Len(Jobs[i].legs) = 2 /\ JobLegs \subseteq prepared
      BY <2>1, <2>4 DEF Cursor, IsPair, Job
    <2>6. Jobs[i].legs[1] \in JobLegs /\ Jobs[i].legs[2] \in JobLegs
      BY <2>4, <2>5 DEF JobLegs, Job
    <2>7. QED
      BY <2>5, <2>6, SendFrame
  <1>4. QED
    BY <1>2, <1>3

\* The plan appended by close_fn is never taken back, and leaving a job is NextJob.
LEMMA ClosedFrame ==
    ASSUME TypeOK, Cursor, [Next]_vars
    PROVE  /\ \A l \in Legs : closed[l] # "none" => closed'[l] # "none"
           /\ j' = j \/ NextJob
  <1> USE DEF vars, runVars, agentVars, brokerVars, TypeOK
  <1>1. CASE Gate
    BY <1>1 DEF Gate, BlockJob, PassGate, PrepareRaises
  <1>2. CASE Execute
    BY <1>2 DEF Execute, ExecuteStep, CircuitRejects, SkipZeroLots, RejectStaleQuote,
         Simulate, BeginAttempts
  <1>3. CASE Attempt
    BY <1>3 DEF Attempt, AttemptStep, AttemptRefused, SpreadGuard, AttemptRaises, SendOrder
  <1>4. CASE Reply
    BY <1>4 DEF Reply, ReplyStep, ReplyRejected, ReplyLost, ReplyPartial, ReplyAccepted
  <1>5. CASE Settle
    BY <1>5 DEF Settle, SettleStep, SingleSettles, SingleRaises, EntrySettles, Judge,
         RetrySettles
  <1>6. CASE Close
    <2>1. CASE CloseRaises
      BY <2>1 DEF CloseRaises
    <2>2. ASSUME NEW status \in {"orphan_closed", "close_failed"}, CloseStep(status)
          PROVE  (\A l \in Legs : closed[l] # "none" => closed'[l] # "none") /\ NextJob
      BY <2>2 DEF CloseStep
    <2>3. CASE CloseStep("orphan_closed") \/ CloseStep("close_failed")
      BY <2>2, <2>3
    <2>4. QED
      BY <1>6, <2>1, <2>3 DEF Close, CloseSimulated, CloseFindsNothing, CloseFails,
           CloseWorks, ClosePlaced
  <1>7. CASE Environment \/ Terminated \/ UNCHANGED vars
    BY <1>7 DEF Environment, LateFill, LateDrop, BrokerExit, QuoteAges, Kill, Terminated
  <1>8. QED
    BY <1>1, <1>2, <1>3, <1>4, <1>5, <1>6, <1>7 DEF Next, RunStep

LEMMA SettledStep ==
    TypeOK /\ Cursor /\ Fresh /\ OrphanHeld /\ OrphanSettled /\ [Next]_vars => OrphanSettled'
  <1> SUFFICES ASSUME TypeOK, Cursor, Fresh, OrphanHeld, OrphanSettled, [Next]_vars,
                      NEW i \in FullPairs, i < j', NEW a \in {1, 2},
                      PlanIsFilled(plan'[Jobs[i].legs[a]]),
                      ~PlanIsFilled(plan'[Jobs[i].legs[3 - a]])
               PROVE  closed'[Jobs[i].legs[a]] # "none"
    BY DEF OrphanSettled, Finished
  <1> USE DEF vars, runVars, agentVars, brokerVars
  <1>t. /\ i \in 1..Len(Jobs) /\ Jobs[i].kind = "pair" /\ Len(Jobs[i].legs) = 2
        /\ a \in 1..Len(Jobs[i].legs) /\ 3 - a \in 1..Len(Jobs[i].legs)
        /\ 3 - a \in {1, 2} /\ j \in Nat /\ i \in Nat
    <2>1. i \in 1..Len(Jobs) /\ Jobs[i].kind = "pair" /\ Len(Jobs[i].legs) = 2
      BY DEF FullPairs, IsPair
    <2>2. i \in Nat /\ j \in Nat
      BY <2>1, JobsAssumption, LenProperties DEF TypeOK
    <2>3. a \in 1..2 /\ 3 - a \in 1..2 /\ 3 - a \in {1, 2}
      OBVIOUS
    <2>4. QED
      BY <2>1, <2>2, <2>3
  <1>l. Jobs[i].legs[a] \in Legs /\ Jobs[i].legs[3 - a] \in Legs
    BY <1>t, JobFacts
  <1>1. CASE i < j
    <2>1. \A b \in {1, 2} : plan'[Jobs[i].legs[b]] = plan[Jobs[i].legs[b]]
      <3>1. CASE pc \in Busy
        <4>1. \A b \in {1, 2} : Jobs[i].legs[b] \in Legs /\ Jobs[i].legs[b] # Leg
          BY <1>1, <1>t, <3>1, Distinct
        <4>2. QED
          BY <3>1, <4>1, PlanFrame
      <3>2. CASE pc \notin Busy
        BY <3>2, PlanFrame
      <3>3. QED
        BY <3>1, <3>2
    <2>2. closed[Jobs[i].legs[a]] # "none"
      BY <1>1, <1>t, <2>1 DEF OrphanSettled, Finished
    <2>3. QED
      BY <1>l, <2>2, ClosedFrame
  <1>2. CASE ~(i < j)
    <2>1. i = j /\ NextJob
      <3>1. NextJob
        BY <1>2, ClosedFrame
      <3>2. QED
        BY <1>2, <1>t, <3>1 DEF NextJob
    <2>2. Job.kind = "pair" /\ Job = Jobs[i]
      BY <1>t, <2>1 DEF Job
    <2>3. CASE Gate
      <3>1. pc = "prepare" /\ plan' = plan
        BY <2>1, <2>3 DEF Gate, BlockJob, PassGate, PrepareRaises
      <3>2. QED
        BY <1>t, <2>1, <3>1 DEF Fresh
    <2>4. CASE Settle
      <3>1. CASE Judge
        <4>1. FilledLegs \in {{}, {1, 2}} /\ plan' = plan
          BY <2>1, <3>1, <1>t DEF Judge, NextJob
        <4>2. a \in FilledLegs /\ 3 - a \notin FilledLegs
          BY <1>t, <2>2, <4>1 DEF FilledLegs
        <4>3. QED
          BY <1>t, <4>1, <4>2
      <3>2. CASE RetrySettles
        <4>1. pc = "returned" /\ round > 0 /\ PlanIsFilled(plan[Leg]) /\ plan' = plan
          BY <2>1, <3>2, <1>t DEF RetrySettles, NextJob
        <4>2. PlanIsFilled(plan[Orphan])
          BY <4>1 DEF OrphanHeld
        <4>3. 3 - a = k \/ 3 - a = 3 - k
          BY <1>t, <2>2, <4>1, LegFacts
        <4>4. QED
          BY <2>2, <4>1, <4>2, <4>3 DEF Leg, Orphan
      <3>3. CASE EntrySettles \/ SingleSettles \/ SingleRaises
        BY <2>1, <2>2, <3>3, <1>t DEF EntrySettles, SingleSettles, SingleRaises, NextJob
      <3>4. QED
        BY <2>4, <3>1, <3>2, <3>3 DEF Settle
    <2>5. CASE Close
      <3>1. PICK status \in {"orphan_closed", "close_failed"} : CloseStep(status)
        BY <2>1, <2>5, <1>t DEF Close, CloseSimulated, CloseFindsNothing, CloseFails,
             CloseWorks, ClosePlaced, CloseRaises, NextJob
      <3>2. /\ pc = "close" /\ plan' = plan
            /\ closed' = [closed EXCEPT ![Orphan] = status]
        BY <3>1 DEF CloseStep
      <3>3. PlanIsFilled(plan[Orphan]) /\ Orphan \in Legs
        BY <2>2, <3>2, LegFacts DEF OrphanHeld, Cursor
      <3>4. a = 3 - k
        <4>1. 3 - a = 3 - k \/ a = 3 - k
          BY <1>t, <2>2, <3>2, LegFacts
        <4>2. 3 - a # 3 - k
          BY <2>2, <3>2, <3>3 DEF Orphan
        <4>3. QED
          BY <4>1, <4>2
      <3>5. QED
        BY <2>2, <3>2, <3>3, <3>4 DEF Orphan, TypeOK
    <2>6. CASE Execute
      BY <2>6, <2>1, <1>t DEF Execute, ExecuteStep, CircuitRejects, SkipZeroLots,
           RejectStaleQuote, Simulate, BeginAttempts, NextJob
    <2>7. CASE Attempt
      BY <2>7, <2>1, <1>t DEF Attempt, AttemptStep, AttemptRefused, SpreadGuard,
           AttemptRaises, SendOrder, NextJob
    <2>8. CASE Reply
      BY <2>8, <2>1, <1>t DEF Reply, ReplyStep, ReplyRejected, ReplyLost, ReplyPartial,
           ReplyAccepted, NextJob
    <2>9. CASE Environment \/ Terminated \/ UNCHANGED vars
      BY <2>9, <2>1, <1>t DEF Environment, LateFill, LateDrop, BrokerExit, QuoteAges, Kill, Terminated,
           NextJob
    <2>10. QED
      BY <2>3, <2>4, <2>5, <2>6, <2>7, <2>8, <2>9 DEF Next, RunStep
  <1>3. QED
    BY <1>1, <1>2

-----------------------------------------------------------------------------
(* The books of the program and of the broker                              *)

\* Tickets are given in the order of the calls, and the order that waits for its
\* reply has not opened a position.
Ticketed ==
    /\ \A o \in open \cup working : o \in PriorOpen \/ o[2] \in 1..sends[o[1]]
    /\ pc = "reply" => Order(Leg) \notin open /\ sends[Leg] > 0

\* Only legs of jobs that have been left have been closed, and only what is
\* closed is undone.
Unclosed ==
    /\ \A i \in 1..Len(Jobs) : i >= j =>
         \A a \in 1..Len(Jobs[i].legs) : closed[Jobs[i].legs[a]] = "none"
    /\ \A l \in Legs : undone[l] # {} => closed[l] # "none"

\* A leg that has failed, or whose partner is about to be closed, is not filled.
Alone ==
    pc \in {"failed", "close"} /\ "log" \notin faults => ~PlanIsFilled(plan[Leg])

\* What is reported as filled is open until the orphan close has dealt with it.
Backed ==
    ~dryRun /\ faults \cap {"exit", "placed"} = {} =>
        \A l \in Legs : PlanIsFilled(plan[l]) =>
            IF closed[l] = "none" THEN <<l, plan[l].ticket>> \in open
            ELSE "closefail" \in faults \/ <<l, plan[l].ticket>> \in undone[l]

\* A dry run leaves the broker alone.
DryQuiet == dryRun => open \subseteq PriorOpen /\ working = {}

\* Without a lost or late reply the broker has decided all orders but the current one.
Decided ==
    faults \cap {"lost", "placed", "kill"} = {} =>
        \A o \in working : pc = "reply" /\ o = Order(Leg)

Books == /\ Ticketed /\ Unclosed /\ Alone /\ Backed /\ DryQuiet /\ Decided
         /\ ClosesOnlyOrphans /\ NoStrayPosition

\* A step that concerns neither the broker nor close_fn: the plan of the leg in
\* execution may stop being filled, which without a failing log it was not.
Quiet ==
    /\ UNCHANGED <<open, working, undone, sends, closed>>
    /\ pc' = "reply" => UNCHANGED <<pc, j, k, plan>>
    /\ pc = "reply" => UNCHANGED <<pc, j, k>> \/ "kill" \in faults'
    /\ \/ plan' = plan
       \/ dryRun /\ pc = "execute"
       \/ /\ pc \in Busy /\ ~PlanIsFilled(plan'[Leg])
          /\ "log" \notin faults => ~PlanIsFilled(plan[Leg])

\* Every step is quiet or one of those that the broker or close_fn takes part in.
LEMMA Steps ==
    ASSUME TypeOK, Cursor, Checked, Alone, [Next]_vars
    PROVE  /\ dryRun' = dryRun /\ faults \subseteq faults'
           /\ \/ Quiet \/ SendOrder \/ Reply
              \/ CloseSimulated \/ CloseFindsNothing \/ CloseFails \/ CloseWorks \/ ClosePlaced
              \/ LateFill \/ LateDrop \/ BrokerExit
  <1> USE DEF vars, runVars, agentVars, brokerVars, faultVars
  <1>l. pc \in Busy => Leg \in Legs
    BY LegFacts
  <1>h. \A fs : AllHappen(fs) => faults \subseteq faults' /\ fs \subseteq faults'
    BY DEF AllHappen
  <1>f. ASSUME NEW lots, NEW filled, NEW ticket, NEW status \in {"skipped", "failed"}, pc \in Busy,
               SetPlan(PlanWith(lots, status, filled, ticket))
        PROVE  ~PlanIsFilled(plan'[Leg])
    BY <1>l, <1>f DEF PlanIsFilled, TypeOK
  <1>1. dryRun' = dryRun /\ faults \subseteq faults'
    <2>1. CASE Gate
      BY <1>h, <2>1 DEF Gate, BlockJob, PassGate, PrepareRaises, Happens
    <2>2. CASE Execute
      BY <1>h, <2>2 DEF Execute, ExecuteStep, CircuitRejects, SkipZeroLots, RejectStaleQuote,
           Simulate, BeginAttempts, Happens
    <2>3. CASE Attempt
      BY <1>h, <2>3 DEF Attempt, AttemptStep, AttemptRefused, SpreadGuard, AttemptRaises, SendOrder,
           AttemptFails, Happens
    <2>4. CASE Reply
      BY <1>h, <2>4 DEF Reply, ReplyStep, ReplyRejected, ReplyLost, ReplyPartial, ReplyAccepted,
           AttemptFails, Happens
    <2>5. CASE Settle
      BY <2>5 DEF Settle, SettleStep, SingleSettles, SingleRaises, EntrySettles, Judge,
           RetrySettles
    <2>6. CASE Close
      BY <1>h, <2>6 DEF Close, CloseStep, CloseSimulated, CloseFindsNothing, CloseFails,
           CloseWorks, ClosePlaced, CloseRaises, Happens
    <2>7. CASE Environment \/ Terminated \/ UNCHANGED vars
      BY <1>h, <2>7 DEF Environment, LateFill, LateDrop, BrokerExit, QuoteAges, Kill, Terminated, Happens
    <2>8. QED
      BY <2>1, <2>2, <2>3, <2>4, <2>5, <2>6, <2>7 DEF Next, RunStep
  <1>2. CASE Gate
    BY <1>1, <1>2 DEF Gate, BlockJob, PassGate, PrepareRaises, NextJob, Quiet
  <1>3. CASE Execute
    <2> USE DEF ExecuteStep
    <2>1. CASE CircuitRejects \/ RejectStaleQuote \/ BeginAttempts
      BY <1>1, <2>1 DEF CircuitRejects, RejectStaleQuote, BeginAttempts, Quiet
    <2>2. CASE SkipZeroLots
      <3>1. ~PlanIsFilled(plan'[Leg])
        BY <1>f, <2>2 DEF SkipZeroLots
      <3>2. "log" \notin faults => ~PlanIsFilled(plan[Leg])
        BY <2>2 DEF SkipZeroLots, Checked
      <3>3. QED
        BY <1>1, <2>2, <3>1, <3>2 DEF SkipZeroLots, Quiet
    <2>3. CASE Simulate
      BY <1>1, <2>3 DEF Simulate, Quiet
    <2>4. QED
      BY <1>3, <2>1, <2>2, <2>3 DEF Execute
  <1>4. CASE Attempt
    <2> USE DEF AttemptStep
    <2>1. CASE AttemptRefused \/ AttemptRaises
      BY <1>1, <2>1 DEF AttemptRefused, AttemptRaises, AttemptFails, Quiet
    <2>2. CASE SpreadGuard
      <3>1. ~PlanIsFilled(plan'[Leg])
        BY <1>f, <2>2 DEF SpreadGuard
      <3>2. "log" \notin faults => ~PlanIsFilled(plan[Leg])
        BY <2>2 DEF SpreadGuard, Checked
      <3>3. QED
        BY <1>1, <2>2, <3>1, <3>2 DEF SpreadGuard, Quiet
    <2>3. QED
      BY <1>1, <1>4, <2>1, <2>2 DEF Attempt
  <1>5. CASE Settle
    <2> USE DEF SettleStep
    <2>1. CASE SingleSettles \/ SingleRaises \/ Judge
      BY <1>1, <2>1 DEF SingleSettles, SingleRaises, Judge, NextJob, Quiet
    <2>2. ASSUME MarkFailed, pc \in {"failed", "raised"}
          PROVE  ~PlanIsFilled(plan'[Leg]) /\ ("log" \notin faults => ~PlanIsFilled(plan[Leg]))
      BY <1>f, <2>2 DEF MarkFailed, Alone, Checked
    <2>3. CASE EntrySettles
      <3>1. plan' = plan \/ (MarkFailed /\ pc \in {"failed", "raised"})
        BY <2>3 DEF EntrySettles
      <3>2. /\ UNCHANGED <<open, working, undone, sends, closed>>
            /\ pc' # "reply" /\ pc # "reply" /\ pc \in Busy
        BY <2>3 DEF EntrySettles
      <3>3. QED
        BY <1>1, <2>2, <3>1, <3>2 DEF Quiet
    <2>4. CASE RetrySettles
      <3>1. plan' = plan \/ (MarkFailed /\ pc \in {"failed", "raised"})
        BY <2>4 DEF RetrySettles
      <3>2. /\ UNCHANGED <<open, working, undone, sends, closed>>
            /\ pc' # "reply" /\ pc # "reply" /\ pc \in Busy
        BY <2>4 DEF RetrySettles, NextJob
      <3>3. QED
        BY <1>1, <2>2, <3>1, <3>2 DEF Quiet
    <2>5. QED
      BY <1>5, <2>1, <2>3, <2>4 DEF Settle
  <1>6. CASE CloseRaises \/ Kill \/ Terminated \/ UNCHANGED vars
    BY <1>1, <1>6, <1>h DEF CloseRaises, Kill, Terminated, Happens, Quiet
  <1>7. CASE Reply \/ Close \/ LateFill \/ LateDrop \/ BrokerExit
    BY <1>1, <1>6, <1>7 DEF Close
  <1>8. CASE QuoteAges
    BY <1>1, <1>8 DEF QuoteAges, Quiet
  <1>9. QED
    BY <1>2, <1>3, <1>4, <1>5, <1>6, <1>7, <1>8 DEF Next, RunStep, Environment

\* What the broker's replies do to the books.
LEMMA Replies ==
    ASSUME TypeOK, Cursor, Reply
    PROVE  /\ pc = "reply" /\ Leg \in Legs /\ UNCHANGED <<j, k, sends, closed, undone>>
           /\ \/ /\ plan' = plan /\ pc' \in {"attempt", "failed"} /\ open' = open
                 /\ working' = working \ {Order(Leg)}
              \/ /\ plan' = plan /\ pc' \in {"attempt", "failed"} /\ "lost" \in faults'
                 /\ UNCHANGED <<working, open>>
              \/ /\ plan' = plan /\ pc' \in {"attempt", "failed"} /\ "partial" \in faults'
                 /\ working' = working \ {Order(Leg)} /\ open' = open \cup {Order(Leg)}
              \/ /\ pc' \in {"returned", "raised"}
                 /\ plan'[Leg].ticket = sends[Leg] /\ PlanIsFilled(plan'[Leg])
                 /\ \/ "placed" \in faults' /\ UNCHANGED <<working, open>>
                    \/ working' = working \ {Order(Leg)} /\ open' = open \cup {Order(Leg)}
  <1> USE DEF ReplyStep
  <1>1. pc = "reply" /\ UNCHANGED <<j, k, sends, closed, undone>>
    BY DEF Reply, ReplyRejected, ReplyLost, ReplyPartial, ReplyAccepted
  <1>2. Leg \in Legs
    BY <1>1, LegFacts
  <1>3. \A f : Happens(f) => f \in faults'
    BY DEF Happens, AllHappen
  <1>4. CASE ReplyRejected
    BY <1>1, <1>2, <1>4 DEF ReplyRejected, AttemptFails
  <1>5. CASE ReplyLost
    BY <1>1, <1>2, <1>3, <1>5 DEF ReplyLost, AttemptFails
  <1>6. CASE ReplyPartial
    BY <1>1, <1>2, <1>3, <1>6 DEF ReplyPartial, AttemptFails
  <1>7. CASE ReplyAccepted
    <2>1. plan'[Leg] = PlanWith(TRUE, "filled", TRUE, sends[Leg])
      BY <1>2, <1>7 DEF ReplyAccepted, TypeOK
    <2>2. PlanIsFilled(plan'[Leg]) /\ plan'[Leg].ticket = sends[Leg]
      BY <2>1 DEF PlanIsFilled
    <2>3. PICK placed \in BOOLEAN, logged \in BOOLEAN :
            /\ AllHappen((IF placed THEN {"placed"} ELSE {}) \cup
                         (IF logged THEN {} ELSE {"log"}))
            /\ IF placed THEN UNCHANGED <<working, open>>
               ELSE working' = working \ {Order(Leg)} /\ open' = open \cup {Order(Leg)}
            /\ IF logged THEN pc' = "returned" /\ failures' = 0
               ELSE pc' = "raised" /\ UNCHANGED failures
      BY <1>7 DEF ReplyAccepted
    <2>4. placed => "placed" \in faults'
      BY <2>3 DEF AllHappen
    <2>5. QED
      BY <1>1, <1>2, <2>2, <2>3, <2>4
  <1>8. QED
    BY <1>4, <1>5, <1>6, <1>7 DEF Reply

Closing == CloseSimulated \/ CloseFindsNothing \/ CloseFails \/ CloseWorks \/ ClosePlaced

\* What the orphan close does to the books; it takes nothing but its target away.
LEMMA Closings ==
    ASSUME TypeOK, Cursor, OrphanHeld, Closing
    PROVE  /\ pc = "close" /\ NextJob /\ pc' \in {"done", "prepare"} /\ j' = j + 1
           /\ UNCHANGED <<plan, sends, working, prepared>>
           /\ Orphan \in Legs /\ Orphan # Leg /\ PlanIsFilled(plan[Orphan]) /\ Job.kind = "pair"
           /\ \E status \in {"orphan_closed", "close_failed"} : closed' = [closed EXCEPT ![Orphan] = status]
           /\ open' \subseteq open /\ \A o \in open : o \notin CloseTargets => o \in open'
           /\ \/ dryRun /\ UNCHANGED <<open, undone>>
              \/ CloseTargets = {} /\ UNCHANGED <<open, undone>>
              \/ "closefail" \in faults' /\ UNCHANGED undone
              \/ "placed" \in faults' /\ UNCHANGED <<open, undone>>
              \/ \E t \in CloseTargets :
                   open' = open \ {t} /\ undone' = [undone EXCEPT ![Orphan] = @ \cup {t}]
  <1> USE DEF CloseStep
  <1>1. PICK status \in {"orphan_closed", "close_failed"} : CloseStep(status)
    BY DEF Closing, CloseSimulated, CloseFindsNothing, CloseFails, CloseWorks, ClosePlaced
  <1>2. pc = "close" /\ NextJob /\ UNCHANGED <<plan, sends, working, prepared>>
    BY <1>1, Zenon DEF agentVars
  <1>3. pc' \in {"done", "prepare"} /\ j' = j + 1
    BY <1>2 DEF NextJob
  <1>4. round > 0 /\ Job.kind = "pair"
    BY <1>2 DEF Cursor
  <1>5. Orphan \in Legs /\ Orphan # Leg /\ PlanIsFilled(plan[Orphan])
    BY <1>2, <1>4, LegFacts DEF OrphanHeld
  <1>6. \A f : Happens(f) => f \in faults'
    BY DEF Happens, AllHappen
  <1>7. /\ open' \subseteq open /\ \A o \in open : o \notin CloseTargets => o \in open'
        /\ \/ dryRun /\ UNCHANGED <<open, undone>>
           \/ CloseTargets = {} /\ UNCHANGED <<open, undone>>
           \/ "closefail" \in faults' /\ UNCHANGED undone
           \/ "placed" \in faults' /\ UNCHANGED <<open, undone>>
           \/ \E t \in CloseTargets :
                open' = open \ {t} /\ undone' = [undone EXCEPT ![Orphan] = @ \cup {t}]
    <2> HIDE DEF CloseStep
    <2>1. CASE CloseSimulated \/ CloseFindsNothing \/ ClosePlaced
      BY <1>6, <2>1 DEF CloseSimulated, CloseFindsNothing, ClosePlaced
    <2>2. CASE CloseFails
      BY <1>6, <2>2 DEF CloseFails
    <2>3. CASE CloseWorks
      BY <2>3 DEF CloseWorks
    <2>4. QED
      BY <2>1, <2>2, <2>3 DEF Closing
  <1>8. QED
    BY <1>1, <1>2, <1>3, <1>4, <1>5, <1>7 DEF CloseStep

\* Only a close that is not simulated undoes anything.
LEMMA DryCloses ==
    ASSUME Closing, dryRun PROVE undone' = undone /\ open' = open
  BY DEF Closing, CloseSimulated, CloseFindsNothing, CloseFails, CloseWorks, ClosePlaced

\* close_filled_plan finds the position of the plan where it is open.
LEMMA OwnTarget ==
    ASSUME <<Orphan, plan[Orphan].ticket>> \in open
    PROVE  CloseTargets = {<<Orphan, plan[Orphan].ticket>>}
  BY DEF CloseTargets

\* What the broker does on its own.
LEMMA BrokerSteps ==
    ASSUME LateFill \/ LateDrop \/ BrokerExit
    PROVE  /\ UNCHANGED <<pc, j, k, plan, sends, closed, undone>>
           /\ \/ \E o \in Undecided : working' = working \ {o} /\ open' = open \cup {o}
              \/ \E o \in Undecided : working' = working \ {o} /\ open' = open
              \/ open' \subseteq open /\ working' = working /\ "exit" \in faults'
  <1>1. \A f : Happens(f) => f \in faults'
    BY DEF Happens, AllHappen
  <1>2. QED
    BY <1>1 DEF LateFill, LateDrop, BrokerExit, runVars, agentVars

LEMMA Sends ==
    ASSUME TypeOK, Cursor, SendOrder
    PROVE  /\ pc = "attempt" /\ pc' = "reply" /\ Leg \in Legs /\ sends[Leg] \in Nat
           /\ sends' = [sends EXCEPT ![Leg] = @ + 1]
           /\ working' = working \cup {<<Leg, sends[Leg] + 1>>}
           /\ Leg' = Leg /\ Order(Leg)' = <<Leg, sends[Leg] + 1>>
           /\ UNCHANGED <<j, k, plan, open, undone, closed>>
  <1>1. pc = "attempt" /\ UNCHANGED <<j, k, plan, open, undone, closed>> /\ pc' = "reply"
        /\ sends' = [sends EXCEPT ![Leg] = @ + 1] /\ working' = working \cup {<<Leg, sends[Leg] + 1>>}
    BY DEF SendOrder, AttemptStep, agentVars
  <1>2. Leg \in Legs /\ sends[Leg] \in Nat
    BY <1>1, LegFacts DEF TypeOK
  <1>3. Leg' = Leg
    BY <1>1 DEF Leg, Job
  <1>4. QED
    BY <1>1, <1>2, <1>3 DEF Order, TypeOK

\* What the step lemmas below start from.
Known == TypeOK /\ Cursor /\ Fresh /\ Checked /\ RefusedStale /\ OrphanHeld /\ Books

\* Every step, in the words of the lemmas above.
LEMMA KnownSteps ==
    ASSUME Known, [Next]_vars
    PROVE  /\ dryRun' = dryRun /\ faults \subseteq faults'
           /\ Quiet \/ SendOrder \/ Reply \/ Closing \/ LateFill \/ LateDrop \/ BrokerExit
  BY Steps DEF Known, Books, Closing

LEMMA TicketedStep == Known /\ [Next]_vars => Ticketed'
  <1> SUFFICES ASSUME Known, [Next]_vars PROVE Ticketed'
    OBVIOUS
  <1>t. /\ TypeOK /\ Cursor /\ OrphanHeld /\ Ticketed
        /\ \A l \in Legs : sends[l] \in Nat
        /\ \A o \in open \cup working : o = <<o[1], o[2]>> /\ o[1] \in Legs /\ o[2] \in Nat
    BY DEF Known, Books, TypeOK
  <1>p. \A o \in PriorOpen : o[2] = 0
    BY BrokerAssumption
  <1>1. CASE Quiet
    <2>1. UNCHANGED <<open, working, sends>> /\ (pc' = "reply" => UNCHANGED <<pc, j, k>>)
      BY <1>1 DEF Quiet
    <2>2. pc' = "reply" => Order(Leg)' = Order(Leg) /\ Leg' = Leg
      BY <2>1 DEF Order, Leg, Job
    <2>3. QED
      BY <1>t, <2>1, <2>2 DEF Ticketed
  <1>2. CASE SendOrder
    <2>1. /\ pc' = "reply" /\ Leg \in Legs /\ sends[Leg] \in Nat
          /\ sends' = [sends EXCEPT ![Leg] = @ + 1]
          /\ working' = working \cup {<<Leg, sends[Leg] + 1>>}
          /\ Leg' = Leg /\ Order(Leg)' = <<Leg, sends[Leg] + 1>> /\ open' = open
      BY <1>2, <1>t, Sends
    <2>2. sends'[Leg] = sends[Leg] + 1 /\ \A l \in Legs : l # Leg => sends'[l] = sends[l]
      BY <2>1 DEF TypeOK, Known
    <2>3. ASSUME NEW o \in open \cup working PROVE o \in PriorOpen \/ o[2] \in 1..sends'[o[1]]
      <3>1. o \in PriorOpen \/ o[2] \in 1..sends[o[1]]
        BY <1>t DEF Ticketed
      <3>2. sends[o[1]] \in Nat /\ (sends'[o[1]] = sends[o[1]] \/ sends'[o[1]] = sends[o[1]] + 1)
        BY <1>t, <2>1, <2>2
      <3>3. QED
        BY <3>1, <3>2
    <2>4. <<Leg, sends[Leg] + 1>> \notin open
      <3>1. ASSUME NEW o \in open, o[1] = Leg PROVE o[2] # sends[Leg] + 1
        <4>1. o \in PriorOpen \/ o[2] \in 1..sends[Leg]
          BY <1>t, <3>1 DEF Ticketed
        <4>2. CASE o \in PriorOpen
          BY <1>p, <2>1, <4>2
        <4>3. QED
          BY <2>1, <4>1, <4>2
      <3>2. QED
        BY <3>1
    <2>5. QED
      BY <2>1, <2>2, <2>3, <2>4 DEF Ticketed
  <1>3. CASE Reply
    <2>1. /\ pc = "reply" /\ pc' # "reply" /\ sends' = sends /\ Leg \in Legs
          /\ working' \subseteq working /\ open' \subseteq open \cup {Order(Leg)}
      BY <1>3, <1>t, Replies
    <2>2. Order(Leg)[2] \in 1..sends[Order(Leg)[1]]
      BY <1>t, <2>1 DEF Ticketed, Order
    <2>3. QED
      BY <1>t, <2>1, <2>2 DEF Ticketed
  <1>4. CASE Closing
    <2>1. open' \subseteq open /\ working' = working /\ sends' = sends /\ pc' # "reply"
      BY <1>4, <1>t, Closings
    <2>2. QED
      BY <1>t, <2>1 DEF Ticketed
  <1>5. CASE LateFill \/ LateDrop \/ BrokerExit
    <2>1. /\ UNCHANGED <<pc, j, k, sends>> /\ working' \subseteq working
          /\ open' \subseteq open \/ \E o \in Undecided : open' = open \cup {o}
      BY <1>5, BrokerSteps
    <2>2. Leg' = Leg /\ Order(Leg)' = Order(Leg)
      BY <2>1 DEF Leg, Job, Order
    <2>3. Undecided \subseteq working /\ (pc = "reply" => Order(Leg) \notin Undecided)
      BY DEF Undecided
    <2>4. QED
      BY <1>t, <2>1, <2>2, <2>3 DEF Ticketed
  <1>6. QED
    BY <1>1, <1>2, <1>3, <1>4, <1>5, KnownSteps

LEMMA UnclosedStep == Known /\ [Next]_vars => Unclosed'
  <1> SUFFICES ASSUME Known, [Next]_vars PROVE Unclosed'
    OBVIOUS
  <1>t. TypeOK /\ Cursor /\ OrphanHeld /\ Unclosed
    BY DEF Known, Books
  <1>n. Len(Jobs) \in Nat /\ j \in Nat
    BY <1>t, JobsAssumption, LenProperties DEF TypeOK
  <1>j. j' = j \/ j' = j + 1
    BY <1>t, ClosedFrame DEF NextJob
  <1>1. CASE UNCHANGED <<closed, undone>>
    BY <1>t, <1>n, <1>j, <1>1 DEF Unclosed
  <1>2. CASE Closing
    <2>1. PICK status \in {"orphan_closed", "close_failed"} : closed' = [closed EXCEPT ![Orphan] = status]
      BY <1>2, <1>t, Closings
    <2>2. /\ pc = "close" /\ j' = j + 1 /\ Orphan \in Legs /\ Job.kind = "pair"
          /\ undone' = undone \/ \E t : undone' = [undone EXCEPT ![Orphan] = @ \cup {t}]
      BY <1>2, <1>t, Closings
    <2>3. ASSUME NEW i \in 1..Len(Jobs), i >= j + 1, NEW a \in 1..Len(Jobs[i].legs)
          PROVE  closed'[Jobs[i].legs[a]] = "none"
      <3>1. Jobs[i].legs[a] \in Legs /\ Jobs[i].legs[a] # Orphan
        <4>1. j \in 1..Len(Jobs) /\ k \in {1, 2} /\ Len(Jobs[j].legs) = 2
          BY <1>t, <2>2, LegFacts DEF Cursor, Job
        <4>2. 3 - k \in 1..Len(Jobs[j].legs) /\ i # j
          BY <1>n, <2>3, <4>1
        <4>3. Jobs[i].legs[a] # Jobs[j].legs[3 - k]
          BY <4>1, <4>2, LegsAssumption, SMTT(30)
        <4>4. QED
          BY <4>3, JobFacts DEF Orphan, Job
      <3>2. closed[Jobs[i].legs[a]] = "none"
        BY <1>t, <1>n, <2>3 DEF Unclosed
      <3>3. QED
        BY <1>t, <2>1, <3>1, <3>2 DEF TypeOK
    <2>4. ASSUME NEW l \in Legs, undone'[l] # {} PROVE closed'[l] # "none"
      <3>1. CASE l = Orphan
        BY <1>t, <2>1, <3>1 DEF TypeOK
      <3>2. CASE l # Orphan
        BY <1>t, <2>1, <2>2, <2>4, <3>2 DEF TypeOK, Unclosed
      <3>3. QED
        BY <3>1, <3>2
    <2>5. QED
      BY <2>2, <2>3, <2>4 DEF Unclosed
  <1>3. CASE SendOrder
    BY <1>1, <1>3, <1>t, Sends
  <1>4. CASE Reply
    BY <1>1, <1>4, <1>t, Replies
  <1>5. CASE LateFill \/ LateDrop \/ BrokerExit
    BY <1>1, <1>5, BrokerSteps
  <1>6. QED
    BY <1>1, <1>2, <1>3, <1>4, <1>5, KnownSteps DEF Quiet

LEMMA AloneStep == Known /\ [Next]_vars => Alone'
  <1> SUFFICES ASSUME Known, [Next]_vars, pc' \in {"failed", "close"}, "log" \notin faults'
               PROVE  ~PlanIsFilled(plan'[Leg'])
    BY DEF Alone
  <1> USE DEF vars, runVars, agentVars, brokerVars
  <1>t. TypeOK /\ Cursor /\ Checked /\ Alone /\ "log" \notin faults
    BY KnownSteps DEF Known, Books
  <1>1. CASE Execute
    <2>1. pc = "execute" /\ UNCHANGED <<j, k, plan>>
      BY <1>1 DEF Execute, ExecuteStep, CircuitRejects, SkipZeroLots, RejectStaleQuote,
           Simulate, BeginAttempts
    <2>2. QED
      BY <1>t, <2>1 DEF Checked, Leg, Job
  <1>2. CASE Attempt
    <2>1. pc = "attempt" /\ UNCHANGED <<j, k, plan>>
      BY <1>2 DEF Attempt, AttemptStep, AttemptRefused, SpreadGuard, AttemptRaises, SendOrder,
           AttemptFails
    <2>2. QED
      BY <1>t, <2>1 DEF Checked, Leg, Job
  <1>3. CASE Reply
    <2>1. pc = "reply" /\ UNCHANGED <<j, k, plan>>
      BY <1>3, <1>t, Replies
    <2>2. QED
      BY <1>t, <2>1 DEF Checked, Leg, Job
  <1>4. CASE Settle
    <2>1. RetrySettles /\ pc' = "close"
      BY <1>4 DEF Settle, SingleSettles, SingleRaises, EntrySettles, Judge, RetrySettles, NextJob
    <2>2. UNCHANGED <<j, k>> /\ ~(pc = "returned" /\ PlanIsFilled(plan[Leg]))
      BY <2>1 DEF RetrySettles, NextJob
    <2>3. ~PlanIsFilled(plan'[Leg])
      <3>1. CASE pc = "failed"
        <4>1. Leg \in Legs
          BY <1>t, <3>1, LegFacts
        <4>2. QED
          BY <1>t, <2>1, <3>1, <4>1 DEF RetrySettles, MarkFailed, PlanIsFilled, TypeOK
      <3>2. CASE pc \in {"returned", "raised"}
        BY <1>t, <2>1, <2>2, <3>2 DEF RetrySettles, Checked
      <3>3. QED
        BY <2>1, <3>1, <3>2 DEF RetrySettles
    <2>4. QED
      BY <2>2, <2>3 DEF Leg, Job
  <1>5. CASE UNCHANGED <<pc, j, k, plan>>
    BY <1>t, <1>5 DEF Alone, Leg, Job
  <1>6. CASE Gate \/ Close
    BY <1>6 DEF Gate, BlockJob, PassGate, PrepareRaises, NextJob, Close, CloseStep, CloseSimulated,
         CloseFindsNothing, CloseFails, CloseWorks, ClosePlaced, CloseRaises
  <1>7. CASE Environment \/ Terminated \/ UNCHANGED vars
    BY <1>5, <1>7 DEF Environment, LateFill, LateDrop, BrokerExit, QuoteAges, Kill, Terminated
  <1>8. QED
    BY <1>1, <1>2, <1>3, <1>4, <1>6, <1>7 DEF Next, RunStep

LEMMA QuietStep ==
    ASSUME Known, [Next]_vars
    PROVE  /\ DryQuiet' /\ Decided'
  <1>t. TypeOK /\ Cursor /\ OrphanHeld /\ Checked /\ DryQuiet /\ Decided
    BY DEF Known, Books
  <1>f. dryRun' = dryRun /\ faults \subseteq faults'
    BY KnownSteps
  <1>1. CASE Quiet
    <2>1. /\ UNCHANGED <<open, working, sends>>
          /\ pc = "reply" => UNCHANGED <<pc, j, k>> \/ "kill" \in faults'
      BY <1>1 DEF Quiet
    <2>2. QED
      BY <1>t, <1>f, <2>1 DEF DryQuiet, Decided, Order, Leg, Job
  <1>2. CASE SendOrder
    <2>1. /\ pc = "attempt" /\ pc' = "reply"
          /\ working' = working \cup {Order(Leg)'}
      BY <1>2, <1>t, Sends
    <2>2. QED
      BY <1>t, <1>f, <2>1 DEF DryQuiet, Decided, Checked
  <1>3. CASE Reply
    <2>1. /\ pc = "reply"
          /\ \/ working' = working \ {Order(Leg)}
             \/ working' = working /\ faults' \cap {"lost", "placed"} # {}
      BY <1>3, <1>t, Replies
    <2>2. QED
      BY <1>t, <1>f, <2>1 DEF DryQuiet, Decided, Checked
  <1>4. CASE Closing
    <2>1. pc = "close" /\ open' \subseteq open /\ working' = working
      BY <1>4, <1>t, Closings
    <2>2. QED
      BY <1>t, <1>f, <2>1 DEF DryQuiet, Decided
  <1>5. CASE LateFill \/ LateDrop \/ BrokerExit
    <2>1. /\ UNCHANGED <<pc, j, k, sends>>
          /\ \/ working' \subseteq working /\ Undecided # {}
             \/ working' = working /\ open' \subseteq open
      BY <1>5, BrokerSteps DEF Undecided
    <2>2. Undecided \subseteq working /\ (pc = "reply" => Order(Leg) \notin Undecided)
      BY DEF Undecided
    <2>3. QED
      BY <1>t, <1>f, <2>1, <2>2 DEF DryQuiet, Decided, Order, Leg, Job
  <1>6. QED
    BY <1>1, <1>2, <1>3, <1>4, <1>5, KnownSteps

LEMMA BackedStep == Known /\ [Next]_vars => Backed'
  <1> SUFFICES ASSUME Known, [Next]_vars, ~dryRun', faults' \cap {"exit", "placed"} = {},
                      NEW l \in Legs, PlanIsFilled(plan'[l])
               PROVE  IF closed'[l] = "none" THEN <<l, plan'[l].ticket>> \in open'
                      ELSE "closefail" \in faults' \/ <<l, plan'[l].ticket>> \in undone'[l]
    BY DEF Backed
  <1>t. TypeOK /\ Cursor /\ OrphanHeld /\ Unclosed /\ Backed
    BY DEF Known, Books
  <1>f. ~dryRun /\ faults \subseteq faults' /\ faults \cap {"exit", "placed"} = {}
    BY KnownSteps
  <1>b. PlanIsFilled(plan[l]) => IF closed[l] = "none" THEN <<l, plan[l].ticket>> \in open
                                 ELSE "closefail" \in faults \/ <<l, plan[l].ticket>> \in undone[l]
    BY <1>t, <1>f DEF Backed
  <1>1. ASSUME plan'[l] = plan[l], open \subseteq open', UNCHANGED <<closed, undone>>
        PROVE  IF closed'[l] = "none" THEN <<l, plan'[l].ticket>> \in open'
               ELSE "closefail" \in faults' \/ <<l, plan'[l].ticket>> \in undone'[l]
    BY <1>1, <1>b, <1>f
  <1>2. CASE Quiet
    <2>1. plan'[l] = plan[l]
      <3>1. CASE plan' = plan
        BY <3>1
      <3>2. CASE pc \in Busy /\ ~PlanIsFilled(plan'[Leg])
        BY <1>t, <3>2, PlanFrame
      <3>3. QED
        BY <1>2, <1>f, <3>1, <3>2 DEF Quiet
    <2>2. QED
      BY <1>1, <1>2, <2>1 DEF Quiet
  <1>3. CASE SendOrder
    BY <1>1, <1>3, <1>t, Sends
  <1>4. CASE Reply
    <2>1. /\ pc = "reply" /\ Leg \in Legs /\ UNCHANGED <<closed, undone>> /\ open \subseteq open'
      BY <1>4, <1>t, Replies
    <2>2. CASE l = Leg /\ plan' # plan
      <3>1. plan'[Leg].ticket = sends[Leg] /\ Order(Leg) \in open'
        BY <1>4, <1>t, <2>2, Replies
      <3>2. closed[Leg] = "none"
        <4>1. j \in 1..Len(Jobs) /\ k \in 1..Len(Job.legs) /\ j \in Nat
          BY <1>t, <2>1, LegFacts, JobsAssumption, LenProperties
        <4>2. QED
          BY <1>t, <4>1 DEF Unclosed, Leg, Job
      <3>3. QED
        BY <2>1, <2>2, <3>1, <3>2 DEF Order
    <2>3. CASE l # Leg \/ plan' = plan
      BY <1>1, <1>t, <2>1, <2>3, PlanFrame
    <2>4. QED
      BY <2>2, <2>3
  <1>5. CASE Closing
    <2>1. PICK status \in {"orphan_closed", "close_failed"} : closed' = [closed EXCEPT ![Orphan] = status]
      BY <1>5, <1>t, Closings
    <2>2. /\ pc = "close" /\ plan' = plan /\ Orphan \in Legs /\ PlanIsFilled(plan[Orphan])
          /\ Job.kind = "pair"
      BY <1>5, <1>t, Closings
    <2>3. closed[Orphan] = "none"
      <3>1. j \in 1..Len(Jobs) /\ k \in {1, 2} /\ Len(Jobs[j].legs) = 2 /\ j \in Nat
        BY <1>t, <2>2, LegFacts, JobsAssumption, LenProperties DEF Cursor, Job
      <3>2. 3 - k \in 1..Len(Jobs[j].legs)
        BY <3>1
      <3>3. QED
        BY <1>t, <3>1, <3>2 DEF Unclosed, Orphan, Job
    <2>4. <<Orphan, plan[Orphan].ticket>> \in open
      BY <1>t, <1>f, <2>2, <2>3 DEF Backed
    <2>5. CloseTargets = {<<Orphan, plan[Orphan].ticket>>}
      BY <2>4, OwnTarget
    <2>6. CASE l = Orphan
      <3>1. closed'[l] # "none"
        BY <1>t, <2>1, <2>2, <2>6 DEF TypeOK
      <3>2. \/ "closefail" \in faults'
            \/ undone' = [undone EXCEPT ![Orphan] = @ \cup {<<Orphan, plan[Orphan].ticket>>}]
        BY <1>5, <1>t, <1>f, <2>5, Closings
      <3>3. QED
        BY <1>t, <2>2, <2>6, <3>1, <3>2 DEF TypeOK
    <2>7. CASE l # Orphan
      <3>1. closed'[l] = closed[l] /\ undone'[l] = undone[l]
        <4>1. undone' = undone \/ \E t : undone' = [undone EXCEPT ![Orphan] = @ \cup {t}]
          BY <1>5, <1>t, Closings
        <4>2. QED
          BY <1>t, <2>1, <2>7, <4>1 DEF TypeOK
      <3>2. <<l, plan[l].ticket>> \in open => <<l, plan[l].ticket>> \in open'
        BY <1>5, <1>t, <2>5, <2>7, Closings
      <3>3. QED
        BY <1>b, <1>f, <2>2, <3>1, <3>2
    <2>8. QED
      BY <2>6, <2>7
  <1>6. CASE LateFill \/ LateDrop \/ BrokerExit
    BY <1>1, <1>6, BrokerSteps
  <1>7. QED
    BY <1>2, <1>3, <1>4, <1>5, <1>6, KnownSteps

\* The two places of a full pair.
LEMMA PairIndices ==
    ASSUME NEW i \in FullPairs, NEW a \in {1, 2}
    PROVE  /\ i \in 1..Len(Jobs) /\ Len(Jobs[i].legs) = 2
           /\ a \in 1..Len(Jobs[i].legs) /\ 3 - a \in 1..Len(Jobs[i].legs)
  <1>1. i \in 1..Len(Jobs) /\ Len(Jobs[i].legs) = 2
    BY DEF FullPairs
  <1>2. a \in 1..2 /\ 3 - a \in 1..2
    OBVIOUS
  <1>3. QED
    BY <1>1, <1>2

\* The legs of a job that has been left keep their plans.
LEMMA PastPlans ==
    ASSUME TypeOK, Cursor, [Next]_vars, NEW i \in 1..Len(Jobs), i < j,
           NEW a \in 1..Len(Jobs[i].legs)
    PROVE  plan'[Jobs[i].legs[a]] = plan[Jobs[i].legs[a]]
  <1>1. CASE pc \in Busy
    <2>1. i # j
      BY JobsAssumption, LenProperties DEF TypeOK
    <2>2. QED
      BY <1>1, <2>1, Distinct, PlanFrame
  <1>2. CASE pc \notin Busy
    BY <1>2, PlanFrame
  <1>3. QED
    BY <1>1, <1>2

LEMMA ClosesStep == Known /\ [Next]_vars => ClosesOnlyOrphans'
  <1> SUFFICES ASSUME Known, [Next]_vars PROVE ClosedOnlyAlone' /\ CloseHitsOwnPosition'
    BY DEF ClosesOnlyOrphans
  <1>t. TypeOK /\ Cursor /\ OrphanHeld /\ Unclosed /\ Backed /\ Alone /\ DryQuiet
        /\ ClosedOnlyAlone /\ CloseHitsOwnPosition
    BY DEF Known, Books, ClosesOnlyOrphans
  <1>f. dryRun' = dryRun /\ faults \subseteq faults'
    BY KnownSteps
  <1>c. CASE UNCHANGED <<closed, undone>>
    <2>1. ASSUME "log" \notin faults', NEW i \in FullPairs, NEW a \in {1, 2},
                 closed[Jobs[i].legs[a]] # "none"
          PROVE  ~PlanIsFilled(plan'[Jobs[i].legs[3 - a]])
      <3>1. /\ i \in 1..Len(Jobs) /\ a \in 1..Len(Jobs[i].legs) /\ 3 - a \in 1..Len(Jobs[i].legs)
        BY PairIndices
      <3>2. i \in Nat /\ j \in Nat
        BY <1>t, <3>1, JobsAssumption, LenProperties DEF TypeOK
      <3>3. i < j
        BY <1>t, <2>1, <3>1, <3>2 DEF Unclosed
      <3>4. ~PlanIsFilled(plan[Jobs[i].legs[3 - a]])
        BY <1>t, <1>f, <2>1 DEF ClosedOnlyAlone
      <3>5. QED
        BY <1>t, <3>1, <3>3, <3>4, PastPlans
    <2>2. ASSUME faults' \cap {"exit", "placed"} = {}, NEW l \in Legs, undone[l] # {}
          PROVE  undone[l] \subseteq {<<l, plan'[l].ticket>>}
      <3>1. undone[l] \subseteq {<<l, plan[l].ticket>>} /\ closed[l] # "none"
        BY <1>t, <1>f, <2>2 DEF CloseHitsOwnPosition, Unclosed
      <3>2. plan'[l] = plan[l]
        <4>1. CASE pc \in Busy
          <5>1. j \in 1..Len(Jobs) /\ k \in 1..Len(Job.legs) /\ j \in Nat
            BY <1>t, <4>1, LegFacts, JobsAssumption, LenProperties
          <5>2. closed[Leg] = "none"
            BY <1>t, <5>1 DEF Unclosed, Leg, Job
          <5>3. QED
            BY <1>t, <3>1, <4>1, <5>2, PlanFrame
        <4>2. CASE pc \notin Busy
          BY <1>t, <4>2, PlanFrame
        <4>3. QED
          BY <4>1, <4>2
      <3>3. QED
        BY <3>1, <3>2
    <2>3. ClosedOnlyAlone'
      BY <1>c, <2>1 DEF ClosedOnlyAlone
    <2>4. CloseHitsOwnPosition'
      BY <1>c, <2>2 DEF CloseHitsOwnPosition
    <2>5. QED
      BY <2>3, <2>4
  <1>1. CASE Closing
    <2>1. PICK status \in {"orphan_closed", "close_failed"} : closed' = [closed EXCEPT ![Orphan] = status]
      BY <1>1, <1>t, Closings
    <2>2. /\ pc = "close" /\ plan' = plan /\ Orphan \in Legs /\ Orphan # Leg
          /\ PlanIsFilled(plan[Orphan]) /\ Job.kind = "pair"
      BY <1>1, <1>t, Closings
    <2>3. /\ j \in 1..Len(Jobs) /\ k \in {1, 2} /\ Len(Jobs[j].legs) = 2 /\ j \in Nat
          /\ 3 - k \in 1..Len(Jobs[j].legs) /\ k \in 1..Len(Jobs[j].legs)
      <3>1. j \in 1..Len(Jobs) /\ k \in {1, 2} /\ Len(Jobs[j].legs) = 2 /\ j \in Nat
        BY <1>t, <2>2, LegFacts, JobsAssumption, LenProperties DEF Cursor, Job
      <3>2. QED
        BY <3>1
    <2>4. closed[Orphan] = "none"
      BY <1>t, <2>3 DEF Unclosed, Orphan, Job
    <2>5. ASSUME "log" \notin faults', NEW i \in FullPairs, NEW a \in {1, 2},
                 closed'[Jobs[i].legs[a]] # "none"
          PROVE  ~PlanIsFilled(plan[Jobs[i].legs[3 - a]])
      <3>1. /\ i \in 1..Len(Jobs) /\ a \in 1..Len(Jobs[i].legs) /\ 3 - a \in 1..Len(Jobs[i].legs)
        BY PairIndices
      <3>2. CASE closed[Jobs[i].legs[a]] # "none"
        BY <1>t, <1>f, <2>5, <3>2 DEF ClosedOnlyAlone
      <3>3. CASE closed[Jobs[i].legs[a]] = "none"
        <4>1. Jobs[i].legs[a] = Orphan
          BY <1>t, <2>1, <2>5, <3>1, <3>3, JobFacts DEF TypeOK
        <4>2. i = j /\ a = 3 - k
          <5>1. Jobs[i].legs[a] = Jobs[j].legs[3 - k]
            BY <4>1 DEF Orphan, Job
          <5>2. QED
            BY <2>3, <3>1, <5>1, LegsAssumption, SMTT(30)
        <4>3. 3 - a = k
          BY <2>3, <4>2
        <4>4. ~PlanIsFilled(plan[Leg])
          BY <1>t, <1>f, <2>2, <2>5 DEF Alone
        <4>5. QED
          BY <4>2, <4>3, <4>4 DEF Leg, Job
      <3>4. QED
        BY <3>2, <3>3
    <2>6. ASSUME faults' \cap {"exit", "placed"} = {}, NEW l \in Legs
          PROVE  undone'[l] \subseteq {<<l, plan[l].ticket>>}
      <3>1. undone[l] \subseteq {<<l, plan[l].ticket>>}
        BY <1>t, <1>f, <2>6 DEF CloseHitsOwnPosition
      <3>2. CASE undone' = undone
        BY <3>1, <3>2
      <3>3. CASE undone' # undone
        <4>1. CASE dryRun
          BY <1>1, <3>3, <4>1, DryCloses
        <4>2. CASE ~dryRun
          <5>1. <<Orphan, plan[Orphan].ticket>> \in open
            BY <1>t, <1>f, <2>2, <2>4, <2>6, <4>2 DEF Backed
          <5>2. CloseTargets = {<<Orphan, plan[Orphan].ticket>>}
            BY <5>1, OwnTarget
          <5>3. undone' = [undone EXCEPT ![Orphan] = @ \cup {<<Orphan, plan[Orphan].ticket>>}]
            BY <1>1, <1>t, <2>6, <3>3, <5>2, Closings
          <5>4. QED
            BY <1>t, <2>2, <3>1, <5>3 DEF TypeOK
        <4>3. QED
          BY <4>1, <4>2
      <3>4. QED
        BY <3>2, <3>3
    <2>7. ClosedOnlyAlone'
      BY <2>2, <2>5 DEF ClosedOnlyAlone
    <2>8. CloseHitsOwnPosition'
      BY <2>2, <2>6 DEF CloseHitsOwnPosition
    <2>9. QED
      BY <2>7, <2>8
  <1>2. CASE SendOrder
    BY <1>c, <1>2, <1>t, Sends
  <1>3. CASE Reply
    BY <1>c, <1>3, <1>t, Replies
  <1>4. CASE LateFill \/ LateDrop \/ BrokerExit
    BY <1>c, <1>4, BrokerSteps
  <1>5. QED
    BY <1>c, <1>1, <1>2, <1>3, <1>4, KnownSteps DEF Quiet

LEMMA StrayStep == Known /\ [Next]_vars => NoStrayPosition'
  <1> DEFINE Own(o) == \/ o \in PriorOpen
                       \/ pc = "reply" /\ o = Order(Leg)
                       \/ PlanIsFilled(plan[o[1]]) /\ o[2] = plan[o[1]].ticket
  <1> SUFFICES ASSUME Known, [Next]_vars, faults' \cap {"lost", "partial", "log", "kill"} = {},
                      NEW o \in open' \cup working'
               PROVE  Own(o)'
    BY DEF NoStrayPosition
  <1>t. TypeOK /\ Cursor /\ OrphanHeld /\ Checked /\ Ticketed /\ DryQuiet /\ NoStrayPosition
    BY DEF Known, Books
  <1>f. dryRun' = dryRun /\ faults \subseteq faults' /\ faults \cap {"lost", "partial", "log", "kill"} = {}
    BY KnownSteps
  <1>o. \A q \in open \cup working : Own(q) /\ q[1] \in Legs
    BY <1>t, <1>f DEF NoStrayPosition, TypeOK
  <1>1. ASSUME o \in open \cup working, pc # "reply" \/ o # Order(Leg), plan' = plan
        PROVE  Own(o)'
    BY <1>o, <1>1
  <1>2. CASE Quiet
    <2>1. o \in open \cup working /\ sends' = sends
      BY <1>2 DEF Quiet
    <2>2. CASE pc = "reply" /\ o = Order(Leg)
      <3>1. UNCHANGED <<pc, j, k>>
        BY <1>2, <1>f, <2>2 DEF Quiet
      <3>2. QED
        BY <2>1, <2>2, <3>1 DEF Order, Leg, Job
    <2>3. CASE PlanIsFilled(plan[o[1]]) /\ o[2] = plan[o[1]].ticket
      <3>1. CASE plan' = plan
        BY <2>3, <3>1
      <3>2. CASE dryRun
        BY <1>t, <2>1, <3>2 DEF DryQuiet
      <3>3. CASE pc \in Busy /\ ~PlanIsFilled(plan[Leg])
        <4>1. plan'[o[1]] = plan[o[1]]
          BY <1>t, <1>o, <2>1, <2>3, <3>3, PlanFrame
        <4>2. QED
          BY <2>3, <4>1
      <3>4. QED
        BY <1>2, <1>f, <3>1, <3>2, <3>3 DEF Quiet
    <2>4. QED
      BY <1>o, <2>1, <2>2, <2>3
  <1>3. CASE SendOrder
    <2>1. pc = "attempt" /\ pc' = "reply" /\ plan' = plan /\ open' = open
          /\ working' = working \cup {Order(Leg)'}
      BY <1>3, <1>t, Sends
    <2>2. CASE o \in open \cup working
      BY <1>1, <2>1, <2>2
    <2>3. CASE o = Order(Leg)'
      BY <2>1, <2>3
    <2>4. QED
      BY <2>1, <2>2, <2>3
  <1>4. CASE Reply
    <2>1. pc = "reply" /\ Leg \in Legs /\ ~PlanIsFilled(plan[Leg]) /\ Order(Leg) \notin open
      BY <1>4, <1>t, <1>f, Replies DEF Checked, Ticketed
    <2>2. CASE plan' = plan /\ o # Order(Leg) /\ o \in open \cup working
      BY <1>1, <2>2
    <2>3. CASE plan' = plan /\ open' = open /\ working' = working \ {Order(Leg)}
      BY <2>1, <2>2, <2>3
    <2>4. CASE /\ plan'[Leg].ticket = sends[Leg] /\ PlanIsFilled(plan'[Leg])
               /\ open' \cup working' \subseteq open \cup working \cup {Order(Leg)}
      <3>1. CASE o = Order(Leg)
        <4>1. o[1] = Leg /\ o[2] = sends[Leg]
          BY <3>1 DEF Order
        <4>2. QED
          BY <2>4, <4>1
      <3>2. CASE o # Order(Leg)
        <4>1. o \in open \cup working
          BY <2>4, <3>2
        <4>2. o \in PriorOpen \/ (PlanIsFilled(plan[o[1]]) /\ o[2] = plan[o[1]].ticket)
          BY <1>o, <3>2, <4>1
        <4>3. PlanIsFilled(plan[o[1]]) => plan'[o[1]] = plan[o[1]]
          BY <1>t, <1>o, <2>1, <4>1, PlanFrame
        <4>4. QED
          BY <4>2, <4>3
      <3>3. QED
        BY <3>1, <3>2
    <2>5. QED
      BY <1>4, <1>t, <1>f, <2>3, <2>4, Replies
  <1>5. CASE Closing
    BY <1>1, <1>5, <1>t, Closings
  <1>6. CASE LateFill \/ LateDrop \/ BrokerExit
    <2>1. UNCHANGED <<pc, j, k, plan, sends>> /\ o \in open \cup working
      BY <1>6, BrokerSteps DEF Undecided
    <2>2. Order(Leg)' = Order(Leg)
      BY <2>1 DEF Order, Leg, Job
    <2>3. QED
      BY <1>o, <2>1, <2>2
  <1>7. QED
    BY <1>2, <1>3, <1>4, <1>5, <1>6, KnownSteps

\* The inductive invariant.
IInv == Known /\ GateHolds /\ OrphanSettled

\* Every initial state satisfies it: nothing is filled, sent or closed.
LEMMA InitInv == Init => IInv
  <1> SUFFICES ASSUME Init PROVE IInv
    OBVIOUS
  <1>1. TypeOK
    BY TypeInit
  <1>2. Cursor
    <2>1. Jobs # <<>> => 1 \in 1..Len(Jobs)
      BY JobsAssumption, EmptySeq, LenProperties
    <2>2. QED
      BY <2>1 DEF Init, Cursor
  <1>3. \A l \in Legs : ~PlanIsFilled(plan[l]) /\ sends[l] = 0
    BY DEF Init, PlanIsFilled
  <1>4. Fresh /\ GateHolds
    BY <1>3, JobFacts DEF Fresh, GateHolds, Traded
  <1>5. Checked /\ RefusedStale /\ OrphanHeld
    BY RetryAssumption DEF Init, Checked, RefusedStale, OrphanHeld
  <1>6. OrphanSettled
    BY DEF Init, OrphanSettled, FullPairs, Finished
  <1>7. Ticketed /\ NoStrayPosition /\ DryQuiet /\ Decided
    BY DEF Init, Ticketed, NoStrayPosition, DryQuiet, Decided
  <1>8. Unclosed /\ ClosesOnlyOrphans
    <2>1. \A l \in Legs : closed[l] = "none" /\ undone[l] = {}
      BY DEF Init
    <2>2. Unclosed
      BY <2>1, JobFacts DEF Unclosed
    <2>3. ClosedOnlyAlone
      BY <2>1, JobFacts, PairIndices DEF ClosedOnlyAlone
    <2>4. CloseHitsOwnPosition
      BY <2>1 DEF CloseHitsOwnPosition
    <2>5. QED
      BY <2>2, <2>3, <2>4 DEF ClosesOnlyOrphans
  <1>9. Alone /\ Backed
    BY <1>3 DEF Init, Alone, Backed
  <1>10. QED
    BY <1>1, <1>2, <1>4, <1>5, <1>6, <1>7, <1>8, <1>9 DEF IInv, Known, Books

\* Every step keeps it.
LEMMA StepInv == IInv /\ [Next]_vars => IInv'
  <1>1. Known /\ [Next]_vars => Known'
    BY TypeStep, CursorStep, FreshStep, CheckedStep, RefusedStep, OrphanStep, TicketedStep, UnclosedStep,
       AloneStep, BackedStep, QuietStep, ClosesStep, StrayStep DEF Known, Books
  <1>2. IInv /\ [Next]_vars => GateHolds' /\ OrphanSettled'
    BY GateStep, SettledStep DEF IInv, Known
  <1>3. QED
    BY <1>1, <1>2 DEF IInv

\* The invariant the other theorems rest on.
LEMMA Invariance == Spec => []IInv
  BY InitInv, StepInv, PTL DEF Spec

-----------------------------------------------------------------------------
(* The steps of a run are steps of the promise                             *)

\* Positions of a pair are under its two legs.
LEMMA Exposed ==
    TypeOK /\ GateHolds /\ Ticketed => \A i \in PairJobs : OpenLegs(i) \subseteq {1, 2}
  <1> SUFFICES ASSUME TypeOK, GateHolds, Ticketed, NEW i \in PairJobs, NEW a \in OpenLegs(i)
               PROVE  a \in {1, 2}
    OBVIOUS
  <1>1. i \in 1..Len(Jobs) /\ IsPair(i) /\ a \in 1..Len(Jobs[i].legs)
    BY DEF PairJobs, OpenLegs
  <1>2. PICK o \in open : o[1] = Jobs[i].legs[a]
    BY DEF OpenLegs
  <1>3. o \notin PriorOpen
    BY <1>1, <1>2, BrokerAssumption
  <1>4. o[2] \in 1..sends[o[1]] /\ sends[o[1]] \in Nat
    BY <1>2, <1>3 DEF Ticketed, TypeOK
  <1>5. sends[Jobs[i].legs[a]] > 0
    BY <1>2, <1>4
  <1>6. Len(Jobs[i].legs) = 2
    BY <1>1, <1>5 DEF GateHolds, Traded
  <1>7. QED
    BY <1>1, <1>6

\* While nothing has gone wrong, the open legs of the pair in hand are the filled ones.
LEMMA OpenIsFilled ==
    ASSUME Known, Trusted, j \in PairJobs, pc # "reply"
    PROVE  /\ \A a \in 1..Len(Jobs[j].legs) :
                a \in OpenLegs(j) <=> ~dryRun /\ PlanIsFilled(plan[Jobs[j].legs[a]])
           /\ \A o \in open : \A a \in 1..Len(Jobs[j].legs) :
                o[1] = Jobs[j].legs[a] => o = <<Jobs[j].legs[a], plan[Jobs[j].legs[a]].ticket>>
  <1>1. j \in 1..Len(Jobs) /\ j \in Nat
    BY JobsAssumption, LenProperties DEF PairJobs
  <1>2. ASSUME NEW o \in open, NEW a \in 1..Len(Jobs[j].legs), o[1] = Jobs[j].legs[a]
        PROVE  /\ ~dryRun /\ PlanIsFilled(plan[Jobs[j].legs[a]])
               /\ o = <<Jobs[j].legs[a], plan[Jobs[j].legs[a]].ticket>>
    <2>1. o \notin PriorOpen
      BY <1>1, <1>2, BrokerAssumption
    <2>2. ~dryRun
      BY <2>1 DEF Known, Books, DryQuiet
    <2>3. PlanIsFilled(plan[o[1]]) /\ o[2] = plan[o[1]].ticket
      BY <2>1 DEF Known, Books, NoStrayPosition, Trusted
    <2>4. o = <<o[1], o[2]>>
      BY DEF Known, TypeOK
    <2>5. QED
      BY <1>2, <2>2, <2>3, <2>4
  <1>3. ASSUME NEW a \in 1..Len(Jobs[j].legs), ~dryRun, PlanIsFilled(plan[Jobs[j].legs[a]])
        PROVE  a \in OpenLegs(j)
    <2>1. closed[Jobs[j].legs[a]] = "none"
      BY <1>1 DEF Known, Books, Unclosed
    <2>2. <<Jobs[j].legs[a], plan[Jobs[j].legs[a]].ticket>> \in open
      BY <1>1, <1>3, <2>1, JobFacts DEF Known, Books, Backed, Trusted
    <2>3. QED
      BY <2>2 DEF OpenLegs
  <1>4. QED
    BY <1>2, <1>3 DEF OpenLegs

\* Where a job is left, a pair is open with both legs or with neither.
LEMMA Leaves ==
    ASSUME Known, Trusted, [Next]_vars, NextJob, ~Closing, j \in PairJobs
    PROVE  OpenLegs(j) \in {{}, {1, 2}}
  <1> USE DEF vars, runVars, agentVars, brokerVars
  <1>t. TypeOK /\ Cursor /\ Fresh /\ OrphanHeld
    BY DEF Known
  <1>j. j \in 1..Len(Jobs) /\ j \in Nat /\ Job = Jobs[j] /\ Job.kind = "pair"
    BY JobsAssumption, LenProperties DEF PairJobs, IsPair, Job
  <1>1. ASSUME pc # "reply", \A a \in 1..Len(Jobs[j].legs) : ~PlanIsFilled(plan[Jobs[j].legs[a]])
        PROVE  OpenLegs(j) = {}
    BY <1>1, OpenIsFilled DEF OpenLegs
  <1>2. ASSUME pc \in Busy, pc # "reply", \A a \in {1, 2} : PlanIsFilled(plan[Jobs[j].legs[a]])
        PROVE  OpenLegs(j) \in {{}, {1, 2}}
    <2>1. Len(Jobs[j].legs) = 2 /\ OpenLegs(j) \subseteq 1..Len(Jobs[j].legs)
      BY <1>t, <1>j, <1>2 DEF Cursor, OpenLegs
    <2>2. \A a \in {1, 2} : a \in OpenLegs(j) <=> ~dryRun
      <3>1. \A a \in {1, 2} : a \in 1..Len(Jobs[j].legs)
        BY <2>1
      <3>2. QED
        BY <1>2, <3>1, OpenIsFilled
    <2>3. OpenLegs(j) \subseteq {1, 2}
      BY <2>1
    <2>4. QED
      BY <2>2, <2>3
  <1>3. CASE Gate
    <2>1. pc = "prepare"
      BY <1>3 DEF Gate, BlockJob, PassGate, PrepareRaises
    <2>2. QED
      BY <1>t, <1>j, <1>1, <2>1 DEF Fresh
  <1>4. CASE Judge
    <2>1. pc = "judge" /\ FilledLegs \in {{}, {1, 2}} /\ Len(Jobs[j].legs) = 2
      <3>1. j' # j
        BY <1>j DEF NextJob
      <3>2. QED
        BY <1>t, <1>j, <1>4, <3>1 DEF Judge, Cursor
    <2>2. CASE FilledLegs = {}
      <3>1. \A a \in 1..Len(Jobs[j].legs) : ~PlanIsFilled(plan[Jobs[j].legs[a]])
        BY <1>j, <2>1, <2>2 DEF FilledLegs
      <3>2. QED
        BY <1>1, <2>1, <3>1
    <2>3. CASE FilledLegs = {1, 2}
      <3>1. \A a \in {1, 2} : PlanIsFilled(plan[Jobs[j].legs[a]])
        BY <1>j, <2>3 DEF FilledLegs
      <3>2. QED
        BY <1>2, <2>1, <3>1
    <2>4. QED
      BY <2>1, <2>2, <2>3
  <1>5. CASE RetrySettles
    <2>1. pc = "returned" /\ round > 0 /\ PlanIsFilled(plan[Leg])
      BY <1>j, <1>5 DEF RetrySettles, NextJob
    <2>2. PlanIsFilled(plan[Orphan]) /\ k \in {1, 2}
      BY <1>t, <1>j, <2>1, LegFacts DEF OrphanHeld
    <2>3. \A a \in {1, 2} : a = k \/ a = 3 - k
      BY <2>2
    <2>4. \A a \in {1, 2} : PlanIsFilled(plan[Jobs[j].legs[a]])
      BY <1>j, <2>1, <2>2, <2>3 DEF Leg, Orphan
    <2>5. QED
      BY <1>2, <2>1, <2>4
  <1>6. j' # j
    BY <1>j DEF NextJob
  <1>7. CASE Execute \/ Attempt \/ Reply \/ CloseRaises
    BY <1>6, <1>7 DEF Execute, ExecuteStep, CircuitRejects, SkipZeroLots, RejectStaleQuote,
       Simulate, BeginAttempts, Attempt, AttemptStep, AttemptRefused, SpreadGuard, AttemptRaises,
       SendOrder, Reply, ReplyStep, ReplyRejected, ReplyLost, ReplyPartial, ReplyAccepted, CloseRaises
  <1>8. CASE SingleSettles \/ SingleRaises \/ EntrySettles
    BY <1>j, <1>6, <1>8 DEF SingleSettles, SingleRaises, EntrySettles
  <1>9. CASE Environment \/ Terminated \/ UNCHANGED vars
    BY <1>6, <1>9 DEF Environment, LateFill, LateDrop, BrokerExit, QuoteAges, Kill, Terminated
  <1>10. QED
    BY <1>3, <1>4, <1>5, <1>7, <1>8, <1>9 DEF Next, RunStep, Settle, Close, Closing

\* The pair in hand is the first that has not been left.
LEMMA Activates ==
    ASSUME TypeOK, j \in PairJobs
    PROVE  /\ Promise!Active(j)
           /\ j' = j + 1 => PairsLeft' = PairsLeft \cup {j}
  <1>1. j \in Nat /\ \A i \in PairJobs : i \in Nat
    BY JobsAssumption, LenProperties DEF PairJobs
  <1>2. Promise!Active(j)
    BY <1>1 DEF Promise!Active, PairsLeft, Finished
  <1>3. ASSUME j' = j + 1
        PROVE  PairsLeft' = PairsLeft \cup {j}
    <2>1. \A i \in PairJobs : i < j + 1 <=> i < j \/ i = j
      BY <1>1
    <2>2. QED
      BY <1>3, <2>1 DEF PairsLeft, Finished
  <1>4. QED
    BY <1>2, <1>3

\* A job that is not a pair is left without a trace.
LEMMA NotAPair ==
    ASSUME TypeOK, j \notin PairJobs, j' = j \/ j' = j + 1
    PROVE  PairsLeft' = PairsLeft
  <1>1. j \in Nat /\ \A i \in PairJobs : i \in Nat
    BY JobsAssumption, LenProperties DEF PairJobs, TypeOK
  <1>2. \A i \in PairJobs : i < j' <=> i < j
    BY <1>1
  <1>3. QED
    BY <1>2 DEF PairsLeft, Finished

LEMMA Exposes ==
    ASSUME open' = open
    PROVE  PairExposure' = PairExposure
  BY DEF PairExposure, OpenLegs

\* Before the first order no pair has an open position.
OpensNothing == \A i \in PairJobs : OpenLegs(i) = {}

LEMMA InitOpens == Init => OpensNothing
  <1>1. ASSUME Init, NEW i \in PairJobs, NEW a \in OpenLegs(i) PROVE FALSE
    BY <1>1, BrokerAssumption DEF Init, OpenLegs, PairJobs
  <1>2. QED
    BY <1>1 DEF OpensNothing

\* A fill of a leg of the pair in hand enters it.
LEMMA ReplyEnters ==
    ASSUME IInv, IInv', Trusted, Trusted', Reply
    PROVE  \/ \E leg \in {1, 2} : j \in PairJobs /\ Promise!Enter(j, leg)
           \/ UNCHANGED <<PairExposure, PairsLeft>>
  <1>t. TypeOK /\ Cursor /\ Known
    BY DEF IInv, Known
  <1>1. /\ pc = "reply" /\ Leg \in Legs /\ j' = j
        /\ open' = open \/ open' = open \cup {Order(Leg)}
    BY <1>t, Replies
  <1>2. PairsLeft' = PairsLeft
    BY <1>1 DEF PairsLeft, Finished
  <1>3. CASE open' = open
    BY <1>2, <1>3, Exposes
  <1>4. CASE open' = open \cup {Order(Leg)} /\ j \notin PairJobs
    <2>1. ASSUME NEW i \in PairJobs, NEW a \in 1..Len(Jobs[i].legs)
          PROVE  Jobs[i].legs[a] # Leg
      BY <1>t, <1>1, <1>4, <2>1, Distinct DEF PairJobs
    <2>2. \A i \in PairJobs : OpenLegs(i)' = OpenLegs(i)
      BY <1>4, <2>1 DEF OpenLegs, Order
    <2>3. PairExposure' = PairExposure
      BY <2>2 DEF PairExposure
    <2>4. QED
      BY <1>2, <2>3
  <1>5. CASE open' = open \cup {Order(Leg)} /\ j \in PairJobs
    <2>1. k \in 1..Len(Jobs[j].legs) /\ Jobs[j].legs[k] = Leg
      BY <1>t, <1>1, LegFacts DEF Leg, Job
    <2>2. ASSUME NEW i \in PairJobs, NEW a \in 1..Len(Jobs[i].legs), i # j \/ a # k
          PROVE  Jobs[i].legs[a] # Leg
      BY <1>t, <1>1, <2>2, Distinct DEF PairJobs
    <2>3. \A i \in PairJobs : i # j => OpenLegs(i)' = OpenLegs(i)
      BY <1>5, <2>2 DEF OpenLegs, Order
    <2>4. ASSUME NEW i \in PairJobs, i = j
          PROVE  OpenLegs(i)' = OpenLegs(i) \cup {k}
      <3>1. OpenLegs(i)' \subseteq OpenLegs(i) \cup {k}
        BY <1>5, <2>2, <2>4 DEF OpenLegs, Order
      <3>2. OpenLegs(i) \cup {k} \subseteq OpenLegs(i)'
        <4>1. Order(Leg) \in open' /\ Order(Leg)[1] = Jobs[i].legs[k] /\ k \in 1..Len(Jobs[i].legs)
          BY <1>5, <2>1, <2>4 DEF Order
        <4>2. k \in OpenLegs(i)'
          BY <4>1 DEF OpenLegs
        <4>3. OpenLegs(i) \subseteq OpenLegs(i)'
          BY <1>5 DEF OpenLegs
        <4>4. QED
          BY <4>2, <4>3
      <3>3. QED
        BY <3>1, <3>2
    <2>5. k \in {1, 2}
      <3>1. Len(Jobs[j].legs) = 2
        BY <1>t, <1>1, <1>5 DEF Cursor, PairJobs, IsPair, Job
      <3>2. QED
        BY <2>1, <3>1
    <2>6. CASE k \in OpenLegs(j)
      <3>1. ASSUME NEW i \in PairJobs
            PROVE  OpenLegs(i)' = OpenLegs(i)
        BY <2>3, <2>4, <2>6, <3>1
      <3>2. PairExposure' = PairExposure
        BY <3>1 DEF PairExposure
      <3>3. QED
        BY <1>2, <3>2
    <2>7. CASE k \notin OpenLegs(j)
      <3>1. PairExposure' = [PairExposure EXCEPT ![j] = @ \cup {k}]
        BY <1>5, <2>3, <2>4 DEF PairExposure
      <3>2. k \notin PairExposure[j]
        BY <1>5, <2>7 DEF PairExposure
      <3>3. Promise!Active(j)
        BY <1>t, <1>5, Activates
      <3>4. QED
        BY <1>2, <1>5, <2>5, <3>1, <3>2, <3>3 DEF Promise!Enter
    <2>8. QED
      BY <2>6, <2>7
  <1>6. QED
    BY <1>1, <1>3, <1>4, <1>5

\* A pair left with one open leg is unwound, in a dry run there is nothing to unwind.
LEMMA CloseUnwinds ==
    ASSUME IInv, Trusted, Trusted', Closing
    PROVE  j \in PairJobs /\ (Promise!Unwind(j) \/ Promise!Leave(j))
  <1>t. TypeOK /\ Cursor /\ OrphanHeld /\ Known
    BY DEF IInv, Known
  <1>1. /\ pc = "close" /\ j' = j + 1 /\ plan' = plan /\ Job.kind = "pair"
        /\ Orphan \in Legs /\ PlanIsFilled(plan[Orphan])
    BY <1>t, Closings
  <1>2. /\ j \in PairJobs /\ k \in {1, 2} /\ Len(Jobs[j].legs) = 2
        /\ Orphan = Jobs[j].legs[3 - k] /\ Leg = Jobs[j].legs[k]
    BY <1>t, <1>1, LegFacts DEF Cursor, PairJobs, IsPair, Job, Orphan, Leg
  <1>3. k \in 1..Len(Jobs[j].legs) /\ 3 - k \in 1..Len(Jobs[j].legs) /\ 3 - k # k
        /\ \A a \in 1..Len(Jobs[j].legs) : a = k \/ a = 3 - k
    BY <1>2
  <1>4. Promise!Active(j) /\ PairsLeft' = PairsLeft \cup {j}
    BY <1>t, <1>1, <1>2, Activates
  <1>5. ~PlanIsFilled(plan[Leg])
    BY <1>t, <1>1 DEF Known, Books, Alone, Trusted
  <1>6. CASE dryRun
    <2>1. open' = open
      BY <1>6, DryCloses
    <2>2. OpenLegs(j) = {}
      BY <1>t, <1>1, <1>2, <1>6, OpenIsFilled DEF OpenLegs
    <2>3. PairExposure' = PairExposure /\ PairExposure[j] = {}
      BY <1>2, <2>1, <2>2, Exposes DEF PairExposure
    <2>4. QED
      BY <1>2, <1>4, <2>3 DEF Promise!Leave, Promise!BothOrNeither
  <1>7. CASE ~dryRun
    <2> DEFINE own == <<Orphan, plan[Orphan].ticket>>
    <2>1. 3 - k \in OpenLegs(j) /\ k \notin OpenLegs(j)
      BY <1>t, <1>1, <1>2, <1>3, <1>5, <1>7, OpenIsFilled
    <2>2. \A o \in open : o[1] = Orphan => o = own
      BY <1>t, <1>1, <1>2, <1>3, OpenIsFilled
    <2>3. own \in open
      BY <1>2, <2>1, <2>2 DEF OpenLegs
    <2>4. CloseTargets = {own}
      BY <2>3, OwnTarget
    <2>5. open' = open \ {own}
      BY <1>t, <1>7, <2>4, Closings DEF Trusted
    <2>6. OpenLegs(j) = {3 - k}
      BY <1>3, <2>1 DEF OpenLegs
    <2>7. ASSUME NEW i \in PairJobs, i = j
          PROVE  OpenLegs(i)' = {}
      <3>1. ASSUME NEW a \in OpenLegs(i)' PROVE FALSE
        <4>1. a \in OpenLegs(i)
          BY <2>5, <3>1 DEF OpenLegs
        <4>2. PICK o \in open : o # own /\ o[1] = Jobs[i].legs[a]
          BY <2>5, <3>1 DEF OpenLegs
        <4>3. QED
          BY <1>2, <2>2, <2>6, <2>7, <4>1, <4>2
      <3>2. QED
        BY <3>1
    <2>8. ASSUME NEW i \in PairJobs, i # j
          PROVE  OpenLegs(i)' = OpenLegs(i)
      <3>1. ASSUME NEW a \in 1..Len(Jobs[i].legs)
            PROVE  Jobs[i].legs[a] # Orphan
        BY <1>2, <1>3, <2>8, <3>1, LegsAssumption DEF PairJobs
      <3>2. OpenLegs(i)' \subseteq OpenLegs(i)
        BY <2>5 DEF OpenLegs
      <3>3. OpenLegs(i) \subseteq OpenLegs(i)'
        BY <2>5, <3>1 DEF OpenLegs
      <3>4. QED
        BY <3>2, <3>3
    <2>9. PairExposure' = [PairExposure EXCEPT ![j] = {}]
      BY <1>2, <2>7, <2>8 DEF PairExposure
    <2>10. PairExposure[j] \in {{1}, {2}}
      BY <1>2, <2>6 DEF PairExposure
    <2>11. QED
      BY <1>2, <1>4, <2>9, <2>10 DEF Promise!Unwind
  <1>8. QED
    BY <1>6, <1>7

\* Once a fault has happened the promise is off.
LEMMA TrustIsLost ==
    ASSUME IInv, IInv', [Next]_vars, ~Trusted'
    PROVE  Promise!LoseTrust
  <1>1. PairExposure' \in [PairJobs -> SUBSET {1, 2}]
    <2>1. \A i \in PairJobs : OpenLegs(i)' \subseteq {1, 2}
      <3>1. (TypeOK /\ GateHolds /\ Ticketed)' => (\A i \in PairJobs : OpenLegs(i) \subseteq {1, 2})'
        BY Exposed, PTL
      <3>2. QED
        BY <3>1 DEF IInv, Known, Books
    <2>2. QED
      BY <2>1 DEF PairExposure
  <1>2. j' = j \/ j' = j + 1
    BY ClosedFrame DEF NextJob, IInv, Known
  <1>3. PairsLeft' = PairsLeft \/ (j \in PairJobs /\ Promise!Active(j) /\ PairsLeft' = PairsLeft \cup {j})
    <2>1. CASE j' = j
      BY <2>1 DEF PairsLeft, Finished
    <2>2. CASE j \notin PairJobs
      BY <1>2, <2>2, NotAPair DEF IInv, Known
    <2>3. CASE j \in PairJobs /\ j' = j + 1
      BY <2>3, Activates DEF IInv, Known
    <2>4. QED
      BY <1>2, <2>1, <2>2, <2>3
  <1>4. QED
    BY <1>1, <1>3 DEF Promise!LoseTrust, Trusted

\* Every step of a run is a step of the promise or does not concern it.
LEMMA PromiseStep ==
    ASSUME IInv, IInv', [Next]_vars
    PROVE  Promise!Next \/ UNCHANGED <<PairExposure, PairsLeft, Trusted>>
  <1>t. TypeOK /\ Cursor /\ Known
    BY DEF IInv, Known
  <1>f. faults \subseteq faults'
    BY <1>t, KnownSteps
  <1>1. CASE ~Trusted'
    BY <1>1, TrustIsLost DEF Promise!Next
  <1>2. CASE Trusted'
    <2>1. Trusted /\ Trusted' = Trusted
      BY <1>2, <1>f DEF Trusted
    <2>2. j' = j \/ NextJob
      BY <1>t, ClosedFrame
    <2>3. CASE open' = open /\ j' = j
      BY <2>1, <2>3, Exposes DEF PairsLeft, Finished
    <2>4. CASE open' = open /\ NextJob /\ ~Closing
      <3>1. PairExposure' = PairExposure /\ j' = j + 1
        BY <2>4, Exposes DEF NextJob
      <3>2. CASE j \in PairJobs
        <4>1. PairExposure[j] \in {{}, {1, 2}}
          BY <1>t, <2>1, <2>4, <3>2, Leaves DEF PairExposure
        <4>2. Promise!Leave(j)
          BY <1>t, <2>1, <3>1, <3>2, <4>1, Activates DEF Promise!Leave, Promise!BothOrNeither
        <4>3. QED
          BY <3>2, <4>2 DEF Promise!Next
      <3>3. CASE j \notin PairJobs
        BY <1>t, <2>1, <3>1, <3>3, NotAPair
      <3>4. QED
        BY <3>2, <3>3
    <2>5. CASE Reply
      BY <1>2, <2>1, <2>5, ReplyEnters DEF Promise!Next
    <2>6. CASE Closing
      BY <1>2, <2>1, <2>6, CloseUnwinds DEF Promise!Next
    <2>7. CASE SendOrder
      BY <1>t, <2>3, <2>7, Sends
    <2>8. CASE LateFill \/ LateDrop \/ BrokerExit
      <3>1. Undecided = {}
        BY <2>1 DEF Undecided, IInv, Known, Books, Decided, Trusted
      <3>2. "exit" \notin faults'
        BY <1>2 DEF Trusted
      <3>3. QED
        BY <2>8, <3>1, <3>2, BrokerSteps
    <2>9. CASE Quiet
      BY <2>2, <2>3, <2>4, <2>6, <2>9 DEF Quiet
    <2>10. QED
      BY <1>t, <2>5, <2>6, <2>7, <2>8, <2>9, KnownSteps
  <1>3. QED
    BY <1>1, <1>2

\* Whatever the jobs, the limits and the faults, every variable keeps its type.
THEOREM TypeCorrect == Spec => []TypeOK
  <1>1. IInv => TypeOK
    BY DEF IInv, Known
  <1>2. QED
    BY <1>1, Invariance, PTL

\* No order is ever sent for a leg of a pair unless the pair has two legs and
\* both came through the risk and the cost gate (meta_agent.py, pair gate).
THEOREM GateCorrect == Spec => []GateHolds
  <1>1. IInv => GateHolds
    BY DEF IInv
  <1>2. QED
    BY <1>1, Invariance, PTL

\* A pair left with one plan filled has had the close of that leg attempted, in
\* every interleaving of retries, exceptions and broker replies (execute_pair_atomic).
THEOREM OrphanSettledCorrect == Spec => []OrphanSettled
  <1>1. IInv => OrphanSettled
    BY DEF IInv
  <1>2. QED
    BY <1>1, Invariance, PTL

\* A leg is closed as an orphan only while its partner is not filled, and what is
\* closed is the position under its own ticket (close_filled_plan), as far as the
\* log, the broker and late orders allow the program to know.
THEOREM ClosesCorrect == Spec => []ClosesOnlyOrphans
  <1>1. IInv => ClosesOnlyOrphans
    BY DEF IInv, Known, Books
  <1>2. QED
    BY <1>1, Invariance, PTL

\* The plans and the broker agree: what is reported filled is open or was undone,
\* and nothing is open that is not reported, whatever retries, exceptions and
\* exits from the job loop lie between.
THEOREM BooksCorrect == Spec => []PlansMatchBroker
  <1>1. Known => FillIsBacked
    BY DEF Known, Books, Backed, FillIsBacked
  <1>2. IInv => PlansMatchBroker
    BY <1>1 DEF IInv, Known, Books, PlansMatchBroker
  <1>3. QED
    BY <1>2, Invariance, PTL

\* order_send is reached only for the leg in execution, prepared, not in a dry
\* run, not behind an open circuit, with lots, never again for a leg whose quote
\* was once found stale, and never for a plan that is filled unless logging a
\* fill failed (ExecutionAgent.execute).  That the quote is still fresh when the
\* order leaves is not said: execute looks once, before its retry loop.
THEOREM OrdersCorrect == Spec => OrdersOnlyWhenAllowed
  <1> DEFINE Allowed == \A l \in Legs : sends'[l] # sends[l] =>
         l = Leg /\ l \in prepared /\ ~dryRun
           /\ ~circuit /\ failures < Threshold
           /\ plan[l].lots /\ l \notin refused
           /\ ("log" \notin faults => ~PlanIsFilled(plan[l]))
  <1>1. IInv /\ [Next]_vars => [Allowed]_vars
    <2> SUFFICES ASSUME IInv, [Next]_vars, NEW l \in Legs, sends'[l] # sends[l]
                 PROVE  /\ l = Leg /\ l \in prepared /\ ~dryRun
                        /\ ~circuit /\ failures < Threshold
                        /\ plan[l].lots /\ l \notin refused
                        /\ ("log" \notin faults => ~PlanIsFilled(plan[l]))
      OBVIOUS
    <2>1. pc = "attempt" /\ sends' = [sends EXCEPT ![Leg] = @ + 1]
      BY SendFrame DEF IInv, Known
    <2>2. l = Leg
      BY <2>1 DEF IInv, Known, TypeOK
    <2>3. ~dryRun /\ ~circuit /\ plan[l].lots /\ l \notin refused
      BY <2>1, <2>2 DEF IInv, Known, Checked
    <2>4. "log" \notin faults => ~PlanIsFilled(plan[l])
      BY <2>1, <2>2 DEF IInv, Known, Checked
    <2>5. failures < Threshold
      <3>1. ~(failures >= Threshold)
        BY <2>3 DEF IInv, Known, Checked
      <3>2. QED
        BY <3>1, RetryAssumption DEF IInv, Known, TypeOK
    <2>6. l \in prepared
      BY <2>1, <2>2, LegFacts DEF IInv, Known
    <2>7. QED
      BY <2>2, <2>3, <2>4, <2>5, <2>6
  <1>2. QED
    BY <1>1, Invariance, PTL DEF Spec, OrdersOnlyWhenAllowed

\* As long as the broker behaves, every run of any jobs keeps the promise of
\* PairPromise: the pairs are entered one after the other, each is left with both
\* of its legs open or with neither, and one that has been left is not touched.
THEOREM PromiseKept == Spec => KeepsPromise
  <1>1. Init => Promise!Init
    <2>1. Init => OpensNothing
      BY InitOpens
    <2>2. QED
      BY <2>1 DEF Init, OpensNothing, Promise!Init, PairExposure, PairsLeft, Trusted, Finished, PairJobs
  <1>2. IInv /\ IInv' /\ [Next]_vars => [Promise!Next]_<<PairExposure, PairsLeft, Trusted>>
    BY PromiseStep
  <1>3. QED
    BY <1>1, <1>2, Invariance, PTL DEF Spec, KeepsPromise, Promise!Spec, Promise!promiseVars
=============================================================================
