---------------------------- MODULE ResidentLoop ----------------------------
(***************************************************************************)
(* ResidentLoopEngine: processes started by `main.py loop` and `main.py   *)
(* review` take one lock, adopt parameters, run the pipeline of a symbol  *)
(* for each new bar and review all parameters once a week.  A process may *)
(* end between any two steps and be started again; what survives are the  *)
(* STATE.md files (adopted, reviewed, mark) and the bar database.  One    *)
(* write of a STATE.md is one step here.                                  *)
(***************************************************************************)
EXTENDS Naturals, Sequences, FiniteSets

CONSTANTS Procs,          \* processes that may run, one command line each
          Kind,           \* Kind[p] \in {"loop", "review"}
          Symbols,        \* engineering_symbols
          TradeSymbols,   \* trade_symbols, a sequence
          Keys,           \* all parameter stores in the order of their dicts, as
                          \* [target, strategy]; the strategy of a pair is "pair"
          Sessions,       \* symbols whose trading session may end
          RequireAdopted, \* loop.require_adopted_params
          PretradeOptimize, \* loop.pretrade_optimize
          PipelineOnBar,  \* loop.run_pipeline_on_bar
          Faults,         \* the faults that may happen
          FaultBound,     \* how many of them, at most
          MaxBar,         \* bound on the bars of each symbol
          MaxClock,       \* bound on the clock
          MaxEvents,      \* bound on the bars and the turns of the clock together
          MaxLaunches     \* bound on the processes started

AllFaults == {"connect",  \* MT5Connector.connect raises
              "sync",     \* some symbols are not synced
              "resolve",  \* ensure_symbol raises in _latest_bar_time
              "regime",   \* RegimeAgent.assess raises
              "optimize", \* IntelligenceLoop.run raises or ends on its error path
              "raise",    \* an exception before or after the pipeline, not in it
              "write",    \* a STATE.md cannot be written
              "kill"}     \* the process dies

None == "none"

Strategies == {"trend_following", "mean_reversion"}

ASSUME ResidentAssumption ==
    /\ None \notin Procs /\ Kind \in [Procs -> {"loop", "review"}]
    /\ TradeSymbols \in Seq(Symbols) /\ Sessions \subseteq Symbols
    /\ \A i \in 1..Len(Keys) : Keys[i].strategy \in Strategies => Keys[i].target \in Symbols
    /\ {RequireAdopted, PretradeOptimize, PipelineOnBar} \subseteq BOOLEAN
    /\ Faults \subseteq AllFaults
    /\ MaxBar \in [Symbols -> Nat] /\ {FaultBound, MaxClock, MaxEvents, MaxLaunches} \subseteq Nat
    /\ {Len(Keys), Len(TradeSymbols)} \subseteq Nat \ {0}

VARIABLES
    \* one process
    pc,        \* where its thread stands
    at,        \* index into Keys or TradeSymbols
    latest,    \* the bar it is working on
    strategy,  \* what its regime selects: of the bars of the loop at the gate, of the
               \* bars of stats.analysis_timeframe in the pipeline
    ready,     \* _pretrade_ready
    memReview, \* _last_review_date
    \* shared: the lock, the STATE.md files, the bar database
    lock,      \* the process that holds the mutex or the flock
    adopted,   \* indices of the stores with accepted or with params
    reviewed,  \* last_review_date of each store, 0 for None
    mark,      \* last_processed_bar of each symbol, 0 for None
    stored,    \* newest bar of each symbol in the database
    \* the world
    now,       \* the newest bar of each symbol at the broker
    forming,   \* is that bar still open
    clock,     \* three values a week: review day before the hour, after it, other days
    \* history
    runs,      \* runs[s][b]: pipelines started for s on bar b
    reviews,   \* reviews[d]: scheduled reviews begun on date d
    unrecorded, \* a run or a review has ended before it was on disk
    launches, faultCount

memVars   == <<at, latest, strategy, ready, memReview>>
diskVars  == <<adopted, reviewed, mark>>
worldVars == <<stored, now, forming, clock>>
histVars  == <<runs, reviews, unrecorded, launches>>
vars == <<pc, memVars, lock, diskVars, worldVars, histVars, faultCount>>

Happens(f) == f \in Faults /\ faultCount < FaultBound /\ faultCount' = faultCount + 1

Move(p, from, to) == pc[p] \in from /\ pc' = [pc EXCEPT ![p] = to]

Symbol(p) == TradeSymbols[at[p]]

\* Two dates a week: the review weekday and the days that follow it.
Date(c) == 2 * (c \div 3) + (IF c % 3 = 2 THEN 2 ELSE 1)
InWindow(c) == c % 3 = 1
Dates == 0..Date(MaxClock)

\* Mutant of LastReview: the oldest date in any store.
FirstReview ==
    CHOOSE d \in Dates : /\ \E i \in 1..Len(Keys) : reviewed[i] = d
                         /\ \A i \in 1..Len(Keys) : reviewed[i] >= d

\* _load_last_review_date: the newest date in any store.
LastReview ==
    CHOOSE d \in Dates : /\ \E i \in 1..Len(Keys) : reviewed[i] = d
                         /\ \A i \in 1..Len(Keys) : reviewed[i] <= d

\* Mutant of HasAdopted: one adopted store is taken for all.
HasAdoptedAny(stores) == stores # {}

HasAdopted(stores) ==
    \A s \in Symbols :
        \E i \in stores : Keys[i].target = s /\ Keys[i].strategy \in Strategies

Init ==
    /\ pc = [p \in Procs |-> "off"]
    /\ at = [p \in Procs |-> 1]
    /\ latest = [p \in Procs |-> 0]
    /\ strategy = [p \in Procs |-> None]
    /\ ready = [p \in Procs |-> FALSE]
    /\ memReview = [p \in Procs |-> 0]
    /\ lock = None
    /\ adopted \in SUBSET (1..Len(Keys))
    /\ reviewed = [i \in 1..Len(Keys) |-> 0]
    /\ mark = [s \in Symbols |-> 0]
    /\ stored = [s \in Symbols |-> 0]
    /\ now = [s \in Symbols |-> 0]
    /\ forming = [s \in Symbols |-> FALSE]
    /\ clock = 0
    /\ runs = [s \in Symbols |-> [b \in 1..MaxBar[s] |-> 0]]
    /\ reviews = [d \in Dates |-> 0]
    /\ unrecorded = FALSE /\ launches = 0 /\ faultCount = 0

-----------------------------------------------------------------------------
(* __init__, start and stop                                                *)

\* The memory of a process that has ended is gone.
Forget(p) ==
    /\ at' = [at EXCEPT ![p] = 1] /\ latest' = [latest EXCEPT ![p] = 0]
    /\ strategy' = [strategy EXCEPT ![p] = None]
    /\ ready' = [ready EXCEPT ![p] = FALSE] /\ memReview' = [memReview EXCEPT ![p] = 0]

\* The review date is read before the lock is taken.
Launch(p) ==
    /\ launches < MaxLaunches
    /\ Move(p, {"off"}, "lock")
    /\ launches' = launches + 1
    /\ memReview' = [memReview EXCEPT ![p] = LastReview]
    /\ UNCHANGED <<at, latest, strategy, ready, lock, diskVars, worldVars, runs, reviews, unrecorded,
                   faultCount>>

TakeLock(p) ==
    /\ lock = None
    /\ Move(p, {"lock"}, "connect") /\ lock' = p
    /\ UNCHANGED <<memVars, diskVars, worldVars, histVars, faultCount>>

\* acquire_or_exit: the loser ends; the release in its `finally` finds nothing to release.
LockBusy(p) ==
    /\ lock # None
    /\ Move(p, {"lock"}, "off") /\ Forget(p)
    /\ UNCHANGED <<lock, diskVars, worldVars, histVars, faultCount>>

Started(p) == IF Kind[p] = "loop" THEN "poll" ELSE "review"

Connect(p) ==
    /\ Move(p, {"connect"}, IF PretradeOptimize /\ ~HasAdopted(adopted)
                            THEN "pretrade" ELSE Started(p))
    /\ ready' = [ready EXCEPT ![p] = HasAdopted(adopted)]
    /\ at' = [at EXCEPT ![p] = 1]
    /\ UNCHANGED <<latest, strategy, memReview, lock, diskVars, worldVars, histVars, faultCount>>

ConnectRaises(p) ==
    /\ Move(p, {"connect"}, "stop") /\ Happens("connect")
    /\ UNCHANGED <<memVars, lock, diskVars, worldVars, histVars>>

Stop(p) ==
    /\ Move(p, {"stop"}, "off") /\ lock' = None /\ Forget(p)
    /\ UNCHANGED <<diskVars, worldVars, histVars, faultCount>>

-----------------------------------------------------------------------------
(* run_pretrade_optimize: one IntelligenceLoop.run per store               *)

OptimizeKey(p) ==
    LET last == at[p] = Len(Keys)
        next == IF pc[p] = "pretrade" THEN Started(p)
                ELSE IF HasAdopted(adopted') THEN "sync" ELSE "due"
    IN  /\ \/ adopted' = adopted \cup {at[p]} /\ UNCHANGED faultCount
           \/ adopted' = adopted /\ Happens("optimize")
        /\ Move(p, {"pretrade", "reoptimize"}, IF last THEN next ELSE pc[p])
        /\ at' = [at EXCEPT ![p] = IF last THEN 1 ELSE @ + 1]
        /\ ready' = [ready EXCEPT ![p] = IF last THEN HasAdopted(adopted') ELSE @]
        /\ UNCHANGED <<latest, strategy, memReview, lock, reviewed, mark, worldVars, histVars>>

-----------------------------------------------------------------------------
(* poll_once                                                               *)

\* ensure_connection succeeds.
Poll(p) ==
    /\ Move(p, {"poll"}, IF RequireAdopted /\ ~ready[p] THEN "reoptimize" ELSE "sync")
    /\ at' = [at EXCEPT ![p] = 1]
    /\ UNCHANGED <<latest, strategy, ready, memReview, lock, diskVars, worldVars, histVars, faultCount>>

\* Both attempts fail: no bar is looked at, a review may still be due.
PollUnconnected(p) ==
    /\ Move(p, {"poll"}, "due") /\ Happens("connect")
    /\ UNCHANGED <<memVars, lock, diskVars, worldVars, histVars>>

\* copy_rates_from_pos starts at position 0, the bar that is still forming.
Sync(p) ==
    /\ Move(p, {"sync"}, "symbol")
    /\ at' = [at EXCEPT ![p] = 1]
    /\ \/ stored' = now /\ UNCHANGED faultCount
       \/ /\ Happens("sync")
          /\ \E S \in SUBSET Symbols : stored' = [s \in Symbols |-> IF s \in S THEN now[s] ELSE stored[s]]
    /\ UNCHANGED <<latest, strategy, ready, memReview, lock, diskVars, now, forming, clock, histVars>>

NextSymbol(p, from) ==
    LET last == at[p] = Len(TradeSymbols)
    IN  /\ Move(p, from, IF last THEN "due" ELSE "symbol")
        /\ at' = [at EXCEPT ![p] = IF last THEN 1 ELSE @ + 1]
        /\ latest' = [latest EXCEPT ![p] = 0] /\ strategy' = [strategy EXCEPT ![p] = None]
        /\ UNCHANGED <<ready, memReview, lock, adopted, reviewed, worldVars, reviews, launches>>

\* Mutant of IsNew: an off-by-one.
IsNewOrSame(s, b) == b > 0 /\ mark[s] <= b

IsNew(s, b) == b > 0 /\ mark[s] < b

\* _latest_bar_time: a symbol that cannot be resolved is looked up under its raw
\* name, where an older bar may be found, or none.
LookAt(p, b) ==
    /\ pc[p] = "symbol"
    /\ \/ /\ IsNew(Symbol(p), b)
          /\ Move(p, {"symbol"}, "decide")
          /\ latest' = [latest EXCEPT ![p] = b]
          /\ UNCHANGED <<at, strategy, ready, memReview, lock, diskVars, worldVars, histVars>>
       \/ /\ ~IsNew(Symbol(p), b)
          /\ NextSymbol(p, {"symbol"}) /\ UNCHANGED <<mark, runs, unrecorded>>

Look(p) == LookAt(p, stored[Symbol(p)]) /\ UNCHANGED faultCount

LookUnresolved(p) ==
    /\ pc[p] = "symbol" /\ Happens("resolve")
    /\ \E b \in 0..MaxBar[Symbol(p)] : b < stored[Symbol(p)] /\ LookAt(p, b)

KeyAdopted(s, st) == \E i \in adopted : Keys[i].target = s /\ Keys[i].strategy = st

\* The regime selects a strategy whose parameters are adopted.
Decide(p) ==
    /\ PipelineOnBar
    /\ Move(p, {"decide"}, "run")
    /\ \E st \in Strategies :
         KeyAdopted(Symbol(p), st) /\ strategy' = [strategy EXCEPT ![p] = st]
    /\ UNCHANGED <<at, latest, ready, memReview, lock, diskVars, worldVars, histVars, faultCount>>

\* Mutant of SkipBar: a bar that is not traded is not marked.
SkipBarUnmarked(p) ==
    /\ NextSymbol(p, {"decide"})
    /\ UNCHANGED <<mark, runs, unrecorded, faultCount>>

\* regime_halt, no_adopted_params or pipeline_disabled: marked without a run.
SkipBar(p) ==
    /\ NextSymbol(p, {"decide"})
    /\ mark' = [mark EXCEPT ![Symbol(p)] = latest[p]]
    /\ UNCHANGED <<runs, unrecorded, faultCount>>

\* assess or update_state raises: poll_once goes on with the next symbol.
DecideRaises(p) ==
    /\ \E f \in {"regime", "write"} : Happens(f)
    /\ NextSymbol(p, {"decide"})
    /\ UNCHANGED <<mark, runs, unrecorded>>

\* A new TradingSystem runs the pipeline; what fails inside is swallowed there.  Its own
\* RegimeAgent assesses the symbol on other bars than the gate has.
Run(p) ==
    /\ Move(p, {"run"}, "mark")
    /\ \E st \in Strategies \cup {None} : strategy' = [strategy EXCEPT ![p] = st]
    /\ runs' = [runs EXCEPT ![Symbol(p)][latest[p]] = @ + 1]
    /\ UNCHANGED <<at, latest, ready, memReview, lock, diskVars, stored, now, forming, clock, reviews,
                   unrecorded, launches, faultCount>>

RunRaises(p) ==
    /\ Happens("raise")
    /\ NextSymbol(p, {"run"})
    /\ UNCHANGED <<mark, runs, unrecorded>>

\* update_state(last_processed_bar) with the bar read before the run.
Mark(p) ==
    /\ NextSymbol(p, {"mark"})
    /\ mark' = [mark EXCEPT ![Symbol(p)] = latest[p]]
    /\ UNCHANGED <<runs, unrecorded, faultCount>>

\* The exception is caught, the bar will be run again at the next poll.
MarkRaises(p) ==
    /\ \E f \in {"write", "raise"} : Happens(f)
    /\ NextSymbol(p, {"mark"})
    /\ unrecorded' = TRUE
    /\ UNCHANGED <<mark, runs>>

-----------------------------------------------------------------------------
(* should_review and review_subloop                                        *)

ReviewIsDue(p) ==
    InWindow(clock) /\ LastReview # Date(clock) /\ memReview[p] # Date(clock)

BeginReview(p) ==
    /\ ReviewIsDue(p)
    /\ Move(p, {"due"}, "review")
    /\ reviews' = [reviews EXCEPT ![Date(clock)] = @ + 1]
    /\ at' = [at EXCEPT ![p] = 1]
    /\ UNCHANGED <<latest, strategy, ready, memReview, lock, diskVars, worldVars, runs, unrecorded, launches, faultCount>>

\* No review: the loop sleeps and polls again.
Sleep(p) ==
    /\ ~ReviewIsDue(p)
    /\ Move(p, {"due"}, "poll")
    /\ UNCHANGED <<memVars, lock, diskVars, worldVars, histVars, faultCount>>

\* One store: stable or the check fails (unchanged), or degraded and optimized.
\* The date that will be persisted is the one on which the last store is done.
ReviewKey(p) ==
    LET last == at[p] = Len(Keys)
    IN  /\ adopted' \in {adopted, adopted \cup {at[p]}}
        /\ Move(p, {"review"}, IF last THEN "persist" ELSE "review")
        /\ at' = [at EXCEPT ![p] = IF last THEN 1 ELSE @ + 1]
        /\ memReview' = [memReview EXCEPT ![p] = IF last THEN Date(clock) ELSE @]
        /\ UNCHANGED <<latest, strategy, ready, lock, reviewed, mark, worldVars, histVars, faultCount>>

\* _persist_last_review_date, one store after the other.
PersistKey(p) ==
    LET last == at[p] = Len(Keys)
    IN  /\ reviewed' = [reviewed EXCEPT ![at[p]] = memReview[p]]
        /\ Move(p, {"persist"}, IF ~last THEN "persist"
                                ELSE IF Kind[p] = "loop" THEN "poll" ELSE "stop")
        /\ at' = [at EXCEPT ![p] = IF last THEN 1 ELSE @ + 1]
        /\ ready' = [ready EXCEPT ![p] = IF last THEN HasAdopted(adopted) ELSE @]
        /\ UNCHANGED <<latest, strategy, memReview, lock, adopted, mark, worldVars, histVars, faultCount>>

-----------------------------------------------------------------------------
(* The end of a process at any point, and the world around it              *)

\* What has been done is not on disk; one store with the date is enough.
Unrecorded(p) == pc[p] \in {"mark", "review"} \/ (pc[p] = "persist" /\ at[p] = 1)

\* Nothing in run_forever catches it: the process stops.
PersistRaises(p) ==
    /\ Move(p, {"persist"}, "stop") /\ Happens("write")
    /\ unrecorded' = (unrecorded \/ Unrecorded(p))
    /\ UNCHANGED <<memVars, lock, diskVars, worldVars, runs, reviews, launches>>

Alive == {"connect", "pretrade", "reoptimize", "poll", "sync", "symbol", "decide", "run",
          "mark", "due", "review", "persist"}

\* Ctrl+C, which passes every `except Exception` on its way to stop(), or an
\* exception of the idle heartbeat, which nothing but `finally` meets.
Interrupt(p) ==
    /\ Move(p, Alive, "stop")
    /\ unrecorded' = (unrecorded \/ Unrecorded(p))
    /\ UNCHANGED <<memVars, lock, diskVars, worldVars, runs, reviews, launches, faultCount>>

\* The operating system frees the mutex or the flock of a dead process.
Kill(p) ==
    /\ Move(p, Alive \cup {"lock", "stop"}, "off") /\ Forget(p) /\ Happens("kill")
    /\ unrecorded' = (unrecorded \/ Unrecorded(p))
    /\ lock' = IF lock = p THEN None ELSE lock
    /\ UNCHANGED <<diskVars, worldVars, runs, reviews, launches>>

\* All bars so far and the turns of the clock.
Events == clock + Cardinality(UNION {{s} \X (1..now[s]) : s \in Symbols})

OpenBar(s) ==
    /\ now[s] < MaxBar[s] /\ Events < MaxEvents
    /\ now' = [now EXCEPT ![s] = @ + 1] /\ forming' = [forming EXCEPT ![s] = TRUE]
    /\ UNCHANGED <<pc, memVars, lock, diskVars, stored, clock, histVars, faultCount>>

\* The session ends: the last bar is final and no new one begins for a while.
EndSession(s) ==
    /\ s \in Sessions /\ forming[s] /\ forming' = [forming EXCEPT ![s] = FALSE]
    /\ UNCHANGED <<pc, memVars, lock, diskVars, stored, now, clock, histVars, faultCount>>

Tick ==
    /\ clock < MaxClock /\ Events < MaxEvents /\ clock' = clock + 1
    /\ UNCHANGED <<pc, memVars, lock, diskVars, stored, now, forming, histVars, faultCount>>

\* `main.py optimize` in a process of its own, which takes no lock.
OptimizeElsewhere(i) ==
    /\ i \notin adopted /\ adopted' = adopted \cup {i}
    /\ UNCHANGED <<pc, memVars, lock, reviewed, mark, worldVars, histVars, faultCount>>

StartUp(p) == TakeLock(p) \/ LockBusy(p) \/ Connect(p) \/ ConnectRaises(p) \/ Stop(p)
Polling(p) == Poll(p) \/ PollUnconnected(p) \/ Sync(p) \/ Look(p) \/ LookUnresolved(p)
                \/ Decide(p) \/ SkipBar(p) \/ DecideRaises(p)
Running(p) == Run(p) \/ RunRaises(p) \/ Mark(p) \/ MarkRaises(p)
Reviewing(p) == BeginReview(p) \/ Sleep(p) \/ ReviewKey(p) \/ PersistKey(p) \/ PersistRaises(p)

Step(p) == StartUp(p) \/ OptimizeKey(p) \/ Polling(p) \/ Running(p) \/ Reviewing(p)

World == \/ \E s \in Symbols : OpenBar(s) \/ EndSession(s)
         \/ Tick
         \/ \E i \in 1..Len(Keys) : OptimizeElsewhere(i)

Next == \/ \E p \in Procs : Launch(p) \/ Step(p) \/ Interrupt(p) \/ Kill(p)
        \/ World

Spec == Init /\ [][Next]_vars

\* A process that runs keeps running.
FairSpec == Spec /\ \A p \in Procs : WF_vars(Step(p))

-----------------------------------------------------------------------------
(* Properties                                                              *)

Places == Alive \cup {"off", "lock", "stop"}

\* Every variable has the type its code counterpart has, and indices stay in range.
TypeOK ==
    /\ pc \in [Procs -> Places]
    /\ at \in [Procs -> 1..(Len(Keys) + Len(TradeSymbols))]
    /\ \A p \in Procs : /\ pc[p] \in {"symbol", "decide", "run", "mark"} => at[p] <= Len(TradeSymbols)
                        /\ pc[p] \in {"review", "persist"} => at[p] <= Len(Keys)
    /\ latest \in [Procs -> Nat]
    /\ \A p \in Procs : pc[p] \in {"decide", "run", "mark"} => latest[p] \in 1..MaxBar[Symbol(p)]
    /\ strategy \in [Procs -> Strategies \cup {None}]
    /\ ready \in [Procs -> BOOLEAN] /\ memReview \in [Procs -> Dates]
    /\ lock \in Procs \cup {None}
    /\ adopted \subseteq 1..Len(Keys) /\ reviewed \in [1..Len(Keys) -> Dates]
    /\ {mark, stored, now} \subseteq [Symbols -> Nat] /\ forming \in [Symbols -> BOOLEAN]
    /\ \A s \in Symbols : {mark[s], stored[s], now[s]} \subseteq 0..MaxBar[s]
    /\ clock \in 0..MaxClock
    /\ DOMAIN runs = Symbols /\ \A s \in Symbols : runs[s] \in [1..MaxBar[s] -> Nat]
    /\ reviews \in [Dates -> Nat]
    /\ unrecorded \in BOOLEAN /\ launches \in 0..MaxLaunches /\ faultCount \in 0..FaultBound

\* "Exclusive process lock so only one resident loop may run": whoever is past
\* the lock holds it, so at most one process is, and nobody else keeps it locked.
OneEngine ==
    \A p \in Procs : pc[p] \notin {"off", "lock"} <=> lock = p

\* A bar of a symbol is run once, across restarts, unless a run was not recorded.
OneRunPerBar ==
    ~unrecorded =>
        \A s \in Symbols : \A b \in 1..MaxBar[s] : runs[s][b] <= 1

\* A run never goes back behind a bar that has been recorded, although a symbol
\* may be looked up under two names in the bar database.
NeverBackwards ==
    [][\A s \in Symbols : \A b \in 1..MaxBar[s] : runs'[s][b] # runs[s][b] => mark[s] < b]_vars

\* "refuse pipeline until adopted params exist": the flag is cached, but when a run
\* starts every symbol has adopted parameters on disk, the symbol of the run
\* for the strategy in use.
RunsOnlyAdopted ==
    [][\A p \in Procs : pc[p] = "run" /\ pc'[p] = "mark" =>
         /\ KeyAdopted(Symbol(p), strategy[p])
         /\ RequireAdopted =>
              \A s \in Symbols : \E st \in Strategies : KeyAdopted(s, st)]_vars

\* The scheduled review is done once on its day, across restarts, midnight and the
\* days between two review days, unless it could not be recorded; one recorded store is enough.
ReviewOncePerDay ==
    ~unrecorded => \A d \in Dates : reviews[d] <= 1

\* resident.py:39-40: the pipeline is run for a closed bar.
RunsOnClosedBars ==
    [][\A s \in Symbols : \A b \in 1..MaxBar[s] :
         runs'[s][b] # runs[s][b] => ~(b = now[s] /\ forming[s])]_vars

\* As long as a loop lives, each bar it is to trade is dealt with or overtaken.
BarsServed ==
    \A i \in 1..Len(TradeSymbols) : \A b \in 1..MaxBar[TradeSymbols[i]] :
        now[TradeSymbols[i]] >= b ~>
            \/ mark[TradeSymbols[i]] >= b
            \/ \A p \in Procs : Kind[p] = "loop" => pc[p] \in {"off", "stop"}
=============================================================================
