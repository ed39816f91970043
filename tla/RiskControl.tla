----------------------------- MODULE RiskControl -----------------------------
(***************************************************************************)
(* RiskAgent: the gate every order passes.  An agent is built for each run *)
(* of the pipeline and lives as long as the run; what survives it is one   *)
(* row of the risk database, the highest equity seen and the circuit       *)
(* breaker.  The resident loop runs one pipeline at a time, but main.py    *)
(* run takes no lock, so agents of two processes may overlap.              *)
(*                                                                         *)
(* An exposure is a weight, 100 times the money, to be compared with a     *)
(* percentage times the equity.  Lots are counted in volume steps.  The    *)
(* two reads of the account in review are one: nothing is between them.    *)
(***************************************************************************)
EXTENDS Naturals, Sequences, FiniteSets

CONSTANTS Agents,
          Symbols,
          Sector,     \* Sector[s]: the symbols of its symbol_group, none for "other"
          Price,      \* Price[s]: the money in one step of lots
          GuessPct,   \* percentage a step of lots counts for when it cannot be priced
          MarginPct,  \* margin in percent of the notional
          Equities,   \* the values of the account's equity
          Jobs,       \* the singles (one leg) and pairs (two legs) that may be reviewed
          Requests,   \* the lots that may be requested
          MaxSingle, MaxSymbol, MaxSector, MaxTotal, \* max_..._pct, below 100,
                                                     \* which is all an exposure counts for
          StopPct, CircuitPct,                       \* drawdown_..._pct
          MaxHeld,    \* bound on the lots held
          Faults,     \* the faults that may happen
          FaultBound  \* how many of them, at most

AllFaults == {"account", \* the account cannot be read, its equity is taken for 0
              "price",   \* a symbol cannot be priced
              "save",    \* save_state raises
              "kill"}    \* the process dies

ASSUME RiskAssumption ==
    /\ IsFiniteSet(Symbols)
    /\ Sector \in [Symbols -> SUBSET Symbols] /\ \A s \in Symbols : Sector[s] # {} => s \in Sector[s]
    /\ Price \in [Symbols -> Nat \ {0}] /\ {GuessPct, CircuitPct, StopPct} \subseteq Nat \ {0}
    /\ StopPct <= CircuitPct
    /\ Equities \subseteq Nat \ {0}
    /\ \A j \in Jobs : /\ j \in Seq(Symbols) /\ Len(j) \in 1..2
                       /\ Len(j) = 2 => j[1] # j[2]
    /\ Requests \subseteq Nat
    /\ {MaxSingle, MaxSymbol, MaxSector, MaxTotal} \subseteq 0..99
    /\ {MarginPct, MaxHeld, FaultBound} \subseteq Nat
    /\ Faults \subseteq AllFaults

\* A cooldown is named by a number; 0 stands for circuit_breaker_until = 0.
Cooldowns == 1..(Cardinality(Agents) + 2)

VARIABLES
    \* one agent and its run
    pc,        \* where it stands
    mem,       \* _peak_equity, _circuit_breaker_active, _circuit_breaker_until
    seen,      \* the equity it has read
    legs,      \* the legs of the job that are still to be reviewed
    orders,    \* the legs that are approved and not yet executed
    \* the database
    disk,      \* the row of risk_state, as in mem
    \* the world
    equity,
    held,      \* held[s]: lots of open positions
    running,   \* the cooldowns whose time has not come
    \* history
    top,       \* the highest equity any agent has read
    overlapped, \* two agents have lived at the same time
    faults, faultCount

agentVars == <<pc, mem, seen, legs, orders>>
worldVars == <<equity, held, running>>
faultVars == <<faults, faultCount>>
vars == <<agentVars, disk, worldVars, top, overlapped, faultVars>>

Row(peak, active, until) == [peak |-> peak, active |-> active, until |-> until]
NoRow == Row(0, FALSE, 0)

Happens(f) ==
    /\ f \in Faults /\ faultCount < FaultBound
    /\ faults' = faults \cup {f} /\ faultCount' = faultCount + 1

Init ==
    /\ pc = [a \in Agents |-> "off"]
    /\ mem = [a \in Agents |-> NoRow]
    /\ seen = [a \in Agents |-> 0]
    /\ legs = [a \in Agents |-> << >>]
    /\ orders = [a \in Agents |-> << >>]
    /\ disk = NoRow
    /\ equity \in Equities
    /\ held = [s \in Symbols |-> 0]
    /\ running = {}
    /\ top = 0 /\ overlapped = FALSE
    /\ faults = {} /\ faultCount = 0

Goes(a, from, to) == pc[a] = from /\ pc' = [pc EXCEPT ![a] = to]

Fun == INSTANCE Functions

-----------------------------------------------------------------------------
(* The life of an agent                                                    *)

\* Mutant of Loaded: the row is not read.
LoadedNothing == NoRow

\* load_state
Loaded == disk

Build(a) ==
    /\ Goes(a, "off", "idle")
    /\ mem' = [mem EXCEPT ![a] = Loaded]
    /\ overlapped' = (overlapped \/ \E b \in Agents : pc[b] # "off")
    /\ UNCHANGED <<seen, legs, orders, disk, worldVars, top, faultVars>>

\* The agent and what it remembers are gone.
Gone(a) ==
    /\ pc' = [pc EXCEPT ![a] = "off"]
    /\ mem' = [mem EXCEPT ![a] = NoRow] /\ seen' = [seen EXCEPT ![a] = 0]
    /\ legs' = [legs EXCEPT ![a] = << >>] /\ orders' = [orders EXCEPT ![a] = << >>]
    /\ UNCHANGED <<disk, worldVars, top, overlapped>>

End(a) == pc[a] = "idle" /\ Gone(a) /\ UNCHANGED faultVars

Kill(a) == pc[a] # "off" /\ Gone(a) /\ Happens("kill")

\* assess_account for the report of the run (no legs), or the reviews of a job.
Begin(a) ==
    /\ Goes(a, "idle", "assess")
    /\ \E j \in Jobs \cup {<< >>} : legs' = [legs EXCEPT ![a] = j]
    /\ UNCHANGED <<mem, seen, orders, disk, worldVars, top, overlapped, faultVars>>

\* No leg of the job is executed: a rejected leg takes the other one with it.
Rejects(a, from) ==
    /\ Goes(a, from, "idle")
    /\ legs' = [legs EXCEPT ![a] = << >>] /\ orders' = [orders EXCEPT ![a] = << >>]

-----------------------------------------------------------------------------
(* assess_account                                                          *)

\* _refresh_peak_equity
Refreshed(m, e) == IF m.peak = 0 \/ e > m.peak THEN [m EXCEPT !.peak = e] ELSE m

Reads(a) == /\ seen' = [seen EXCEPT ![a] = equity]
            /\ top' = IF equity > top THEN equity ELSE top
            /\ mem' = [mem EXCEPT ![a] = Refreshed(mem[a], equity)]

\* The row is written whole, with what this agent remembers of the circuit breaker.
Assess(a) ==
    /\ Goes(a, "assess", "circuit") /\ Reads(a)
    /\ disk' = IF mem'[a] = mem[a] THEN disk ELSE mem'[a]
    /\ UNCHANGED <<legs, orders, worldVars, overlapped, faultVars>>

\* "invalid equity"
AssessBlind(a) ==
    /\ Rejects(a, "assess") /\ Happens("account")
    /\ UNCHANGED <<mem, seen, disk, worldVars, top, overlapped>>

\* save_state raises: _safe_call rejects, but the agent remembers the new peak.
AssessUnsaved(a) ==
    /\ Rejects(a, "assess") /\ Reads(a)
    /\ mem'[a] # mem[a] /\ Happens("save")
    /\ UNCHANGED <<disk, worldVars, overlapped>>

\* drawdown_pct >= pct
Down(peak, e, pct) == 100 * peak >= pct * peak + 100 * e

\* Mutants of Cooled: a circuit that is open stays open; the time is not looked at.
CooledNever(m) == m
CooledAtOnce(m) == Row(m.peak, FALSE, 0)

\* The end of a cooldown is not saved.
Cooled(m) == IF m.active /\ m.until \notin running THEN Row(m.peak, FALSE, 0) ELSE m

Tripped(a) == Down(mem[a].peak, seen[a], CircuitPct) /\ ~Cooled(mem[a]).active

\* A new cooldown begins.
Trips(a) ==
    \E k \in Cooldowns :
        /\ k \notin running \cup {disk.until} \cup {mem[b].until : b \in Agents}
        /\ running' = running \cup {k}
        /\ mem' = [mem EXCEPT ![a] = Row(mem[a].peak, TRUE, k)]

AfterAssess(a) == IF legs[a] = << >> THEN "idle" ELSE "verdict"

\* _update_circuit_breaker
Circuit(a) ==
    /\ ~Tripped(a)
    /\ Goes(a, "circuit", AfterAssess(a))
    /\ mem' = [mem EXCEPT ![a] = Cooled(mem[a])]
    /\ UNCHANGED <<seen, legs, orders, disk, worldVars, top, overlapped, faultVars>>

Trigger(a) ==
    /\ Tripped(a) /\ Trips(a) /\ disk' = mem'[a]
    /\ Goes(a, "circuit", AfterAssess(a))
    /\ UNCHANGED <<seen, legs, orders, equity, held, top, overlapped, faultVars>>

\* The agent remembers its circuit, the database does not.
TriggerUnsaved(a) ==
    /\ Tripped(a) /\ Trips(a) /\ Happens("save")
    /\ Rejects(a, "circuit")
    /\ UNCHANGED <<seen, disk, equity, held, top, overlapped>>

-----------------------------------------------------------------------------
(* review                                                                  *)

Blocked(a) == mem[a].active \/ Down(mem[a].peak, seen[a], StopPct)

\* The weight of a step of lots; B are the symbols that cannot be priced.
Weight(s, e, B) == IF s \in B THEN GuessPct * e ELSE 100 * Price[s]

\* _sector_exposure_pct and _symbol_exposure_pct, as weights.
Used(lots, S, e, B) == Fun!SumFunctionOnSet([s \in Symbols |-> lots[s] * Weight(s, e, B)], S)

\* _current_exposure_pct: the margin in use if there is one, else the notional.
TotalUsed(e, B) ==
    IF MarginPct > 0 THEN Fun!SumFunctionOnSet([s \in Symbols |-> held[s] * Price[s] * MarginPct], Symbols)
    ELSE Used(held, Symbols, e, B)

\* Mutant of Room: what is used already is not subtracted.
RoomAtAll(s, cap, used, e, B) == (cap * e) \div Weight(s, e, B)

\* _exposure_pct_to_lots of what a cap leaves.
Room(s, cap, used, e, B) == IF cap * e > used THEN (cap * e - used) \div Weight(s, e, B) ELSE 0

\* The first cap that is exceeded.
Exceeded(s, req, e, B) ==
    LET Over(cap, used) == used + req * Weight(s, e, B) > cap * e
    IN  IF Over(MaxSingle, 0) THEN "single"
        ELSE IF Over(MaxSymbol, Used(held, {s}, e, B)) THEN "symbol"
        ELSE IF Over(MaxSector, Used(held, Sector[s], e, B)) THEN "sector"
        ELSE IF Over(MaxTotal, TotalUsed(e, B)) THEN "total"
        ELSE "none"

\* base_lots: the first cap that is exceeded decides alone.
Base(s, req, e, B) ==
    LET cap == Exceeded(s, req, e, B)
    IN  CASE cap = "single" -> Room(s, MaxSingle, 0, e, B)
          [] cap = "symbol" -> Room(s, MaxSymbol, Used(held, {s}, e, B), e, B)
          [] cap = "sector" -> Room(s, MaxSector, Used(held, Sector[s], e, B), e, B)
          [] cap = "total"  -> 0
          [] OTHER          -> req

\* _apply_scaling: the volatility, the regime or the drawdown leaves a part of them.
Scaled(base) == 1..base

Approval(s, lots, e, via, before) ==
    [symbol |-> s, lots |-> lots, equity |-> e, via |-> via, before |-> before]

\* The leg is approved; the last leg lets the job be executed.
ApproveWith(a, B) ==
    LET s == Head(legs[a])
        before == IF orders[a] = << >> THEN 0 ELSE orders[a][1].lots * 100 * Price[orders[a][1].symbol]
    IN  /\ ~Blocked(a)
        /\ Goes(a, "verdict", IF Len(legs[a]) = 1 THEN "execute" ELSE "assess")
        /\ legs' = [legs EXCEPT ![a] = Tail(legs[a])]
        /\ \E req \in Requests : \E lots \in Scaled(Base(s, req, seen[a], B)) :
             LET via == IF B # {} THEN "guess" ELSE Exceeded(s, req, seen[a], B)
             IN  orders' = [orders EXCEPT ![a] = Append(@, Approval(s, lots, seen[a], via, before))]
        /\ UNCHANGED <<mem, seen, disk, worldVars, top, overlapped>>

Approve(a) == ApproveWith(a, {}) /\ UNCHANGED faultVars

\* 10 % for a lot of what cannot be priced.
ApproveGuess(a) == Happens("price") /\ \E B \in SUBSET Symbols : B # {} /\ ApproveWith(a, B)

\* A rejection of the agent, or of the cost gate that follows it.
Reject(a) ==
    /\ Rejects(a, "verdict")
    /\ UNCHANGED <<mem, seen, disk, worldVars, top, overlapped, faultVars>>

\* The price that the cost gate asks for is missing: nothing catches it in the run.
PriceRaises(a) == pc[a] = "verdict" /\ ~Blocked(a) /\ Happens("price") /\ Gone(a)

-----------------------------------------------------------------------------
(* The execution and the world                                             *)

Executed(a) ==
    /\ Goes(a, "execute", IF Len(orders[a]) = 1 THEN "idle" ELSE "execute")
    /\ orders' = [orders EXCEPT ![a] = Tail(@)]
    /\ UNCHANGED <<mem, seen, legs, disk, equity, running, top, overlapped, faultVars>>

Fills(a) ==
    /\ Executed(a)
    /\ LET o == Head(orders[a])
       IN  /\ held[o.symbol] + o.lots <= MaxHeld
           /\ held' = [held EXCEPT ![o.symbol] = @ + o.lots]

FillsNot(a) == Executed(a) /\ UNCHANGED held

\* Stop loss, take profit or the close of an orphan.
Close(s) ==
    /\ \E n \in 0..held[s] - 1 : held' = [held EXCEPT ![s] = n]
    /\ UNCHANGED <<agentVars, disk, equity, running, top, overlapped, faultVars>>

MoveEquity ==
    /\ equity' \in Equities \ {equity}
    /\ UNCHANGED <<agentVars, disk, held, running, top, overlapped, faultVars>>

\* Days pass.
CooldownEnds(k) ==
    /\ k \in running /\ running' = running \ {k}
    /\ UNCHANGED <<agentVars, disk, equity, held, top, overlapped, faultVars>>

RunStep(a) == \/ Assess(a) \/ AssessBlind(a) \/ AssessUnsaved(a)
              \/ Circuit(a) \/ Trigger(a) \/ TriggerUnsaved(a)
              \/ Approve(a) \/ ApproveGuess(a) \/ Reject(a) \/ PriceRaises(a)
              \/ Fills(a) \/ FillsNot(a)

Next == \/ \E a \in Agents : Build(a) \/ Begin(a) \/ RunStep(a) \/ End(a) \/ Kill(a)
        \/ \E s \in Symbols : Close(s)
        \/ \E k \in Cooldowns : CooldownEnds(k)
        \/ MoveEquity

Spec == Init /\ [][Next]_vars

\* A live run goes on, and time passes.
FairSpec == /\ Spec
            /\ \A a \in Agents : WF_vars(RunStep(a))
            /\ \A k \in Cooldowns : WF_vars(CooldownEnds(k))

-----------------------------------------------------------------------------
(* Properties                                                              *)

Rows == [peak : {0} \cup Equities, active : BOOLEAN, until : {0} \cup Cooldowns]
Approvals == [symbol : Symbols, lots : Nat \ {0}, equity : Equities,
              via : {"single", "symbol", "sector", "total", "none", "guess"}, before : Nat]

\* Nothing is approved for no lots, an active circuit has a cooldown, and whoever
\* reviews has read an equity and knows a peak.
TypeOK ==
    /\ pc \in [Agents -> {"off", "idle", "assess", "circuit", "verdict", "execute"}]
    /\ mem \in [Agents -> Rows] /\ disk \in Rows
    /\ \A a \in Agents : mem[a].active => mem[a].until # 0
    /\ disk.active => disk.until # 0
    /\ seen \in [Agents -> {0} \cup Equities]
    /\ \A a \in Agents : pc[a] \in {"circuit", "verdict"} => seen[a] # 0 /\ mem[a].peak >= seen[a]
    /\ legs \in [Agents -> Seq(Symbols)] /\ orders \in [Agents -> Seq(Approvals)]
    /\ \A a \in Agents : /\ pc[a] = "verdict" => legs[a] # << >>
                         /\ pc[a] = "execute" => orders[a] # << >>
    /\ equity \in Equities /\ held \in [Symbols -> Nat] /\ running \subseteq Cooldowns
    /\ top \in {0} \cup Equities /\ overlapped \in BOOLEAN
    /\ faults \subseteq AllFaults /\ faultCount \in 0..FaultBound

Sound == ~overlapped /\ "save" \notin faults
Approves(a) == Len(orders'[a]) > Len(orders[a])

\* drawdown_stop_pct: no order is approved on an equity that lies that far below any
\* equity ever read, in this run or in an earlier one.
DrawdownBlocks ==
    [][Sound => \A a \in Agents : Approves(a) => ~Down(top, seen[a], StopPct)]_vars

\* circuit_breaker_cooldown_days: while a cooldown lasts no order is approved, not
\* even by later runs and not even when the equity has recovered.
CircuitHolds ==
    [][Sound => \A a \in Agents : Approves(a) => running = {}]_vars

\* max_single_position_pct holds for every order.  The caps of symbol and sector hold
\* when it is filled, but for orders that an earlier cap has cut, since only the first
\* one that is exceeded counts, and the cap of the sector but for the other leg of the
\* pair, which was approved on the same positions.
CapsHold ==
    [][~overlapped =>
         \A a \in Agents :
            LET o == Head(orders[a])
            IN  Fills(a) /\ o.via # "guess" =>
                  /\ o.lots * Weight(o.symbol, o.equity, {}) <= MaxSingle * o.equity
                  /\ o.via # "single" =>
                       Used(held', {o.symbol}, o.equity, {}) <= MaxSymbol * o.equity
                  /\ o.via \notin {"single", "symbol"} =>
                       Used(held', Sector[o.symbol], o.equity, {}) <= MaxSector * o.equity + o.before]_vars

ClearOf == [p \in Equities \cup {0} |-> {e \in Equities : ~Down(p, e, StopPct)}]
Clear == equity \in ClearOf[top]
Reviewing == \E a \in Agents : pc[a] = "assess" /\ legs[a] # << >>
Open == \E a \in Agents : pc[a] = "verdict" /\ ~Blocked(a)

\* The circuit breaker does not outlive its cause: if the equity stays clear of the
\* stop level and legs are reviewed again and again, some are not blocked.
EntriesResume == <>[]Clear /\ []<>Reviewing => []<>Open
=============================================================================
