-------------------------- MODULE ResidentLoopProofs --------------------------
(***************************************************************************)
(* Proofs about ResidentLoop, for any processes, symbols, stores, bars and *)
(* faults: type correctness, the process lock, and that a bar is run once, *)
(* never behind a recorded one, and only with adopted parameters.          *)
(***************************************************************************)
EXTENDS ResidentLoop, WellFoundedInduction, TLAPS

\* What one process holds.
ProcTypes ==
    /\ pc \in [Procs -> Places]
    /\ at \in [Procs -> 1..(Len(Keys) + Len(TradeSymbols))]
    /\ \A p \in Procs : /\ pc[p] \in {"symbol", "decide", "run", "mark"} => at[p] <= Len(TradeSymbols)
                        /\ pc[p] \in {"pretrade", "reoptimize", "review", "persist"} => at[p] <= Len(Keys)
    /\ latest \in [Procs -> Nat]
    /\ \A p \in Procs : pc[p] \in {"decide", "run", "mark"} => latest[p] \in 1..MaxBar[Symbol(p)]
    /\ strategy \in [Procs -> Strategies \cup {None}]
    /\ ready \in [Procs -> BOOLEAN] /\ memReview \in [Procs -> Dates]

\* What the processes share.
WorldTypes ==
    /\ lock \in Procs \cup {None}
    /\ adopted \subseteq 1..Len(Keys) /\ reviewed \in [1..Len(Keys) -> Dates]
    /\ {mark, stored, now} \subseteq [Symbols -> Nat] /\ forming \in [Symbols -> BOOLEAN]
    /\ \A s \in Symbols : {mark[s], stored[s], now[s]} \subseteq 0..MaxBar[s]
    /\ clock \in 0..MaxClock
    /\ DOMAIN runs = Symbols /\ \A s \in Symbols : runs[s] \in [1..MaxBar[s] -> Nat]
    /\ reviews \in [Dates -> Nat]
    /\ unrecorded \in BOOLEAN /\ launches \in 0..MaxLaunches /\ faultCount \in 0..FaultBound

Types == ProcTypes /\ WorldTypes

-----------------------------------------------------------------------------
(* Constants and functions                                                 *)

\* What the assumptions on the constants say of lengths and bounds.
LEMMA Lengths ==
  /\ Len(Keys) \in Nat \ {0} /\ Len(TradeSymbols) \in Nat \ {0}
  /\ \A i \in 1..Len(TradeSymbols) : TradeSymbols[i] \in Symbols
  /\ MaxBar \in [Symbols -> Nat] /\ FaultBound \in Nat /\ MaxLaunches \in Nat /\ MaxClock \in Nat
  /\ None \notin Procs /\ None \notin Strategies
<1>1. TradeSymbols \in Seq(Symbols)
  BY ResidentAssumption
<1> QED
  BY <1>1, ResidentAssumption, SMT DEF None, Strategies

\* A function that stays is one whose value at a point is replaced by itself.
LEMMA Same ==
  ASSUME NEW S, NEW T, NEW f \in [S -> T], NEW p \in S
  PROVE  f = [f EXCEPT ![p] = f[p]]
  OBVIOUS

\* A date is never beyond the last one.
LEMMA DateTypes ==
  ASSUME NEW c \in 0..MaxClock
  PROVE  Date(c) \in Dates
  BY Lengths, SMT DEF Date, Dates

\* A process that moves and sets its own memory to well typed values keeps its types.
LEMMA Moves ==
  ASSUME ProcTypes, NEW p \in Procs, NEW to \in Places,
         NEW i \in 1..(Len(Keys) + Len(TradeSymbols)), NEW b \in Nat,
         NEW st \in Strategies \cup {None}, NEW r \in BOOLEAN, NEW d \in Dates,
         pc' = [pc EXCEPT ![p] = to], at' = [at EXCEPT ![p] = i],
         latest' = [latest EXCEPT ![p] = b], strategy' = [strategy EXCEPT ![p] = st],
         ready' = [ready EXCEPT ![p] = r], memReview' = [memReview EXCEPT ![p] = d],
         to \in {"symbol", "decide", "run", "mark"} => i <= Len(TradeSymbols),
         to \in {"pretrade", "reoptimize", "review", "persist"} => i <= Len(Keys),
         to \in {"decide", "run", "mark"} => b \in 1..MaxBar[TradeSymbols[i]]
  PROVE  ProcTypes'
<1>1. /\ pc'[p] = to /\ at'[p] = i /\ latest'[p] = b
      /\ \A q \in Procs : q # p => pc'[q] = pc[q] /\ at'[q] = at[q] /\ latest'[q] = latest[q]
  BY DEF ProcTypes
<1>2. /\ pc' \in [Procs -> Places] /\ at' \in [Procs -> 1..(Len(Keys) + Len(TradeSymbols))]
      /\ latest' \in [Procs -> Nat] /\ strategy' \in [Procs -> Strategies \cup {None}]
      /\ ready' \in [Procs -> BOOLEAN] /\ memReview' \in [Procs -> Dates]
  BY DEF ProcTypes
<1>3. ASSUME NEW q \in Procs
      PROVE  /\ pc'[q] \in {"symbol", "decide", "run", "mark"} => at'[q] <= Len(TradeSymbols)
             /\ pc'[q] \in {"pretrade", "reoptimize", "review", "persist"} => at'[q] <= Len(Keys)
             /\ pc'[q] \in {"decide", "run", "mark"} => latest'[q] \in 1..MaxBar[TradeSymbols[at'[q]]]
  <2>1. CASE q = p
    BY <1>1, <2>1
  <2>2. CASE q # p
    BY <1>1, <2>2 DEF ProcTypes, Symbol
  <2> QED
    BY <2>1, <2>2
<1> QED
  BY <1>2, <1>3 DEF ProcTypes, Symbol

\* A process that only moves.
LEMMA OnlyMoves ==
  ASSUME ProcTypes, NEW p \in Procs, NEW to \in Places,
         pc' = [pc EXCEPT ![p] = to], UNCHANGED memVars,
         to \in {"symbol", "decide", "run", "mark"} => pc[p] \in {"symbol", "decide", "run", "mark"},
         to \in {"pretrade", "reoptimize", "review", "persist"} => at[p] <= Len(Keys),
         to \in {"decide", "run", "mark"} => pc[p] \in {"decide", "run", "mark"}
  PROVE  ProcTypes'
<1>1. /\ at[p] \in 1..(Len(Keys) + Len(TradeSymbols)) /\ latest[p] \in Nat
      /\ strategy[p] \in Strategies \cup {None} /\ ready[p] \in BOOLEAN /\ memReview[p] \in Dates
      /\ pc[p] \in {"symbol", "decide", "run", "mark"} => at[p] <= Len(TradeSymbols)
      /\ pc[p] \in {"decide", "run", "mark"} => latest[p] \in 1..MaxBar[TradeSymbols[at[p]]]
  BY DEF ProcTypes, Symbol
<1>2. /\ at' = [at EXCEPT ![p] = at[p]] /\ latest' = [latest EXCEPT ![p] = latest[p]]
      /\ strategy' = [strategy EXCEPT ![p] = strategy[p]] /\ ready' = [ready EXCEPT ![p] = ready[p]]
      /\ memReview' = [memReview EXCEPT ![p] = memReview[p]]
  BY Same DEF ProcTypes, memVars
<1> QED
  BY <1>1, <1>2, Moves, ZenonT(40)

\* A process that has ended remembers nothing.
LEMMA Forgets ==
  ASSUME ProcTypes, NEW p \in Procs, pc' = [pc EXCEPT ![p] = "off"], Forget(p)
  PROVE  ProcTypes'
<1>1. 1 \in 1..(Len(Keys) + Len(TradeSymbols)) /\ 0 \in Dates /\ "off" \in Places
      /\ None \in Strategies \cup {None} /\ FALSE \in BOOLEAN
  <2>1. 0 \in 0..MaxClock /\ Date(0) \in Nat
    BY Lengths, SMT DEF Date
  <2>2. Date(MaxClock) \in Nat
    BY Lengths, SMT DEF Date
  <2> QED
    BY <2>2, Lengths, SMT DEF Dates, Places, Alive
<1>2. /\ at' = [at EXCEPT ![p] = 1] /\ latest' = [latest EXCEPT ![p] = 0]
      /\ strategy' = [strategy EXCEPT ![p] = None] /\ ready' = [ready EXCEPT ![p] = FALSE]
      /\ memReview' = [memReview EXCEPT ![p] = 0]
  BY DEF Forget
<1>3. 0 \in Nat
  OBVIOUS
<1> HIDE DEF Forget
<1> QED
  BY <1>1, <1>2, <1>3, Moves, Zenon

\* The newest review date on disk is a date, the date of a store, and none is newer.
LEMMA LastReviewTypes ==
  ASSUME WorldTypes
  PROVE  /\ LastReview \in Dates
         /\ \E k \in 1..Len(Keys) : reviewed[k] = LastReview
         /\ \A k \in 1..Len(Keys) : reviewed[k] <= LastReview
<1> DEFINE n == Len(Keys)
           top == Date(MaxClock)
           Left == {top - reviewed[i] : i \in 1..n}
<1>1. n \in Nat \ {0} /\ top \in Nat /\ Dates = 0..top /\ reviewed \in [1..n -> 0..top]
  <2>1. top \in Nat
    BY Lengths, SMT DEF Date
  <2> QED
    BY <2>1, Lengths DEF WorldTypes, Dates
<1> HIDE DEF n, top
<1>2. \A i \in 1..n : reviewed[i] \in 0..top /\ top - reviewed[i] \in Nat
  BY <1>1, SMT
<1>3. Left \in SUBSET Nat /\ Left # {}
  <2>1. 1 \in 1..n
    BY <1>1, SMT
  <2> QED
    BY <1>2, <2>1
<1>4. PICK m \in Left : \A k \in Left : m <= k
  <2> HIDE DEF Left
  <2>1. PICK m \in Left : \A k \in Left : ~ (<<k, m>> \in OpToRel(<, Nat))
    BY <1>3, NatLessThanWellFounded, WFMin
  <2>2. \A k \in Left : ~ (k < m)
    BY <1>3, <2>1 DEF OpToRel
  <2>3. \A k \in Left : k \in Nat
    BY <1>3
  <2> QED
    BY <2>2, <2>3, SMT
<1>5. PICK i \in 1..n : m = top - reviewed[i]
  BY <1>4
<1>6. \A k \in 1..n : reviewed[k] <= reviewed[i]
  <2> SUFFICES ASSUME NEW k \in 1..n
               PROVE  reviewed[k] <= reviewed[i]
    OBVIOUS
  <2>1. top - reviewed[i] <= top - reviewed[k]
    BY <1>4, <1>5
  <2>2. reviewed[k] \in Nat /\ reviewed[i] \in Nat /\ top \in Nat
    BY <1>1, <1>2, SMT
  <2> HIDE DEF Left
  <2> QED
    BY <2>1, <2>2, SMT
<1>7. \E d \in Dates : /\ \E k \in 1..Len(Keys) : reviewed[k] = d
                       /\ \A k \in 1..Len(Keys) : reviewed[k] <= d
  BY <1>1, <1>2, <1>5, <1>6 DEF n
<1> QED
  BY <1>7 DEF LastReview

-----------------------------------------------------------------------------
(* The types of a process                                                  *)

\* The next symbol of a poll, or the end of it.
LEMMA NextSymbolTypes ==
  ASSUME ProcTypes, NEW p \in Procs, NEW from, NextSymbol(p, from),
         pc[p] \in {"symbol", "decide", "run", "mark"}
  PROVE  ProcTypes'
<1> DEFINE to == IF at[p] = Len(TradeSymbols) THEN "due" ELSE "symbol"
           i == IF at[p] = Len(TradeSymbols) THEN 1 ELSE at[p] + 1
<1>1. /\ at[p] \in 1..(Len(Keys) + Len(TradeSymbols)) /\ at[p] <= Len(TradeSymbols)
      /\ ready[p] \in BOOLEAN /\ memReview[p] \in Dates
  BY DEF ProcTypes
<1>2. /\ pc' = [pc EXCEPT ![p] = to] /\ at' = [at EXCEPT ![p] = i]
      /\ latest' = [latest EXCEPT ![p] = 0] /\ strategy' = [strategy EXCEPT ![p] = None]
  BY DEF NextSymbol, Move
<1>3. ready' = [ready EXCEPT ![p] = ready[p]] /\ memReview' = [memReview EXCEPT ![p] = memReview[p]]
  BY Same DEF ProcTypes, NextSymbol
<1>4. /\ i \in 1..(Len(Keys) + Len(TradeSymbols)) /\ i <= Len(TradeSymbols)
      /\ to \in Places /\ to \in {"due", "symbol"}
  BY <1>1, Lengths, SMT DEF Places, Alive
<1>5. 0 \in Nat /\ None \in Strategies \cup {None}
  OBVIOUS
<1> HIDE DEF to, i
<1> QED
  BY <1>1, <1>2, <1>3, <1>4, <1>5, Moves

\* A process that moves, may set its index and its readiness, and touches nothing else.
LEMMA IndexMoves ==
  ASSUME ProcTypes, NEW p \in Procs, NEW to \in Places, NEW i \in 1..(Len(Keys) + Len(TradeSymbols)),
         pc' = [pc EXCEPT ![p] = to], at' = [at EXCEPT ![p] = i],
         ready' = ready \/ \E r \in BOOLEAN : ready' = [ready EXCEPT ![p] = r],
         UNCHANGED <<latest, strategy>>,
         memReview' = memReview \/ \E d \in Dates : memReview' = [memReview EXCEPT ![p] = d],
         to \notin {"decide", "run", "mark"},
         to = "symbol" => i <= Len(TradeSymbols),
         to \in {"pretrade", "reoptimize", "review", "persist"} => i <= Len(Keys)
  PROVE  ProcTypes'
<1>1. /\ latest[p] \in Nat /\ strategy[p] \in Strategies \cup {None} /\ ready[p] \in BOOLEAN
      /\ memReview[p] \in Dates
  BY DEF ProcTypes
<1>2. /\ latest' = [latest EXCEPT ![p] = latest[p]] /\ strategy' = [strategy EXCEPT ![p] = strategy[p]]
      /\ ready = [ready EXCEPT ![p] = ready[p]] /\ memReview = [memReview EXCEPT ![p] = memReview[p]]
  BY Same DEF ProcTypes
<1>3. PICK r \in BOOLEAN : ready' = [ready EXCEPT ![p] = r]
  BY <1>1, <1>2
<1>4. PICK d \in Dates : memReview' = [memReview EXCEPT ![p] = d]
  BY <1>1, <1>2
<1>5. to \in {"symbol", "decide", "run", "mark"} => i <= Len(TradeSymbols)
  OBVIOUS
<1>6. to \in {"decide", "run", "mark"} => latest[p] \in 1..MaxBar[TradeSymbols[i]]
  OBVIOUS
<1> QED
  BY <1>1, <1>2, <1>3, <1>4, <1>5, <1>6, Moves, ZenonT(40)

\* Each step of a process keeps its types.
LEMMA StepProcTypes ==
  ASSUME Types, NEW p \in Procs, Launch(p) \/ Step(p) \/ Interrupt(p) \/ Kill(p)
  PROVE  ProcTypes'
<1> USE DEF Types
<1>0. /\ 1 \in 1..(Len(Keys) + Len(TradeSymbols)) /\ 1 <= Len(Keys) /\ 1 <= Len(TradeSymbols)
      /\ {"off", "lock", "stop", "connect", "pretrade", "reoptimize", "poll", "sync", "symbol", "decide",
          "run", "mark", "due", "review", "persist"} \subseteq Places
      /\ Started(p) \in {"poll", "review"} /\ at[p] \in Nat /\ at[p] >= 1
  <2>1. at[p] \in 1..(Len(Keys) + Len(TradeSymbols))
    BY DEF ProcTypes
  <2> QED
    BY <2>1, Lengths, SMT DEF Places, Alive, Started
<1>1. CASE Launch(p)
  <2>1. PICK d \in Dates : memReview' = [memReview EXCEPT ![p] = d]
    BY <1>1, LastReviewTypes DEF Launch
  <2>2. pc' = [pc EXCEPT ![p] = "lock"] /\ UNCHANGED <<at, latest, strategy, ready>>
    BY <1>1 DEF Launch, Move
  <2>3. at' = [at EXCEPT ![p] = at[p]] /\ at[p] \in 1..(Len(Keys) + Len(TradeSymbols))
    BY <2>2, Same DEF ProcTypes
  <2> QED
    BY <1>0, <2>1, <2>2, <2>3, IndexMoves
<1>2. CASE TakeLock(p) \/ ConnectRaises(p) \/ PollUnconnected(p) \/ Sleep(p)
           \/ PersistRaises(p) \/ Interrupt(p)
  <2>1. UNCHANGED memVars
    BY <1>2, Zenon DEF TakeLock, ConnectRaises, PollUnconnected, Sleep, PersistRaises, Interrupt
  <2>2. PICK to \in {"connect", "stop", "due", "poll"} : pc' = [pc EXCEPT ![p] = to]
    BY <1>2, SMT DEF TakeLock, ConnectRaises, PollUnconnected, Sleep, PersistRaises, Interrupt, Move
  <2> QED
    BY <1>0, <2>1, <2>2, OnlyMoves
<1>3. CASE LockBusy(p) \/ Stop(p) \/ Kill(p)
  BY <1>3, Forgets, Zenon DEF LockBusy, Stop, Kill, Move
<1>4. CASE Connect(p) \/ Poll(p) \/ Sync(p) \/ BeginReview(p)
  <2>1. /\ at' = [at EXCEPT ![p] = 1] /\ UNCHANGED <<latest, strategy, memReview>>
        /\ (ready' = ready \/ \E r \in BOOLEAN : ready' = [ready EXCEPT ![p] = r])
    <3>1. HasAdopted(adopted) \in BOOLEAN
      BY DEF HasAdopted
    <3> QED
      BY <1>4, <3>1, Zenon DEF Connect, Poll, Sync, BeginReview
  <2>2. \E to \in {"pretrade", "poll", "review", "reoptimize", "sync", "symbol"} : pc' = [pc EXCEPT ![p] = to]
    BY <1>0, <1>4, SMT DEF Connect, Poll, Sync, BeginReview, Move
  <2>3. PICK to \in {"pretrade", "poll", "review", "reoptimize", "sync", "symbol"} : pc' = [pc EXCEPT ![p] = to]
    BY <2>2
  <2> QED
    BY <1>0, <2>1, <2>3, IndexMoves
<1>5. CASE OptimizeKey(p) \/ ReviewKey(p) \/ PersistKey(p)
  <2> DEFINE i == IF at[p] = Len(Keys) THEN 1 ELSE at[p] + 1
  <2>1. pc[p] \in {"pretrade", "reoptimize", "review", "persist"}
    BY <1>5, Zenon DEF OptimizeKey, ReviewKey, PersistKey, Move
  <2>2. i \in 1..(Len(Keys) + Len(TradeSymbols)) /\ i <= Len(Keys)
    <3>1. at[p] <= Len(Keys)
      BY <2>1 DEF ProcTypes
    <3> QED
      BY <1>0, <3>1, Lengths, SMT
  <2>3. at' = [at EXCEPT ![p] = i] /\ UNCHANGED <<latest, strategy>>
    BY <1>5, Zenon DEF OptimizeKey, ReviewKey, PersistKey
  <2>4. ready' = ready \/ \E r \in BOOLEAN : ready' = [ready EXCEPT ![p] = r]
    <3>1. HasAdopted(adopted) \in BOOLEAN /\ HasAdopted(adopted') \in BOOLEAN /\ ready[p] \in BOOLEAN
      BY DEF HasAdopted, ProcTypes
    <3>2. CASE OptimizeKey(p)
      BY <3>1, <3>2 DEF OptimizeKey
    <3>3. CASE ReviewKey(p)
      BY <3>3 DEF ReviewKey
    <3>4. CASE PersistKey(p)
      BY <3>1, <3>4 DEF PersistKey
    <3> QED
      BY <1>5, <3>2, <3>3, <3>4
  <2>5. memReview' = memReview \/ \E d \in Dates : memReview' = [memReview EXCEPT ![p] = d]
    <3>1. Date(clock) \in Dates /\ memReview[p] \in Dates
      BY DateTypes DEF WorldTypes, ProcTypes
    <3>2. CASE ReviewKey(p)
      BY <3>1, <3>2 DEF ReviewKey
    <3>3. CASE OptimizeKey(p) \/ PersistKey(p)
      BY <3>3 DEF OptimizeKey, PersistKey
    <3> QED
      BY <1>5, <3>2, <3>3
  <2>6. \E to \in {"pretrade", "reoptimize", "review", "persist", "poll", "sync", "due", "stop"} :
          pc' = [pc EXCEPT ![p] = to]
    BY <1>0, <1>5, <2>1, SMT DEF OptimizeKey, ReviewKey, PersistKey, Move
  <2>7. PICK to \in {"pretrade", "reoptimize", "review", "persist", "poll", "sync", "due", "stop"} :
          pc' = [pc EXCEPT ![p] = to]
    BY <2>6
  <2> HIDE DEF i
  <2> QED
    BY <1>0, <2>2, <2>3, <2>4, <2>5, <2>7, IndexMoves
<1>6. CASE \E b \in 0..MaxBar[Symbol(p)] : LookAt(p, b)
  <2>1. PICK b \in 0..MaxBar[Symbol(p)] : LookAt(p, b)
    BY <1>6
  <2>2. CASE IsNew(Symbol(p), b)
    <3>1. /\ pc' = [pc EXCEPT ![p] = "decide"] /\ latest' = [latest EXCEPT ![p] = b]
          /\ UNCHANGED <<at, strategy, ready, memReview>> /\ pc[p] = "symbol"
      BY <2>1, <2>2 DEF LookAt, Move
    <3>2. /\ at' = [at EXCEPT ![p] = at[p]] /\ strategy' = [strategy EXCEPT ![p] = strategy[p]]
          /\ ready' = [ready EXCEPT ![p] = ready[p]] /\ memReview' = [memReview EXCEPT ![p] = memReview[p]]
          /\ at[p] \in 1..(Len(Keys) + Len(TradeSymbols)) /\ at[p] <= Len(TradeSymbols)
          /\ strategy[p] \in Strategies \cup {None} /\ ready[p] \in BOOLEAN /\ memReview[p] \in Dates
      BY <3>1, Same DEF ProcTypes
    <3>3. Symbol(p) \in Symbols
      BY <1>0, <3>2, Lengths DEF Symbol
    <3>4. b \in Nat /\ b \in 1..MaxBar[Symbol(p)]
      <4>1. MaxBar[Symbol(p)] \in Nat
        BY <3>3, Lengths
      <4> QED
        BY <2>1, <2>2, <4>1, SMT DEF IsNew
    <3>5. "decide" \in Places /\ "decide" \notin {"pretrade", "reoptimize", "review", "persist"}
      BY <1>0
    <3>6. b \in 1..MaxBar[TradeSymbols[at[p]]]
      BY <3>4 DEF Symbol
    <3>7. pc' = [pc EXCEPT ![p] = "decide"] /\ latest' = [latest EXCEPT ![p] = b]
      BY <3>1
    <3> QED
      BY <3>2, <3>4, <3>5, <3>6, <3>7, Moves, Zenon
  <2>3. CASE ~IsNew(Symbol(p), b)
    BY <2>1, <2>3, NextSymbolTypes DEF LookAt
  <2> QED
    BY <2>2, <2>3
<1>7. CASE Look(p) \/ LookUnresolved(p)
  <2>1. pc[p] = "symbol"
    BY <1>7 DEF Look, LookUnresolved, LookAt
  <2>2. Symbol(p) \in Symbols
    <3>1. at[p] <= Len(TradeSymbols)
      BY <2>1 DEF ProcTypes
    <3> QED
      BY <1>0, <3>1, Lengths DEF Symbol
  <2>3. stored[Symbol(p)] \in 0..MaxBar[Symbol(p)]
    BY <2>2 DEF WorldTypes
  <2> QED
    BY <1>6, <1>7, <2>3 DEF Look, LookUnresolved
<1>8. CASE Decide(p)
  <2>1. /\ pc[p] = "decide" /\ pc' = [pc EXCEPT ![p] = "run"]
        /\ UNCHANGED <<at, latest, ready, memReview>>
    BY <1>8 DEF Decide, Move
  <2>2. PICK st \in Strategies : strategy' = [strategy EXCEPT ![p] = st]
    BY <1>8 DEF Decide
  <2>3. /\ at' = [at EXCEPT ![p] = at[p]] /\ latest' = [latest EXCEPT ![p] = latest[p]]
        /\ ready' = [ready EXCEPT ![p] = ready[p]] /\ memReview' = [memReview EXCEPT ![p] = memReview[p]]
        /\ at[p] \in 1..(Len(Keys) + Len(TradeSymbols)) /\ at[p] <= Len(TradeSymbols)
        /\ latest[p] \in Nat /\ latest[p] \in 1..MaxBar[TradeSymbols[at[p]]]
        /\ ready[p] \in BOOLEAN /\ memReview[p] \in Dates
    BY <2>1, Same DEF ProcTypes, Symbol
  <2>4. "run" \in Places /\ "run" \notin {"pretrade", "reoptimize", "review", "persist"}
        /\ st \in Strategies \cup {None}
    BY <1>0
  <2>5. pc' = [pc EXCEPT ![p] = "run"]
    BY <2>1
  <2> QED
    BY <2>2, <2>3, <2>4, <2>5, Moves, Zenon
<1>9. CASE SkipBar(p) \/ DecideRaises(p) \/ RunRaises(p) \/ Mark(p) \/ MarkRaises(p)
  <2>1. NextSymbol(p, {"decide"}) \/ NextSymbol(p, {"run"}) \/ NextSymbol(p, {"mark"})
    BY <1>9, Zenon DEF SkipBar, DecideRaises, RunRaises, Mark, MarkRaises
  <2>2. pc[p] \in {"decide", "run", "mark"}
    BY <2>1 DEF NextSymbol, Move
  <2> QED
    BY <2>1, <2>2, NextSymbolTypes
<1>10. CASE Run(p)
  <2>1. /\ pc[p] = "run" /\ pc' = [pc EXCEPT ![p] = "mark"]
        /\ UNCHANGED <<at, latest, ready, memReview>>
    BY <1>10 DEF Run, Move
  <2>2. PICK st \in Strategies \cup {None} : strategy' = [strategy EXCEPT ![p] = st]
    BY <1>10 DEF Run
  <2>3. /\ at' = [at EXCEPT ![p] = at[p]] /\ latest' = [latest EXCEPT ![p] = latest[p]]
        /\ ready' = [ready EXCEPT ![p] = ready[p]] /\ memReview' = [memReview EXCEPT ![p] = memReview[p]]
        /\ at[p] \in 1..(Len(Keys) + Len(TradeSymbols)) /\ at[p] <= Len(TradeSymbols)
        /\ latest[p] \in Nat /\ latest[p] \in 1..MaxBar[TradeSymbols[at[p]]]
        /\ ready[p] \in BOOLEAN /\ memReview[p] \in Dates
    BY <2>1, Same DEF ProcTypes, Symbol
  <2>4. "mark" \in Places /\ "mark" \notin {"pretrade", "reoptimize", "review", "persist"}
    BY <1>0
  <2>5. pc' = [pc EXCEPT ![p] = "mark"]
    BY <2>1
  <2> QED
    BY <2>2, <2>3, <2>4, <2>5, Moves, Zenon
<1> QED
  BY <1>1, <1>2, <1>3, <1>4, <1>5, <1>7, <1>8, <1>9, <1>10 DEF Step, StartUp, Polling, Running, Reviewing

-----------------------------------------------------------------------------
(* The types of what the processes share                                   *)

\* The faults stay within their bound.
LEMMA FaultTypes ==
  ASSUME WorldTypes, UNCHANGED faultCount \/ \E f \in Faults : Happens(f)
  PROVE  faultCount' \in 0..FaultBound
  BY Lengths, SMT DEF WorldTypes, Happens

\* A process whose place names a symbol works on one, and so on for the stores.
LEMMA ProcTypesAt ==
  ASSUME ProcTypes, NEW p \in Procs
  PROVE  /\ pc[p] \in {"symbol", "decide", "run", "mark"} => Symbol(p) \in Symbols /\ MaxBar[Symbol(p)] \in Nat
         /\ pc[p] \in {"decide", "run", "mark"} => latest[p] \in 1..MaxBar[Symbol(p)] /\ latest[p] \in Nat
         /\ pc[p] \in {"pretrade", "reoptimize", "review", "persist"} => at[p] \in 1..Len(Keys)
<1>1. at[p] \in 1..(Len(Keys) + Len(TradeSymbols))
  BY DEF ProcTypes
<1>2. pc[p] \in {"symbol", "decide", "run", "mark"} => at[p] \in 1..Len(TradeSymbols)
  BY <1>1, Lengths, SMT DEF ProcTypes
<1>3. pc[p] \in {"pretrade", "reoptimize", "review", "persist"} => at[p] \in 1..Len(Keys)
  BY <1>1, Lengths, SMT DEF ProcTypes
<1>4. pc[p] \in {"symbol", "decide", "run", "mark"} => Symbol(p) \in Symbols /\ MaxBar[Symbol(p)] \in Nat
  BY <1>2, Lengths DEF Symbol
<1> QED
  BY <1>3, <1>4 DEF ProcTypes

\* Each step of a process keeps the types of what is shared.
LEMMA StepWorldTypes ==
  ASSUME Types, NEW p \in Procs, Launch(p) \/ Step(p) \/ Interrupt(p) \/ Kill(p)
  PROVE  WorldTypes'
<1> USE DEF Types
<1>1. CASE Launch(p)
  <2>1. launches' \in 0..MaxLaunches
    BY <1>1, Lengths, SMT DEF Launch, WorldTypes
  <2> QED
    BY <1>1, <2>1 DEF Launch, WorldTypes, diskVars, worldVars
<1>2. CASE TakeLock(p) \/ LockBusy(p) \/ Connect(p) \/ Stop(p) \/ Poll(p) \/ Decide(p) \/ Sleep(p)
  <2>1. lock' \in Procs \cup {None}
    BY <1>2, Zenon DEF TakeLock, LockBusy, Connect, Stop, Poll, Decide, Sleep, WorldTypes
  <2>2. UNCHANGED <<diskVars, worldVars, histVars, faultCount>>
    BY <1>2, Zenon DEF TakeLock, LockBusy, Connect, Stop, Poll, Decide, Sleep
  <2> QED
    BY <2>1, <2>2 DEF WorldTypes, diskVars, worldVars, histVars
<1>3. CASE ConnectRaises(p) \/ PollUnconnected(p)
  <2>1. UNCHANGED <<lock, diskVars, worldVars, histVars>> /\ Happens("connect") /\ "connect" \in Faults
    BY <1>3 DEF ConnectRaises, PollUnconnected, Happens
  <2>2. faultCount' \in 0..FaultBound
    BY <2>1, FaultTypes
  <2> QED
    BY <2>1, <2>2 DEF WorldTypes, diskVars, worldVars, histVars
<1>4. CASE OptimizeKey(p)
  <2>1. pc[p] \in {"pretrade", "reoptimize"} /\ UNCHANGED <<lock, reviewed, mark, worldVars, histVars>>
        /\ adopted' \in {adopted, adopted \cup {at[p]}}
    BY <1>4 DEF OptimizeKey, Move
  <2>2. UNCHANGED faultCount \/ \E f \in Faults : Happens(f)
    BY <1>4 DEF OptimizeKey, Happens
  <2>3. faultCount' \in 0..FaultBound /\ adopted' \subseteq 1..Len(Keys)
    BY <2>1, <2>2, FaultTypes, ProcTypesAt DEF WorldTypes
  <2> QED
    BY <2>1, <2>3 DEF WorldTypes, worldVars, histVars
<1>5. CASE Sync(p)
  <2>1. UNCHANGED <<lock, diskVars, now, forming, clock, histVars>>
    BY <1>5 DEF Sync
  <2>2. UNCHANGED faultCount \/ \E f \in Faults : Happens(f)
    BY <1>5 DEF Sync, Happens
  <2>3. \E S : stored' = [s \in Symbols |-> IF s \in S THEN now[s] ELSE stored[s]]
    <3>1. CASE stored' = now
      <4>1. stored' = [s \in Symbols |-> IF s \in Symbols THEN now[s] ELSE stored[s]]
        BY <3>1 DEF WorldTypes
      <4> QED
        BY <4>1
    <3> QED
      BY <1>5, <3>1 DEF Sync
  <2>4. faultCount' \in 0..FaultBound
    BY <2>2, FaultTypes
  <2>5. stored' \in [Symbols -> Nat] /\ \A s \in Symbols : stored'[s] \in 0..MaxBar[s]
    BY <2>3 DEF WorldTypes
  <2> QED
    BY <2>1, <2>4, <2>5 DEF WorldTypes, diskVars, histVars
<1>6. CASE \E b \in 0..MaxBar[Symbol(p)] : LookAt(p, b) /\ faultCount' \in 0..FaultBound
  <2>1. UNCHANGED <<lock, diskVars, worldVars, histVars>>
    BY <1>6, Zenon DEF LookAt, NextSymbol, diskVars, histVars
  <2> QED
    BY <1>6, <2>1 DEF WorldTypes, diskVars, worldVars, histVars
<1>7. CASE Look(p) \/ LookUnresolved(p)
  <2>1. pc[p] = "symbol" /\ (UNCHANGED faultCount \/ \E f \in Faults : Happens(f))
    BY <1>7 DEF Look, LookUnresolved, LookAt, Happens
  <2>2. faultCount' \in 0..FaultBound /\ stored[Symbol(p)] \in 0..MaxBar[Symbol(p)]
    BY <2>1, FaultTypes, ProcTypesAt DEF WorldTypes
  <2> QED
    BY <1>6, <1>7, <2>2 DEF Look, LookUnresolved
<1>8. CASE SkipBar(p) \/ Mark(p)
  <2>1. /\ mark' = [mark EXCEPT ![Symbol(p)] = latest[p]]
        /\ UNCHANGED <<lock, adopted, reviewed, worldVars, histVars, faultCount>>
        /\ pc[p] \in {"decide", "mark"}
    BY <1>8, Zenon DEF SkipBar, Mark, NextSymbol, Move, histVars
  <2>2. Symbol(p) \in Symbols /\ latest[p] \in Nat /\ latest[p] \in 0..MaxBar[Symbol(p)]
    BY <2>1, ProcTypesAt, SMT
  <2>3. mark' \in [Symbols -> Nat] /\ \A s \in Symbols : mark'[s] \in 0..MaxBar[s]
    BY <2>1, <2>2 DEF WorldTypes
  <2> QED
    BY <2>1, <2>3 DEF WorldTypes, worldVars, histVars
<1>9. CASE DecideRaises(p) \/ RunRaises(p) \/ MarkRaises(p) \/ PersistRaises(p) \/ Interrupt(p) \/ Kill(p)
  <2>1. UNCHANGED <<diskVars, worldVars, runs, reviews, launches>>
    BY <1>9, Zenon DEF DecideRaises, RunRaises, MarkRaises, PersistRaises, Interrupt, Kill, NextSymbol, diskVars
  <2>2. UNCHANGED faultCount \/ \E f \in Faults : Happens(f)
    BY <1>9, Zenon DEF DecideRaises, RunRaises, MarkRaises, PersistRaises, Interrupt, Kill, Happens
  <2>3. unrecorded' \in BOOLEAN
    BY <1>9, Zenon DEF DecideRaises, RunRaises, MarkRaises, PersistRaises, Interrupt, Kill, WorldTypes, Unrecorded
  <2>4. lock' \in Procs \cup {None}
    BY <1>9, Zenon DEF DecideRaises, RunRaises, MarkRaises, PersistRaises, Interrupt, Kill, NextSymbol, WorldTypes
  <2>5. faultCount' \in 0..FaultBound
    BY <2>2, FaultTypes
  <2> QED
    BY <2>1, <2>3, <2>4, <2>5 DEF WorldTypes, diskVars, worldVars
<1>10. CASE Run(p)
  <2>1. /\ pc[p] = "run" /\ runs' = [runs EXCEPT ![Symbol(p)][latest[p]] = @ + 1]
        /\ UNCHANGED <<lock, diskVars, stored, now, forming, clock, reviews, unrecorded, launches, faultCount>>
    BY <1>10 DEF Run, Move
  <2>2. Symbol(p) \in Symbols /\ latest[p] \in 1..MaxBar[Symbol(p)]
    BY <2>1, ProcTypesAt
  <2>3. DOMAIN runs' = Symbols /\ \A s \in Symbols : runs'[s] \in [1..MaxBar[s] -> Nat]
    <3> DEFINE f == runs[Symbol(p)]
    <3>1. f \in [1..MaxBar[Symbol(p)] -> Nat]
      BY <2>2 DEF WorldTypes
    <3> HIDE DEF f
    <3>2. [f EXCEPT ![latest[p]] = @ + 1] \in [1..MaxBar[Symbol(p)] -> Nat]
      BY <2>2, <3>1, SMT
    <3>3. runs' = [runs EXCEPT ![Symbol(p)] = [f EXCEPT ![latest[p]] = @ + 1]]
      BY <2>1 DEF f
    <3>4. DOMAIN runs' = Symbols /\ \A s \in Symbols :
             runs'[s] = IF s = Symbol(p) THEN [f EXCEPT ![latest[p]] = @ + 1] ELSE runs[s]
      BY <2>2, <3>3 DEF WorldTypes
    <3> QED
      BY <3>2, <3>4 DEF WorldTypes
  <2> QED
    BY <2>1, <2>3 DEF WorldTypes, diskVars
<1>11. CASE BeginReview(p)
  <2>1. /\ reviews' = [reviews EXCEPT ![Date(clock)] = @ + 1]
        /\ UNCHANGED <<lock, diskVars, worldVars, runs, unrecorded, launches, faultCount>>
    BY <1>11 DEF BeginReview
  <2>2. reviews' \in [Dates -> Nat]
    <3> DEFINE d == Date(clock)
    <3>1. d \in Dates /\ reviews \in [Dates -> Nat] /\ reviews' = [reviews EXCEPT ![d] = @ + 1]
      BY <2>1, DateTypes DEF WorldTypes
    <3> HIDE DEF d
    <3>2. reviews[d] + 1 \in Nat
      BY <3>1, SMT
    <3> QED
      BY <3>1, <3>2
  <2> QED
    BY <2>1, <2>2 DEF WorldTypes, diskVars, worldVars
<1>12. CASE ReviewKey(p) \/ PersistKey(p)
  <2>1. /\ UNCHANGED <<lock, mark, worldVars, histVars, faultCount>>
        /\ pc[p] \in {"review", "persist"}
        /\ adopted' \in {adopted, adopted \cup {at[p]}}
        /\ reviewed' = reviewed \/ reviewed' = [reviewed EXCEPT ![at[p]] = memReview[p]]
    BY <1>12 DEF ReviewKey, PersistKey, Move
  <2>2. at[p] \in 1..Len(Keys) /\ memReview[p] \in Dates
    BY <2>1, ProcTypesAt DEF ProcTypes
  <2> QED
    BY <2>1, <2>2 DEF WorldTypes, worldVars, histVars
<1> QED
  BY <1>1, <1>2, <1>3, <1>4, <1>5, <1>7, <1>8, <1>9, <1>10, <1>11, <1>12
     DEF Step, StartUp, Polling, Running, Reviewing

\* The world keeps the types.
LEMMA WorldStepTypes ==
  ASSUME Types, World
  PROVE  Types'
<1> USE DEF Types
<1>1. UNCHANGED <<pc, memVars, lock, reviewed, mark, stored, histVars, faultCount>>
  BY Zenon DEF World, OpenBar, EndSession, Tick, OptimizeElsewhere, diskVars, worldVars
<1>2. adopted' \subseteq 1..Len(Keys) /\ forming' \in [Symbols -> BOOLEAN] /\ clock' \in 0..MaxClock
      /\ now' \in [Symbols -> Nat]
      /\ \A s \in Symbols : now'[s] \in 0..MaxBar[s]
  <2>1. ASSUME NEW s \in Symbols, OpenBar(s)
        PROVE  <1>2!:
    <3>1. UNCHANGED <<adopted, clock>> /\ now' = [now EXCEPT ![s] = @ + 1]
          /\ forming' = [forming EXCEPT ![s] = TRUE] /\ now[s] < MaxBar[s]
      BY <2>1 DEF OpenBar, diskVars
    <3>2. now[s] \in 0..MaxBar[s] /\ MaxBar[s] \in Nat
      BY Lengths DEF WorldTypes
    <3>3. now[s] + 1 \in 0..MaxBar[s] /\ now[s] + 1 \in Nat
      BY <3>1, <3>2, SMT
    <3> QED
      BY <3>1, <3>3 DEF WorldTypes
  <2>2. ASSUME NEW s \in Symbols, EndSession(s)
        PROVE  <1>2!:
    <3>1. UNCHANGED <<adopted, clock, now>>
      BY <2>2 DEF EndSession, diskVars
    <3>2. forming' \in [Symbols -> BOOLEAN]
      BY <2>2 DEF EndSession, WorldTypes
    <3> QED
      BY <3>1, <3>2 DEF WorldTypes
  <2>3. CASE Tick
    <3>1. clock' \in 0..MaxClock
      BY <2>3, Lengths, SMT DEF Tick, WorldTypes
    <3> QED
      BY <2>3, <3>1 DEF Tick, WorldTypes, diskVars
  <2>4. CASE \E i \in 1..Len(Keys) : OptimizeElsewhere(i)
    BY <2>4 DEF OptimizeElsewhere, WorldTypes, worldVars
  <2> QED
    BY <2>1, <2>2, <2>3, <2>4 DEF World
<1>3. ProcTypes'
  BY <1>1 DEF ProcTypes, Symbol, memVars
<1>4. WorldTypes'
  BY <1>1, <1>2 DEF WorldTypes, histVars
<1> QED
  BY <1>3, <1>4

-----------------------------------------------------------------------------
(* What a step of a process leaves alone                                   *)

\* The step of one process leaves the place and the memory of the others.
LEMMA Others ==
  ASSUME ProcTypes, NEW p \in Procs, Launch(p) \/ Step(p) \/ Interrupt(p) \/ Kill(p)
  PROVE  \A q \in Procs \ {p} : /\ pc'[q] = pc[q] /\ at'[q] = at[q] /\ latest'[q] = latest[q]
                                /\ strategy'[q] = strategy[q] /\ ready'[q] = ready[q]
                                /\ memReview'[q] = memReview[q]
<1> DEFINE Only(f, g) == g = f \/ \E v : g = [f EXCEPT ![p] = v]
<1>2. Only(pc, pc')
  BY Zenon DEF Step, StartUp, Polling, Running, Reviewing, Move, NextSymbol, LookAt,
     Launch, TakeLock, LockBusy, Connect, ConnectRaises, Stop, OptimizeKey, Poll, PollUnconnected, Sync, Look, LookUnresolved, Decide, SkipBar, DecideRaises, Run, RunRaises, Mark, MarkRaises, BeginReview, Sleep, ReviewKey, PersistKey, PersistRaises, Interrupt, Kill
<1>3. Only(at, at') /\ Only(latest, latest') /\ Only(strategy, strategy') /\ Only(ready, ready')
      /\ Only(memReview, memReview')
  BY Zenon DEF Step, StartUp, Polling, Running, Reviewing, Move, NextSymbol, LookAt, Forget, memVars,
     Launch, TakeLock, LockBusy, Connect, ConnectRaises, Stop, OptimizeKey, Poll, PollUnconnected, Sync, Look, LookUnresolved, Decide, SkipBar, DecideRaises, Run, RunRaises, Mark, MarkRaises, BeginReview, Sleep, ReviewKey, PersistKey, PersistRaises, Interrupt, Kill
<1> HIDE DEF Only
<1> SUFFICES ASSUME NEW q \in Procs \ {p}
             PROVE  /\ pc'[q] = pc[q] /\ at'[q] = at[q] /\ latest'[q] = latest[q]
                    /\ strategy'[q] = strategy[q] /\ ready'[q] = ready[q]
                    /\ memReview'[q] = memReview[q]
  OBVIOUS
<1>4. pc'[q] = pc[q]
  BY <1>2 DEF ProcTypes, Only
<1>5. at'[q] = at[q]
  BY <1>3 DEF ProcTypes, Only
<1>6. latest'[q] = latest[q]
  BY <1>3 DEF ProcTypes, Only
<1>7. strategy'[q] = strategy[q]
  BY <1>3 DEF ProcTypes, Only
<1>8. ready'[q] = ready[q]
  BY <1>3 DEF ProcTypes, Only
<1>9. memReview'[q] = memReview[q]
  BY <1>3 DEF ProcTypes, Only
<1> QED
  BY <1>4, <1>5, <1>6, <1>7, <1>8, <1>9

Engaged(p) == pc[p] \notin {"off", "lock"}

\* A step that neither begins nor ends a process leaves the lock with it.
LEMMA StaysEngaged ==
  ASSUME Types, NEW p \in Procs,
         Step(p) \/ Interrupt(p), ~TakeLock(p), ~LockBusy(p), ~Stop(p)
  PROVE  Engaged(p) /\ Engaged(p)' /\ lock' = lock
<1>1. \E from, to : Move(p, from, to) /\ from \cap {"off", "lock"} = {} /\ to \notin {"off", "lock"}
  <2>1. CASE Connect(p) \/ ConnectRaises(p) \/ OptimizeKey(p)
    <3>1. Started(p) \notin {"off", "lock"}
      BY DEF Started
    <3>2. CASE Connect(p)
      BY <3>1, <3>2, SMT DEF Connect
    <3>3. CASE ConnectRaises(p)
      BY <3>3 DEF ConnectRaises
    <3>4. CASE OptimizeKey(p)
      <4>1. pc[p] \in {"pretrade", "reoptimize"}
        BY <3>4 DEF OptimizeKey, Move
      <4> QED
        BY <3>1, <3>4, <4>1 DEF OptimizeKey
    <3> QED
      BY <2>1, <3>2, <3>3, <3>4
  <2>2. CASE Poll(p) \/ PollUnconnected(p) \/ Sync(p) \/ Decide(p) \/ Run(p) \/ BeginReview(p) \/ Sleep(p)
             \/ PersistRaises(p)
    <3>1. CASE Poll(p)
      BY <3>1, SMT DEF Poll
    <3>2. CASE PollUnconnected(p) \/ Sync(p) \/ Decide(p)
      BY <3>2 DEF PollUnconnected, Sync, Decide
    <3>3. CASE Run(p) \/ BeginReview(p)
      BY <3>3 DEF Run, BeginReview
    <3>4. CASE Sleep(p) \/ PersistRaises(p)
      BY <3>4 DEF Sleep, PersistRaises
    <3> QED
      BY <2>2, <3>1, <3>2, <3>3, <3>4
  <2>3. ASSUME NEW from, NextSymbol(p, from), from \cap {"off", "lock"} = {}
        PROVE  <1>1!:
    BY <2>3, SMT DEF NextSymbol
  <2>4. CASE Look(p) \/ LookUnresolved(p)
    <3>1. PICK b : LookAt(p, b)
      BY <2>4 DEF Look, LookUnresolved
    <3>2. Move(p, {"symbol"}, "decide") \/ NextSymbol(p, {"symbol"})
      BY <3>1 DEF LookAt
    <3> QED
      BY <2>3, <3>2
  <2>5. CASE SkipBar(p) \/ DecideRaises(p) \/ RunRaises(p) \/ Mark(p) \/ MarkRaises(p)
    <3>1. NextSymbol(p, {"decide"}) \/ NextSymbol(p, {"run"}) \/ NextSymbol(p, {"mark"})
      BY <2>5, Zenon DEF SkipBar, DecideRaises, RunRaises, Mark, MarkRaises
    <3> QED
      BY <2>3, <3>1
  <2>6. CASE ReviewKey(p) \/ PersistKey(p)
    <3>1. CASE ReviewKey(p)
      BY <3>1, SMT DEF ReviewKey
    <3>2. CASE PersistKey(p)
      BY <3>2, SMT DEF PersistKey
    <3> QED
      BY <2>6, <3>1, <3>2
  <2>7. CASE Interrupt(p)
    BY <2>7 DEF Interrupt, Alive
  <2> QED
    BY <2>1, <2>2, <2>4, <2>5, <2>6, <2>7 DEF Step, StartUp, Polling, Running, Reviewing
<1>2. Engaged(p) /\ Engaged(p)'
  BY <1>1 DEF Move, Engaged, Types, ProcTypes
<1>3. lock' = lock
  BY Zenon DEF Step, StartUp, Polling, Running, Reviewing, NextSymbol, LookAt, Connect, ConnectRaises,
     OptimizeKey, Poll, PollUnconnected, Sync, Look, LookUnresolved, Decide, SkipBar, DecideRaises, Run,
     RunRaises, Mark, MarkRaises, BeginReview, Sleep, ReviewKey, PersistKey, PersistRaises, Interrupt
<1> QED
  BY <1>2, <1>3

\* "Exclusive process lock so only one resident loop may run": every step keeps it.
LEMMA OneEngineKeeps ==
  ASSUME Types, OneEngine, NEW p \in Procs, Launch(p) \/ Step(p) \/ Interrupt(p) \/ Kill(p)
  PROVE  OneEngine'
<1>1. \A q \in Procs \ {p} : Engaged(q)' <=> Engaged(q)
  BY Others DEF Types, Engaged
<1>2. Engaged(p)' <=> lock' = p
  <2>1. CASE Launch(p)
    BY <2>1 DEF Launch, Move, Engaged, OneEngine, Types, ProcTypes
  <2>2. CASE TakeLock(p) \/ LockBusy(p)
    BY <2>2, Lengths DEF TakeLock, LockBusy, Move, Engaged, OneEngine, Types, ProcTypes
  <2>3. CASE Stop(p)
    BY <2>3, Lengths DEF Stop, Move, Engaged, Types, ProcTypes
  <2>4. CASE Kill(p)
    BY <2>4, Lengths DEF Kill, Move, Engaged, Types, ProcTypes
  <2>5. CASE (Step(p) \/ Interrupt(p)) /\ ~TakeLock(p) /\ ~LockBusy(p) /\ ~Stop(p)
    BY <2>5, StaysEngaged DEF OneEngine, Engaged
  <2> QED
    BY <2>1, <2>2, <2>3, <2>4, <2>5
<1>3. \A q \in Procs \ {p} : lock' = q <=> lock = q
  <2>1. CASE Launch(p) \/ LockBusy(p)
    BY <2>1 DEF Launch, LockBusy
  <2>2. CASE TakeLock(p)
    BY <2>2, Lengths DEF TakeLock
  <2>3. CASE Stop(p)
    BY <2>3, Lengths DEF Stop, Move, OneEngine
  <2>4. CASE Kill(p)
    BY <2>4, Lengths DEF Kill
  <2>5. CASE (Step(p) \/ Interrupt(p)) /\ ~TakeLock(p) /\ ~LockBusy(p) /\ ~Stop(p)
    BY <2>5, StaysEngaged
  <2> QED
    BY <2>1, <2>2, <2>3, <2>4, <2>5
<1>4. \A q \in Procs \ {p} : Engaged(q)' <=> lock' = q
  BY <1>1, <1>3 DEF OneEngine, Engaged
<1> QED
  BY <1>2, <1>4 DEF OneEngine, Engaged

-----------------------------------------------------------------------------
(* Bars and parameters                                                     *)

\* The bar a process works on is newer than the one recorded for its symbol.
Ahead == \A p \in Procs : pc[p] \in {"decide", "run", "mark"} => mark[Symbol(p)] < latest[p]

InHand(s, b) == \E p \in Procs : pc[p] = "mark" /\ Symbol(p) = s /\ latest[p] = b

\* A bar that has been run is recorded or about to be.
Recorded ==
    ~unrecorded =>
        \A s \in Symbols : \A b \in 1..MaxBar[s] :
            runs[s][b] <= 1 /\ (runs[s][b] > 0 => mark[s] >= b \/ InHand(s, b))

Trading == {"sync", "symbol", "decide", "run", "mark"}

\* Readiness that is cached, or that has led to where a process stands, is still true.
Ready ==
    \A p \in Procs :
        /\ ready[p] => HasAdopted(adopted)
        /\ RequireAdopted /\ pc[p] \in Trading => HasAdopted(adopted)
        /\ pc[p] = "run" => KeyAdopted(Symbol(p), strategy[p])

\* While one process is past the lock, no other is.
LEMMA Sole ==
  ASSUME OneEngine, NEW p \in Procs, Engaged(p), NEW q \in Procs \ {p}
  PROVE  pc[q] \in {"off", "lock"}
  BY DEF OneEngine, Engaged

\* The five steps of a process that touch a bar, and what all the others leave alone.
LEMMA BarSteps ==
  ASSUME Types, NEW p \in Procs, Launch(p) \/ Step(p) \/ Interrupt(p) \/ Kill(p)
  PROVE  \/ \E b : LookAt(p, b)
         \/ Decide(p) \/ Run(p)
         \/ SkipBar(p)
         \/ Mark(p)
         \/ /\ mark' = mark /\ runs' = runs
            /\ pc'[p] \notin {"decide", "run", "mark"}
            /\ pc[p] = "mark" => unrecorded'
            /\ unrecorded => unrecorded'
<1> DEFINE Leaves == /\ mark' = mark /\ runs' = runs
                     /\ pc'[p] \notin {"decide", "run", "mark"}
                     /\ pc[p] = "mark" => unrecorded'
                     /\ unrecorded => unrecorded'
<1>0. pc \in [Procs -> Places]
  BY DEF Types, ProcTypes
<1>1. CASE Launch(p) \/ TakeLock(p) \/ LockBusy(p) \/ ConnectRaises(p) \/ Stop(p) \/ PollUnconnected(p)
           \/ Sync(p) \/ BeginReview(p) \/ Sleep(p)
  <2>1. CASE Launch(p) \/ TakeLock(p) \/ LockBusy(p) \/ ConnectRaises(p)
    BY <2>1, <1>0, SMT DEF Launch, TakeLock, LockBusy, ConnectRaises, Move, diskVars, histVars
  <2>2. CASE Stop(p) \/ PollUnconnected(p) \/ Sync(p)
    BY <2>2, <1>0, SMT DEF Stop, PollUnconnected, Sync, Move, diskVars, histVars
  <2>3. CASE BeginReview(p) \/ Sleep(p)
    BY <2>3, <1>0, SMT DEF BeginReview, Sleep, Move, diskVars, histVars
  <2> QED
    BY <1>1, <2>1, <2>2, <2>3
<1>2. CASE Connect(p) \/ Poll(p) \/ OptimizeKey(p) \/ ReviewKey(p) \/ PersistKey(p)
  <2>1. Started(p) \in {"poll", "review"}
    BY DEF Started
  <2>2. mark' = mark /\ runs' = runs /\ unrecorded' = unrecorded
    BY <1>2, Zenon DEF Connect, Poll, OptimizeKey, ReviewKey, PersistKey, diskVars, histVars
  <2>3. pc'[p] \notin {"decide", "run", "mark"} /\ pc[p] # "mark"
    <3>1. CASE Connect(p)
      BY <2>1, <3>1, <1>0, SMT DEF Connect, Move
    <3>2. CASE Poll(p)
      BY <3>2, <1>0, SMT DEF Poll, Move
    <3>3. CASE OptimizeKey(p)
      <4>1. pc[p] \in {"pretrade", "reoptimize"}
        BY <3>3 DEF OptimizeKey, Move
      <4> QED
        BY <2>1, <3>3, <4>1, <1>0, SMT DEF OptimizeKey, Move
    <3>4. CASE ReviewKey(p) \/ PersistKey(p)
      BY <3>4, <1>0, SMT DEF ReviewKey, PersistKey, Move
    <3> QED
      BY <1>2, <3>1, <3>2, <3>3, <3>4
  <2> QED
    BY <2>2, <2>3
<1>3. CASE DecideRaises(p) \/ RunRaises(p) \/ MarkRaises(p)
  <2>1. mark' = mark /\ runs' = runs
    BY <1>3, Zenon DEF DecideRaises, RunRaises, MarkRaises
  <2>2. pc'[p] \notin {"decide", "run", "mark"}
    <3>1. \E from : NextSymbol(p, from)
      BY <1>3, Zenon DEF DecideRaises, RunRaises, MarkRaises
    <3> QED
      BY <3>1, <1>0, SMT DEF NextSymbol, Move
  <2>3. pc[p] = "mark" => unrecorded'
    BY <1>3, SMT DEF DecideRaises, RunRaises, MarkRaises, NextSymbol, Move
  <2>4. unrecorded => unrecorded'
    BY <1>3, Zenon DEF DecideRaises, RunRaises, MarkRaises
  <2> QED
    BY <2>1, <2>2, <2>3, <2>4
<1>4. CASE PersistRaises(p) \/ Interrupt(p) \/ Kill(p)
  <2>1. mark' = mark /\ runs' = runs /\ unrecorded' = (unrecorded \/ Unrecorded(p))
    BY <1>4, Zenon DEF PersistRaises, Interrupt, Kill, diskVars
  <2>2. pc'[p] \in {"stop", "off"}
    BY <1>0, <1>4, SMT DEF PersistRaises, Interrupt, Kill, Move
  <2> QED
    BY <2>1, <2>2 DEF Unrecorded
<1>5. CASE Leaves
  BY <1>5 DEF Types, ProcTypes
<1>6. CASE Look(p) \/ LookUnresolved(p)
  BY <1>6 DEF Look, LookUnresolved
<1> HIDE DEF Leaves
<1> QED
  BY <1>1, <1>2, <1>3, <1>4, <1>5, <1>6, Zenon DEF Step, StartUp, Polling, Running, Reviewing

\* Where the five steps lead, and what they do to the process that takes them.
LEMMA BarMoves ==
  ASSUME Types, NEW p \in Procs
  PROVE  /\ \A b : LookAt(p, b) =>
              /\ mark' = mark /\ runs' = runs /\ unrecorded' = unrecorded /\ pc[p] = "symbol"
              /\ \/ pc'[p] \in {"due", "symbol"}
                 \/ pc'[p] = "decide" /\ at' = at /\ latest'[p] = b /\ IsNew(Symbol(p), b)
         /\ Decide(p) => /\ mark' = mark /\ runs' = runs /\ unrecorded' = unrecorded
                         /\ pc[p] = "decide" /\ pc'[p] = "run" /\ at' = at /\ latest' = latest
         /\ Run(p) => /\ mark' = mark /\ unrecorded' = unrecorded /\ at' = at /\ latest' = latest
                      /\ pc[p] = "run" /\ pc'[p] = "mark"
                      /\ runs' = [runs EXCEPT ![Symbol(p)][latest[p]] = @ + 1]
         /\ SkipBar(p) \/ Mark(p) =>
              /\ mark' = [mark EXCEPT ![Symbol(p)] = latest[p]]
              /\ runs' = runs /\ unrecorded' = unrecorded
              /\ pc[p] \in {"decide", "mark"} /\ pc'[p] \in {"due", "symbol"}
         /\ SkipBar(p) => pc[p] = "decide"
<1>0. pc \in [Procs -> Places] /\ latest \in [Procs -> Nat]
  BY DEF Types, ProcTypes
<1>1. ASSUME NEW b, LookAt(p, b)
      PROVE  /\ mark' = mark /\ runs' = runs /\ unrecorded' = unrecorded /\ pc[p] = "symbol"
             /\ \/ pc'[p] \in {"due", "symbol"}
                \/ pc'[p] = "decide" /\ at' = at /\ latest'[p] = b /\ IsNew(Symbol(p), b)
  <2>1. mark' = mark /\ runs' = runs /\ unrecorded' = unrecorded /\ pc[p] = "symbol"
    BY <1>1, Zenon DEF LookAt, diskVars, histVars
  <2>2. CASE NextSymbol(p, {"symbol"})
    BY <1>0, <2>1, <2>2, SMT DEF NextSymbol, Move
  <2>3. CASE /\ IsNew(Symbol(p), b) /\ Move(p, {"symbol"}, "decide")
             /\ latest' = [latest EXCEPT ![p] = b] /\ at' = at
    BY <1>0, <2>1, <2>3, SMT DEF Move
  <2> QED
    BY <1>1, <2>2, <2>3 DEF LookAt
<1>2. Decide(p) => /\ mark' = mark /\ runs' = runs /\ unrecorded' = unrecorded
                   /\ pc[p] = "decide" /\ pc'[p] = "run" /\ at' = at /\ latest' = latest
  BY <1>0, SMT DEF Decide, Move, diskVars, histVars
<1>3. Run(p) => /\ mark' = mark /\ unrecorded' = unrecorded /\ at' = at /\ latest' = latest
                /\ pc[p] = "run" /\ pc'[p] = "mark"
                /\ runs' = [runs EXCEPT ![Symbol(p)][latest[p]] = @ + 1]
  BY <1>0, SMT DEF Run, Move, diskVars, memVars
<1>4. SkipBar(p) \/ Mark(p) =>
        /\ mark' = [mark EXCEPT ![Symbol(p)] = latest[p]]
        /\ runs' = runs /\ unrecorded' = unrecorded
        /\ pc[p] \in {"decide", "mark"} /\ pc'[p] \in {"due", "symbol"}
  BY <1>0, SMT DEF SkipBar, Mark, NextSymbol, Move
<1>5. SkipBar(p) => pc[p] = "decide"
  BY Zenon DEF SkipBar, NextSymbol, Move
<1> QED
  BY <1>1, <1>2, <1>3, <1>4, <1>5, Zenon

\* A process keeps ahead of what is recorded: a bar is looked at when it is newer,
\* and nobody else records meanwhile.
LEMMA AheadKeeps ==
  ASSUME Types, OneEngine, Ahead, NEW p \in Procs, Launch(p) \/ Step(p) \/ Interrupt(p) \/ Kill(p)
  PROVE  Ahead'
<1> SUFFICES ASSUME NEW q \in Procs, pc'[q] \in {"decide", "run", "mark"}
             PROVE  mark'[TradeSymbols[at'[q]]] < latest'[q]
  BY DEF Ahead, Symbol
<1>1. CASE SkipBar(p) \/ Mark(p)
  <2>1. pc[p] \in {"decide", "mark"} /\ pc'[p] \in {"due", "symbol"}
    BY <1>1, BarMoves
  <2>2. q # p
    BY <2>1
  <2>3. pc[q] \in {"off", "lock"} /\ pc'[q] = pc[q]
    BY <2>1, <2>2, Sole, Others DEF Types, Engaged
  <2> QED
    BY <2>3
<1>2. CASE mark' = mark /\ q # p
  BY <1>2, Others DEF Types, Ahead, Symbol
<1>3. CASE \E b : LookAt(p, b)
  <2>1. PICK b : LookAt(p, b)
    BY <1>3
  <2>2. CASE q = p
    BY <2>1, <2>2, BarMoves DEF IsNew, Symbol
  <2> QED
    BY <1>2, <2>1, <2>2, BarMoves
<1>4. CASE Decide(p) \/ Run(p)
  <2>1. CASE q = p
    BY <1>4, <2>1, BarMoves DEF Ahead, Symbol
  <2> QED
    BY <1>2, <1>4, <2>1, BarMoves
<1>5. CASE mark' = mark /\ pc'[p] \notin {"decide", "run", "mark"}
  BY <1>2, <1>5
<1> QED
  BY <1>1, <1>3, <1>4, <1>5, BarSteps

\* What has been run and is recorded or in hand stays so.
LEMMA RecordedKeeps ==
  ASSUME Types, OneEngine, Ahead, Recorded, NEW p \in Procs,
         Launch(p) \/ Step(p) \/ Interrupt(p) \/ Kill(p)
  PROVE  Recorded'
<1> SUFFICES ASSUME ~unrecorded', NEW s \in Symbols, NEW b \in 1..MaxBar[s]
             PROVE  runs'[s][b] <= 1 /\ (runs'[s][b] > 0 => mark'[s] >= b \/ InHand(s, b)')
  BY DEF Recorded
<1>1. unrecorded => unrecorded'
  BY BarSteps, BarMoves
<1>2. runs[s][b] <= 1 /\ (runs[s][b] > 0 => mark[s] >= b \/ InHand(s, b))
  BY <1>1 DEF Recorded
<1>3. runs[s][b] \in Nat /\ mark[s] \in Nat /\ b \in Nat
  <2>1. MaxBar[s] \in Nat
    BY Lengths
  <2> QED
    BY <2>1 DEF Types, WorldTypes
<1>4. CASE runs' = runs /\ mark' = mark /\ pc[p] # "mark"
  <2>1. ASSUME NEW q \in Procs, pc[q] = "mark", Symbol(q) = s, latest[q] = b
        PROVE  InHand(s, b)'
    <3>1. q # p
      BY <1>4, <2>1
    <3> QED
      BY <2>1, <3>1, Others DEF Types, InHand, Symbol
  <2> QED
    BY <1>2, <1>4, <2>1 DEF InHand
<1>5. CASE SkipBar(p) \/ Mark(p)
  <2>1. /\ mark' = [mark EXCEPT ![Symbol(p)] = latest[p]] /\ runs' = runs
        /\ pc[p] \in {"decide", "mark"}
    BY <1>5, BarMoves
  <2>2. mark[Symbol(p)] < latest[p] /\ Symbol(p) \in Symbols /\ latest[p] \in Nat
    BY <2>1, ProcTypesAt DEF Ahead, Types, ProcTypes
  <2>3. mark \in [Symbols -> Nat]
    BY DEF Types, WorldTypes
  <2>4. mark'[s] >= mark[s]
    BY <2>1, <2>2, <2>3, SMT
  <2>5. mark'[s] \in Nat
    BY <2>1, <2>2, <2>3
  <2>6. InHand(s, b) => mark'[s] >= b
    <3> SUFFICES ASSUME NEW q \in Procs, pc[q] = "mark", Symbol(q) = s, latest[q] = b
                 PROVE  mark'[s] >= b
      BY DEF InHand
    <3>1. q = p
      BY <2>1, Sole DEF Engaged
    <3> QED
      BY <1>3, <2>1, <2>3, <3>1, SMT
  <2> QED
    BY <1>2, <1>3, <2>1, <2>4, <2>5, <2>6, SMT
<1>6. CASE Run(p)
  <2>1. /\ mark' = mark /\ at' = at /\ latest' = latest /\ pc[p] = "run" /\ pc'[p] = "mark"
        /\ runs' = [runs EXCEPT ![Symbol(p)][latest[p]] = @ + 1]
    BY <1>6, BarMoves
  <2>2. ~InHand(s, b)
    BY <2>1, Sole DEF InHand, Engaged
  <2>3. CASE s = Symbol(p) /\ b = latest[p]
    <3>1. mark[s] < b
      BY <2>1, <2>3 DEF Ahead
    <3>2. runs[s][b] = 0
      BY <1>2, <1>3, <2>2, <3>1, SMT
    <3>3. runs'[s][b] = runs[s][b] + 1
      BY <2>1, <2>3 DEF Types, WorldTypes
    <3>4. InHand(s, b)'
      BY <2>1, <2>3 DEF InHand, Symbol
    <3> QED
      BY <3>2, <3>3, <3>4
  <2>4. CASE ~(s = Symbol(p) /\ b = latest[p])
    <3>1. runs'[s][b] = runs[s][b]
      BY <2>1, <2>4 DEF Types, WorldTypes
    <3> QED
      BY <1>2, <2>1, <2>2, <3>1
  <2> QED
    BY <2>3, <2>4
<1>7. CASE (\E c : LookAt(p, c)) \/ Decide(p)
  BY <1>4, <1>7, BarMoves
<1> QED
  BY <1>4, <1>5, <1>6, <1>7, BarSteps

\* Adopted parameters are not taken back, and what they allow stays allowed.
LEMMA AdoptedGrows ==
  ASSUME Types, adopted \subseteq adopted'
  PROVE  /\ HasAdopted(adopted) => HasAdopted(adopted')
         /\ \A s, st : KeyAdopted(s, st) => KeyAdopted(s, st)'
  BY DEF HasAdopted, KeyAdopted

\* Readiness is read from the stores, and a poll goes past it only where it holds.
LEMMA ReadyKeeps ==
  ASSUME Types, Ready, NEW p \in Procs, Launch(p) \/ Step(p) \/ Interrupt(p) \/ Kill(p)
  PROVE  Ready'
<1>0. pc \in [Procs -> Places] /\ ready \in [Procs -> BOOLEAN] /\ strategy \in [Procs -> Strategies \cup {None}]
  BY DEF Types, ProcTypes
<1>1. adopted \subseteq adopted'
  BY Zenon DEF Step, StartUp, Polling, Running, Reviewing, NextSymbol, LookAt, Launch, TakeLock, LockBusy,
     Connect, ConnectRaises, Stop, OptimizeKey, Poll, PollUnconnected, Sync, Look, LookUnresolved, Decide,
     SkipBar, DecideRaises, Run, RunRaises, Mark, MarkRaises, BeginReview, Sleep, ReviewKey, PersistKey,
     PersistRaises, Interrupt, Kill, diskVars
<1>2. /\ HasAdopted(adopted) => HasAdopted(adopted')
      /\ \A s, st : KeyAdopted(s, st) => KeyAdopted(s, st)'
  BY <1>1, AdoptedGrows
<1>3. ASSUME NEW q \in Procs \ {p}
      PROVE  /\ ready'[q] => HasAdopted(adopted')
             /\ RequireAdopted /\ pc'[q] \in Trading => HasAdopted(adopted')
             /\ pc'[q] = "run" => KeyAdopted(Symbol(q), strategy[q])' 
  BY <1>2, Others DEF Types, Ready, Symbol
<1>4. /\ ready'[p] => HasAdopted(adopted')
      /\ RequireAdopted /\ pc'[p] \in Trading => HasAdopted(adopted')
      /\ pc'[p] = "run" => KeyAdopted(Symbol(p), strategy[p])'
  <2>1. CASE Launch(p) \/ TakeLock(p) \/ LockBusy(p) \/ ConnectRaises(p) \/ Stop(p) \/ PollUnconnected(p)
             \/ BeginReview(p) \/ Sleep(p) \/ ReviewKey(p) \/ PersistRaises(p) \/ Interrupt(p) \/ Kill(p)
    <3>1. ready' = ready \/ ready' = [ready EXCEPT ![p] = FALSE]
      BY <2>1, Zenon DEF Launch, TakeLock, LockBusy, ConnectRaises, Stop, PollUnconnected, BeginReview,
         Sleep, ReviewKey, PersistRaises, Interrupt, Kill, Forget, memVars
    <3>2. pc'[p] \in {"lock", "connect", "off", "stop", "due", "review", "poll", "persist"}
      <4>1. CASE Launch(p) \/ TakeLock(p) \/ LockBusy(p) \/ ConnectRaises(p) \/ Stop(p) \/ PollUnconnected(p)
        BY <1>0, <4>1, SMT DEF Launch, TakeLock, LockBusy, ConnectRaises, Stop, PollUnconnected, Move
      <4>2. CASE BeginReview(p) \/ Sleep(p) \/ ReviewKey(p) \/ PersistRaises(p) \/ Interrupt(p) \/ Kill(p)
        BY <1>0, <4>2, SMT DEF BeginReview, Sleep, ReviewKey, PersistRaises, Interrupt, Kill, Move
      <4> QED
        BY <2>1, <4>1, <4>2
    <3> QED
      BY <1>0, <1>2, <3>1, <3>2 DEF Ready, Trading
  <2>2. CASE Connect(p)
    <3>1. pc'[p] \in {"pretrade", "poll", "review"} /\ ready'[p] = HasAdopted(adopted) /\ adopted' = adopted
      BY <1>0, <2>2, SMT DEF Connect, Move, Started, diskVars
    <3> QED
      BY <3>1 DEF Trading
  <2>3. CASE OptimizeKey(p)
    <3> DEFINE done == HasAdopted(adopted')
    <3>1. /\ pc[p] \in {"pretrade", "reoptimize"}
          /\ pc'[p] \in {"pretrade", "reoptimize", "poll", "review", "due"} \/ (pc'[p] = "sync" /\ done)
          /\ ready'[p] = done \/ ready'[p] = ready[p]
      <4> HIDE DEF done
      <4>1. /\ pc[p] \in {"pretrade", "reoptimize"}
            /\ \/ pc'[p] = pc[p]
               \/ pc'[p] = IF pc[p] = "pretrade" THEN Started(p) ELSE IF done THEN "sync" ELSE "due"
        BY <1>0, <2>3 DEF OptimizeKey, Move, done
      <4>2. ready'[p] = done \/ ready'[p] = ready[p]
        BY <1>0, <2>3 DEF OptimizeKey, done
      <4> QED
        BY <4>1, <4>2, SMT DEF Started
    <3> QED
      BY <1>2, <3>1 DEF Ready, Trading
  <2>4. CASE PersistKey(p)
    <3>1. pc'[p] \in {"persist", "poll", "stop"} /\ adopted' = adopted
      BY <1>0, <2>4, SMT DEF PersistKey, Move
    <3>2. ready'[p] = HasAdopted(adopted) \/ ready'[p] = ready[p]
      BY <1>0, <2>4 DEF PersistKey
    <3> QED
      BY <3>1, <3>2 DEF Ready, Trading
  <2>5. CASE Poll(p)
    <3>1. /\ pc'[p] \in {"reoptimize", "sync"} /\ ready' = ready /\ adopted' = adopted
          /\ RequireAdopted /\ pc'[p] = "sync" => ready[p]
      BY <1>0, <2>5, SMT DEF Poll, Move, diskVars
    <3> QED
      BY <3>1 DEF Ready, Trading
  <2>6. CASE /\ pc[p] \in Trading /\ pc'[p] \in {"symbol", "due", "decide", "mark"} /\ ready' = ready
    BY <1>2, <2>6 DEF Ready
  <2>7. ASSUME NEW from, NextSymbol(p, from), from \subseteq Trading
        PROVE  pc[p] \in Trading /\ pc'[p] \in {"symbol", "due", "decide", "mark"} /\ ready' = ready
    BY <1>0, <2>7, SMT DEF NextSymbol, Move
  <2>8. CASE Sync(p) \/ Run(p)
    BY <1>0, <2>6, <2>8 DEF Sync, Run, Move, memVars, Trading
  <2>9. CASE Look(p) \/ LookUnresolved(p)
    <3>1. PICK b : LookAt(p, b)
      BY <2>9 DEF Look, LookUnresolved
    <3>2. NextSymbol(p, {"symbol"}) \/ (Move(p, {"symbol"}, "decide") /\ ready' = ready)
      BY <3>1 DEF LookAt
    <3> QED
      BY <1>0, <2>6, <2>7, <3>2 DEF Move, Trading
  <2>10. CASE SkipBar(p) \/ DecideRaises(p) \/ RunRaises(p) \/ Mark(p) \/ MarkRaises(p)
    <3>1. NextSymbol(p, {"decide"}) \/ NextSymbol(p, {"run"}) \/ NextSymbol(p, {"mark"})
      BY <2>10, Zenon DEF SkipBar, DecideRaises, RunRaises, Mark, MarkRaises
    <3> QED
      BY <2>6, <2>7, <3>1 DEF Trading
  <2>11. CASE Decide(p)
    <3>1. /\ pc[p] = "decide" /\ pc'[p] = "run" /\ UNCHANGED <<at, ready, adopted>>
          /\ KeyAdopted(Symbol(p), strategy'[p])
      BY <1>0, <2>11 DEF Decide, Move, diskVars
    <3>2. KeyAdopted(Symbol(p), strategy[p])'
      BY <3>1 DEF KeyAdopted, Symbol
    <3> QED
      BY <1>2, <3>1, <3>2 DEF Ready, Trading
  <2> QED
    BY <2>1, <2>2, <2>3, <2>4, <2>5, <2>8, <2>9, <2>10, <2>11, Zenon
       DEF Step, StartUp, Polling, Running, Reviewing
<1> QED
  BY <1>3, <1>4 DEF Ready, Trading

\* The world adds bars, time and parameters, and takes nothing back.
LEMMA WorldKeeps ==
  ASSUME Types, OneEngine, Ahead, Recorded, Ready, World
  PROVE  OneEngine' /\ Ahead' /\ Recorded' /\ Ready'
<1>1. UNCHANGED <<pc, memVars, lock, mark, histVars>> /\ adopted \subseteq adopted'
  BY Zenon DEF World, OpenBar, EndSession, Tick, OptimizeElsewhere, diskVars, worldVars
<1>2. OneEngine' /\ Ahead' /\ Recorded'
  BY <1>1 DEF OneEngine, Ahead, Recorded, InHand, Symbol, memVars, histVars
<1>3. Ready'
  BY <1>1, AdoptedGrows DEF Ready, Symbol, memVars
<1> QED
  BY <1>2, <1>3

-----------------------------------------------------------------------------
(* The weekly review                                                       *)

\* What has been reviewed is never of the future: neither on disk nor in a memory
\* nor in the history.  While a review is written, no store has a newer date.
Past ==
    /\ \A i \in 1..Len(Keys) : reviewed[i] <= Date(clock)
    /\ \A p \in Procs : /\ memReview[p] <= Date(clock)
                        /\ pc[p] = "persist" => \A i \in 1..Len(Keys) : reviewed[i] <= memReview[p]
    /\ \A d \in Dates : reviews[d] > 0 => d <= Date(clock)

\* A review that has begun is on disk, or it is going on and will be.
OnItsWay(d) ==
    \/ \E i \in 1..Len(Keys) : reviewed[i] >= d
    \/ \E p \in Procs : pc[p] = "review"
    \/ \E p \in Procs : pc[p] = "persist" /\ at[p] = 1 /\ memReview[p] >= d

Filed ==
    ~unrecorded => \A d \in Dates : reviews[d] <= 1 /\ (reviews[d] > 0 => OnItsWay(d))

\* Dates are numbers and grow with the clock.
LEMMA DateGrows ==
  ASSUME NEW c \in 0..MaxClock
  PROVE  /\ Date(c) \in Nat /\ Dates \subseteq Nat
         /\ Date(c) <= Date(c + 1)
<1>1. Date(c) \in Nat /\ Date(c) <= Date(c + 1)
  BY Lengths, SMT DEF Date
<1> QED
  BY <1>1 DEF Dates

\* Three steps touch the review; every other one of a process leaves the dates
\* alone, and what it takes away from a review on its way it gives up for good.
LEMMA ReviewSteps ==
  ASSUME Types, NEW p \in Procs, Launch(p) \/ Step(p) \/ Interrupt(p) \/ Kill(p)
  PROVE  /\ clock' = clock /\ (unrecorded => unrecorded')
         /\ \/ BeginReview(p) \/ ReviewKey(p) \/ PersistKey(p)
            \/ /\ reviewed' = reviewed /\ reviews' = reviews
               /\ memReview'[p] \in {memReview[p], 0, LastReview}
               /\ pc'[p] # "persist"
               /\ pc[p] = "review" \/ (pc[p] = "persist" /\ at[p] = 1) => unrecorded'
<1> DEFINE Apart == /\ reviewed' = reviewed /\ reviews' = reviews
                    /\ memReview'[p] \in {memReview[p], 0, LastReview}
                    /\ pc'[p] # "persist"
                    /\ pc[p] = "review" \/ (pc[p] = "persist" /\ at[p] = 1) => unrecorded'
<1>0. pc \in [Procs -> Places] /\ memReview \in [Procs -> Dates]
  BY DEF Types, ProcTypes
<1>1. clock' = clock
  BY Zenon DEF Step, StartUp, Polling, Running, Reviewing, NextSymbol, LookAt, Launch, TakeLock, LockBusy,
     Connect, ConnectRaises, Stop, OptimizeKey, Poll, PollUnconnected, Sync, Look, LookUnresolved, Decide,
     SkipBar, DecideRaises, Run, RunRaises, Mark, MarkRaises, BeginReview, Sleep, ReviewKey, PersistKey,
     PersistRaises, Interrupt, Kill, worldVars
<1>2. unrecorded => unrecorded'
  BY Zenon DEF Step, StartUp, Polling, Running, Reviewing, NextSymbol, LookAt, Launch, TakeLock, LockBusy,
     Connect, ConnectRaises, Stop, OptimizeKey, Poll, PollUnconnected, Sync, Look, LookUnresolved, Decide,
     SkipBar, DecideRaises, Run, RunRaises, Mark, MarkRaises, BeginReview, Sleep, ReviewKey, PersistKey,
     PersistRaises, Interrupt, Kill, histVars
<1> SUFFICES BeginReview(p) \/ ReviewKey(p) \/ PersistKey(p) \/ Apart
  BY <1>1, <1>2
<1>3. CASE Launch(p) \/ TakeLock(p) \/ LockBusy(p) \/ ConnectRaises(p) \/ Stop(p) \/ PollUnconnected(p)
           \/ Sleep(p)
  <2>1. reviewed' = reviewed /\ reviews' = reviews
    BY <1>3, Zenon DEF Launch, TakeLock, LockBusy, ConnectRaises, Stop, PollUnconnected, Sleep, diskVars, histVars
  <2>2. memReview'[p] \in {memReview[p], 0, LastReview}
    BY <1>0, <1>3 DEF Launch, TakeLock, LockBusy, ConnectRaises, Stop, PollUnconnected, Sleep, Forget, memVars
  <2>3. pc[p] \notin {"review", "persist"} /\ pc'[p] # "persist"
    BY <1>0, <1>3, SMT DEF Launch, TakeLock, LockBusy, ConnectRaises, Stop, PollUnconnected, Sleep, Move
  <2> QED
    BY <2>1, <2>2, <2>3
<1>4. CASE Connect(p) \/ OptimizeKey(p) \/ Poll(p) \/ Sync(p) \/ Decide(p) \/ Run(p)
  <2>1. reviewed' = reviewed /\ reviews' = reviews /\ memReview' = memReview
    BY <1>4, Zenon DEF Connect, OptimizeKey, Poll, Sync, Decide, Run, diskVars, histVars, memVars
  <2>2. pc[p] \notin {"review", "persist"} /\ pc'[p] # "persist"
    <3>1. Started(p) # "persist"
      BY DEF Started
    <3>2. CASE Connect(p) \/ Poll(p) \/ Sync(p) \/ Decide(p) \/ Run(p)
      BY <1>0, <3>1, <3>2, SMT DEF Connect, Poll, Sync, Decide, Run, Move
    <3>3. CASE OptimizeKey(p)
      <4>1. pc[p] \in {"pretrade", "reoptimize"}
        BY <3>3 DEF OptimizeKey, Move
      <4> QED
        BY <3>1, <3>3, <4>1, <1>0, SMT DEF OptimizeKey, Move
    <3> QED
      BY <1>4, <3>2, <3>3
  <2> QED
    BY <2>1, <2>2
<1>5. ASSUME NEW from, NextSymbol(p, from), from \cap {"review", "persist"} = {}
      PROVE  Apart
  <2>1. reviewed' = reviewed /\ reviews' = reviews /\ memReview' = memReview
    BY <1>5, Zenon DEF NextSymbol
  <2>2. pc[p] \notin {"review", "persist"} /\ pc'[p] # "persist"
    BY <1>0, <1>5, SMT DEF NextSymbol, Move
  <2> QED
    BY <2>1, <2>2
<1>6. CASE Look(p) \/ LookUnresolved(p)
  <2>1. PICK b : LookAt(p, b)
    BY <1>6 DEF Look, LookUnresolved
  <2>2. CASE NextSymbol(p, {"symbol"})
    BY <1>5, <2>2
  <2>3. CASE Move(p, {"symbol"}, "decide") /\ UNCHANGED <<memReview, diskVars, histVars>>
    BY <1>0, <2>3 DEF Move, diskVars, histVars
  <2> QED
    BY <2>1, <2>2, <2>3 DEF LookAt
<1>7. CASE SkipBar(p) \/ DecideRaises(p) \/ RunRaises(p) \/ Mark(p) \/ MarkRaises(p)
  <2>1. NextSymbol(p, {"decide"}) \/ NextSymbol(p, {"run"}) \/ NextSymbol(p, {"mark"})
    BY <1>7, Zenon DEF SkipBar, DecideRaises, RunRaises, Mark, MarkRaises
  <2> QED
    BY <1>5, <2>1
<1>8. CASE PersistRaises(p) \/ Interrupt(p) \/ Kill(p)
  <2>1. reviewed' = reviewed /\ reviews' = reviews /\ unrecorded' = (unrecorded \/ Unrecorded(p))
    BY <1>8, Zenon DEF PersistRaises, Interrupt, Kill, diskVars
  <2>2. memReview'[p] \in {memReview[p], 0}
    BY <1>0, <1>8 DEF PersistRaises, Interrupt, Kill, Forget, memVars
  <2>3. pc'[p] \in {"stop", "off"}
    BY <1>0, <1>8, SMT DEF PersistRaises, Interrupt, Kill, Move
  <2> QED
    BY <2>1, <2>2, <2>3 DEF Unrecorded
<1> HIDE DEF Apart
<1> QED
  BY <1>3, <1>4, <1>6, <1>7, <1>8, Zenon DEF Step, StartUp, Polling, Running, Reviewing

\* The three steps of a review.
LEMMA ReviewMoves ==
  ASSUME Types, NEW p \in Procs
  PROVE  /\ BeginReview(p) =>
              /\ pc[p] = "due" /\ pc'[p] = "review" /\ ReviewIsDue(p)
              /\ reviews' = [reviews EXCEPT ![Date(clock)] = @ + 1]
              /\ UNCHANGED <<reviewed, memReview>>
         /\ ReviewKey(p) =>
              /\ pc[p] = "review" /\ UNCHANGED <<reviewed, reviews>>
              /\ \/ pc'[p] = "review" /\ memReview' = memReview
                 \/ pc'[p] = "persist" /\ at'[p] = 1 /\ memReview'[p] = Date(clock)
         /\ PersistKey(p) =>
              /\ pc[p] = "persist" /\ at[p] \in 1..Len(Keys) /\ UNCHANGED <<reviews, memReview>>
              /\ reviewed' = [reviewed EXCEPT ![at[p]] = memReview[p]]
              /\ pc'[p] \in {"persist", "poll", "stop"}
<1>0. pc \in [Procs -> Places] /\ memReview \in [Procs -> Dates]
      /\ at \in [Procs -> 1..(Len(Keys) + Len(TradeSymbols))]
  BY DEF Types, ProcTypes
<1>1. BeginReview(p) => /\ pc[p] = "due" /\ pc'[p] = "review" /\ ReviewIsDue(p)
                        /\ reviews' = [reviews EXCEPT ![Date(clock)] = @ + 1]
                        /\ UNCHANGED <<reviewed, memReview>>
  BY <1>0 DEF BeginReview, Move, diskVars
<1>2. ASSUME ReviewKey(p)
      PROVE  /\ pc[p] = "review" /\ UNCHANGED <<reviewed, reviews>>
             /\ \/ pc'[p] = "review" /\ memReview' = memReview
                \/ pc'[p] = "persist" /\ at'[p] = 1 /\ memReview'[p] = Date(clock)
  <2>1. pc[p] = "review" /\ UNCHANGED <<reviewed, reviews>>
    BY <1>2 DEF ReviewKey, Move, histVars
  <2>2. CASE at[p] = Len(Keys)
    <3>1. /\ pc' = [pc EXCEPT ![p] = "persist"] /\ at' = [at EXCEPT ![p] = 1]
          /\ memReview' = [memReview EXCEPT ![p] = Date(clock)]
      BY <1>2, <2>2 DEF ReviewKey, Move
    <3> QED
      BY <1>0, <2>1, <3>1
  <2>3. CASE at[p] # Len(Keys)
    <3>1. memReview' = [memReview EXCEPT ![p] = memReview[p]] /\ pc' = [pc EXCEPT ![p] = "review"]
      BY <1>2, <2>3 DEF ReviewKey, Move
    <3>2. memReview' = memReview
      BY <1>0, <3>1, Same
    <3> QED
      BY <1>0, <2>1, <3>1, <3>2
  <2> QED
    BY <2>1, <2>2, <2>3
<1>3. ASSUME PersistKey(p)
      PROVE  /\ pc[p] = "persist" /\ at[p] \in 1..Len(Keys) /\ UNCHANGED <<reviews, memReview>>
             /\ reviewed' = [reviewed EXCEPT ![at[p]] = memReview[p]]
             /\ pc'[p] \in {"persist", "poll", "stop"}
  <2>1. pc[p] = "persist" /\ UNCHANGED <<reviews, memReview>>
        /\ reviewed' = [reviewed EXCEPT ![at[p]] = memReview[p]]
    BY <1>3 DEF PersistKey, Move, histVars
  <2>2. at[p] \in 1..(Len(Keys) + Len(TradeSymbols)) /\ at[p] <= Len(Keys)
    BY <1>0, <2>1 DEF Types, ProcTypes
  <2>3. at[p] \in 1..Len(Keys)
    BY <2>2, Lengths, SMT
  <2>4. pc'[p] \in {"persist", "poll", "stop"}
    BY <1>0, <1>3, SMT DEF PersistKey, Move
  <2> QED
    BY <2>1, <2>3, <2>4
<1> QED
  BY <1>1, <1>2, <1>3

\* All dates are numbers.
LEMMA PastNumbers ==
  ASSUME Types
  PROVE  /\ memReview \in [Procs -> Dates] /\ reviewed \in [1..Len(Keys) -> Dates] /\ reviews \in [Dates -> Nat]
         /\ Date(clock) \in Dates /\ Date(clock) \in Nat /\ \A d \in Dates : d \in Nat
         /\ \A q \in Procs : memReview[q] \in Nat
         /\ \A i \in 1..Len(Keys) : reviewed[i] \in Nat
         /\ LastReview \in Nat
<1>1. /\ memReview \in [Procs -> Dates] /\ reviewed \in [1..Len(Keys) -> Dates] /\ reviews \in [Dates -> Nat]
      /\ clock \in 0..MaxClock
  BY DEF Types, ProcTypes, WorldTypes
<1>2. Date(clock) \in Dates /\ LastReview \in Dates
  BY <1>1, DateTypes, LastReviewTypes DEF Types
<1>3. \A d \in Dates : d \in Nat
  BY <1>1, DateGrows
<1> QED
  BY <1>1, <1>2, <1>3

\* A step of a process writes no date of the future.
LEMMA PastKeeps ==
  ASSUME Types, OneEngine, Past, NEW p \in Procs, Launch(p) \/ Step(p) \/ Interrupt(p) \/ Kill(p)
  PROVE  Past'
<1>0. /\ memReview \in [Procs -> Dates] /\ reviewed \in [1..Len(Keys) -> Dates] /\ reviews \in [Dates -> Nat]
      /\ Date(clock) \in Dates /\ Date(clock) \in Nat /\ \A d \in Dates : d \in Nat
      /\ \A q \in Procs : memReview[q] \in Nat
      /\ \A i \in 1..Len(Keys) : reviewed[i] \in Nat
      /\ LastReview \in Nat
  BY PastNumbers
<1>1. clock' = clock /\ Date(clock') = Date(clock)
  BY ReviewSteps
<1>2. \A q \in Procs \ {p} : pc'[q] = pc[q] /\ memReview'[q] = memReview[q]
  BY Others DEF Types
<1>3. ASSUME pc[p] \notin {"off", "lock"}
      PROVE  \A q \in Procs \ {p} : pc[q] # "persist"
  BY <1>3, Sole DEF Engaged
<1>4. CASE BeginReview(p)
  <2>1. /\ pc'[p] = "review" /\ UNCHANGED <<reviewed, memReview>>
        /\ reviews' = [reviews EXCEPT ![Date(clock)] = @ + 1]
    BY <1>4, ReviewMoves
  <2>2. \A d \in Dates : reviews'[d] > 0 => d <= Date(clock)
    BY <1>0, <2>1, SMT DEF Past
  <2> QED
    BY <1>1, <1>2, <2>1, <2>2 DEF Past
<1>5. CASE ReviewKey(p)
  <2>1. /\ pc[p] = "review" /\ UNCHANGED <<reviewed, reviews>>
        /\ \/ pc'[p] = "review" /\ memReview' = memReview
           \/ pc'[p] = "persist" /\ at'[p] = 1 /\ memReview'[p] = Date(clock)
    BY <1>5, ReviewMoves
  <2>2. memReview'[p] <= Date(clock)
    <3>1. memReview[p] <= Date(clock) /\ Date(clock) <= Date(clock)
      BY <1>0 DEF Past
    <3> QED
      BY <2>1, <3>1
  <2>3. \A q \in Procs : pc'[q] = "persist" => q = p /\ memReview'[q] = Date(clock)
    BY <1>2, <1>3, <2>1
  <2> QED
    BY <1>1, <1>2, <2>1, <2>2, <2>3 DEF Past
<1>6. CASE PersistKey(p)
  <2>1. /\ pc[p] = "persist" /\ at[p] \in 1..Len(Keys) /\ UNCHANGED <<reviews, memReview>>
        /\ reviewed' = [reviewed EXCEPT ![at[p]] = memReview[p]]
    BY <1>6, ReviewMoves
  <2>2. \A i \in 1..Len(Keys) : reviewed'[i] <= memReview[p]
    <3>1. \A i \in 1..Len(Keys) : reviewed[i] <= memReview[p]
      BY <2>1 DEF Past
    <3>2. memReview[p] <= memReview[p]
      BY <1>0
    <3> QED
      BY <1>0, <2>1, <3>1, <3>2
  <2>3. \A i \in 1..Len(Keys) : reviewed'[i] <= Date(clock)
    BY <1>0, <2>1, SMT DEF Past
  <2>4. \A q \in Procs : pc'[q] = "persist" => q = p
    BY <1>2, <1>3, <2>1
  <2> QED
    BY <1>1, <2>1, <2>2, <2>3, <2>4 DEF Past
<1>7. CASE /\ reviewed' = reviewed /\ reviews' = reviews
           /\ memReview'[p] \in {memReview[p], 0, LastReview} /\ pc'[p] # "persist"
  <2>1. LastReview <= Date(clock)
    BY LastReviewTypes DEF Types, Past
  <2>2. memReview'[p] <= Date(clock)
    <3>1. memReview[p] <= Date(clock) /\ 0 <= Date(clock)
      BY <1>0 DEF Past
    <3> QED
      BY <1>7, <2>1, <3>1
  <2> QED
    BY <1>1, <1>2, <1>7, <2>2 DEF Past
<1> QED
  BY <1>4, <1>5, <1>6, <1>7, ReviewSteps

\* A review that has begun gets onto the disk or stays on its way, and none begins
\* on a date that has had one.
LEMMA FiledKeeps ==
  ASSUME Types, OneEngine, Past, Filed, NEW p \in Procs,
         Launch(p) \/ Step(p) \/ Interrupt(p) \/ Kill(p)
  PROVE  Filed'
<1> SUFFICES ASSUME ~unrecorded', NEW d \in Dates
             PROVE  reviews'[d] <= 1 /\ (reviews'[d] > 0 => OnItsWay(d)')
  BY DEF Filed
<1>0. /\ memReview \in [Procs -> Dates] /\ reviewed \in [1..Len(Keys) -> Dates] /\ reviews \in [Dates -> Nat]
      /\ Date(clock) \in Dates /\ Date(clock) \in Nat /\ \A e \in Dates : e \in Nat
      /\ \A q \in Procs : memReview[q] \in Nat
      /\ \A i \in 1..Len(Keys) : reviewed[i] \in Nat
      /\ LastReview \in Nat
  BY PastNumbers
<1>1. reviews[d] <= 1 /\ (reviews[d] > 0 => OnItsWay(d))
  BY ReviewSteps DEF Filed
<1>2. \A q \in Procs \ {p} : pc'[q] = pc[q] /\ at'[q] = at[q] /\ memReview'[q] = memReview[q]
  BY Others DEF Types
<1>3. CASE BeginReview(p)
  <2>1. /\ pc[p] = "due" /\ pc'[p] = "review" /\ ReviewIsDue(p)
        /\ reviews' = [reviews EXCEPT ![Date(clock)] = @ + 1]
    BY <1>3, ReviewMoves
  <2>2. OnItsWay(d)'
    BY <2>1 DEF OnItsWay
  <2>3. CASE d = Date(clock)
    <3>1. ~OnItsWay(d)
      <4>1. \A q \in Procs : pc[q] \notin {"review", "persist"}
        BY <2>1, Sole DEF Engaged
      <4>2. ASSUME NEW i \in 1..Len(Keys), reviewed[i] >= d
            PROVE  FALSE
        <5>1. /\ LastReview \in Dates /\ LastReview >= reviewed[i] /\ LastReview <= Date(clock)
          BY LastReviewTypes DEF Types, Past
        <5>2. LastReview = Date(clock)
          BY <1>0, <2>3, <4>2, <5>1, SMT
        <5> QED
          BY <2>1, <5>2 DEF ReviewIsDue
      <4> QED
        BY <4>1, <4>2 DEF OnItsWay
    <3>2. reviews[d] = 0
      BY <1>0, <1>1, <3>1, SMT
    <3>3. reviews'[d] = reviews[d] + 1
      BY <1>0, <2>1, <2>3
    <3> QED
      BY <2>2, <3>2, <3>3
  <2>4. CASE d # Date(clock)
    BY <1>0, <1>1, <2>1, <2>2, <2>4
  <2> QED
    BY <2>3, <2>4
<1>4. CASE ReviewKey(p)
  <2>1. /\ pc[p] = "review" /\ UNCHANGED <<reviewed, reviews>>
        /\ \/ pc'[p] = "review" /\ memReview' = memReview
           \/ pc'[p] = "persist" /\ at'[p] = 1 /\ memReview'[p] = Date(clock)
    BY <1>4, ReviewMoves
  <2>2. reviews[d] > 0 => d <= Date(clock)
    BY DEF Past
  <2> QED
    BY <1>0, <1>1, <2>1, <2>2 DEF OnItsWay
<1>5. CASE PersistKey(p)
  <2>1. /\ pc[p] = "persist" /\ at[p] \in 1..Len(Keys) /\ UNCHANGED <<reviews, memReview>>
        /\ reviewed' = [reviewed EXCEPT ![at[p]] = memReview[p]]
    BY <1>5, ReviewMoves
  <2>2. \A q \in Procs : pc[q] \in {"review", "persist"} => q = p
    BY <2>1, Sole DEF Engaged
  <2>3. ASSUME OnItsWay(d)
        PROVE  memReview[p] >= d
    <3>1. CASE \E i \in 1..Len(Keys) : reviewed[i] >= d
      <4>1. PICK i \in 1..Len(Keys) : reviewed[i] >= d
        BY <3>1
      <4>2. reviewed[i] <= memReview[p]
        BY <2>1 DEF Past
      <4> QED
        BY <1>0, <4>1, <4>2, SMT
    <3> QED
      BY <2>1, <2>2, <2>3, <3>1 DEF OnItsWay
  <2>4. reviewed'[at[p]] = memReview[p]
    BY <1>0, <2>1
  <2> QED
    BY <1>1, <2>1, <2>3, <2>4 DEF OnItsWay
<1>6. CASE /\ reviewed' = reviewed /\ reviews' = reviews
           /\ pc[p] = "review" \/ (pc[p] = "persist" /\ at[p] = 1) => unrecorded'
  <2>1. ~(pc[p] = "review" \/ (pc[p] = "persist" /\ at[p] = 1))
    BY <1>6
  <2>2. OnItsWay(d) => OnItsWay(d)'
    BY <1>2, <1>6, <2>1 DEF OnItsWay
  <2> QED
    BY <1>1, <1>6, <2>2
<1> QED
  BY <1>3, <1>4, <1>5, <1>6, ReviewSteps

\* Time goes on: what is not of the future stays so.
LEMMA WorldFiles ==
  ASSUME Types, Past, Filed, World
  PROVE  Past' /\ Filed'
<1>1. UNCHANGED <<pc, memVars, reviewed, histVars>>
  BY Zenon DEF World, OpenBar, EndSession, Tick, OptimizeElsewhere, diskVars
<1>2. clock' = clock \/ (clock < MaxClock /\ clock' = clock + 1)
  BY Zenon DEF World, OpenBar, EndSession, Tick, OptimizeElsewhere, worldVars
<1>3. /\ clock \in 0..MaxClock /\ clock' \in 0..MaxClock
      /\ Date(clock) \in Nat /\ Date(clock') \in Nat /\ Date(clock) <= Date(clock')
  <2>1. clock \in 0..MaxClock
    BY DEF Types, WorldTypes
  <2>2. clock' \in 0..MaxClock
    BY <1>2, <2>1, Lengths, SMT
  <2> QED
    BY <1>2, <2>1, <2>2, DateGrows
<1>4. /\ \A q \in Procs : memReview[q] \in Nat
      /\ \A i \in 1..Len(Keys) : reviewed[i] \in Nat
      /\ \A d \in Dates : d \in Nat
  BY PastNumbers
<1>5. Past'
  <2>1. ASSUME NEW d \in Nat, d <= Date(clock)
        PROVE  d <= Date(clock')
    BY <1>3, <2>1, SMT
  <2>2. \A i \in 1..Len(Keys) : reviewed[i] <= Date(clock')
    BY <1>4, <2>1 DEF Past
  <2>3. \A p \in Procs : memReview[p] <= Date(clock')
    BY <1>4, <2>1 DEF Past
  <2>4. \A d \in Dates : reviews[d] > 0 => d <= Date(clock')
    BY <1>4, <2>1 DEF Past
  <2> QED
    BY <1>1, <2>2, <2>3, <2>4 DEF Past, memVars, histVars
<1>6. Filed'
  BY <1>1 DEF Filed, OnItsWay, memVars, histVars
<1> QED
  BY <1>5, <1>6

-----------------------------------------------------------------------------
(* The theorems                                                            *)

\* The types say all that TypeOK says.
LEMMA TypesGiveTypeOK == Types => TypeOK
  BY DEF Types, ProcTypes, WorldTypes, TypeOK

\* The inductive invariant.
Safe == Types /\ OneEngine /\ Ahead /\ Recorded /\ Ready /\ Past /\ Filed

\* Every initial state satisfies it: no process runs and no bar has been run.
LEMMA InitHolds == Init => Safe
<1> SUFFICES ASSUME Init
             PROVE  Safe
  OBVIOUS
<1>1. 1 \in 1..(Len(Keys) + Len(TradeSymbols)) /\ 0 \in Dates /\ "off" \in Places
  <2>1. Date(MaxClock) \in Nat
    BY Lengths, SMT DEF Date
  <2> QED
    BY <2>1, Lengths, SMT DEF Dates, Places, Alive
<1>2. ProcTypes
  BY <1>1 DEF Init, ProcTypes
<1>3. WorldTypes
  <2>1. /\ mark = [s \in Symbols |-> 0] /\ stored = [s \in Symbols |-> 0] /\ now = [s \in Symbols |-> 0]
    BY DEF Init
  <2>2. {mark, stored, now} \subseteq [Symbols -> Nat]
    BY <2>1
  <2>3. \A s \in Symbols : {mark[s], stored[s], now[s]} \subseteq 0..MaxBar[s]
    BY <2>1, Lengths
  <2>4. 0 \in 0..MaxClock /\ 0 \in 0..MaxLaunches /\ 0 \in 0..FaultBound
    BY Lengths
  <2>5. DOMAIN runs = Symbols /\ \A s \in Symbols : runs[s] \in [1..MaxBar[s] -> Nat]
    BY DEF Init
  <2>6. reviewed \in [1..Len(Keys) -> Dates] /\ reviews \in [Dates -> Nat] /\ forming \in [Symbols -> BOOLEAN]
    BY <1>1 DEF Init
  <2> QED
    BY <2>2, <2>3, <2>4, <2>5, <2>6 DEF Init, WorldTypes
<1>4. OneEngine
  BY Lengths DEF Init, OneEngine
<1>5. Ahead /\ Recorded /\ Ready
  BY DEF Init, Ahead, Recorded, Ready, Trading
<1>6. Past /\ Filed
  <2>1. 0 \in 0..MaxClock /\ Date(0) \in Nat
    BY Lengths, DateGrows
  <2>2. /\ reviewed = [i \in 1..Len(Keys) |-> 0] /\ memReview = [p \in Procs |-> 0] /\ clock = 0
        /\ reviews = [d \in Dates |-> 0] /\ \A p \in Procs : pc[p] = "off"
    BY DEF Init
  <2> QED
    BY <2>1, <2>2 DEF Past, Filed
<1> QED
  BY <1>2, <1>3, <1>4, <1>5, <1>6 DEF Types, Safe

\* Every step keeps it.
LEMMA NextHolds ==
  ASSUME Safe, [Next]_vars
  PROVE  Safe'
<1> USE DEF Safe
<1>1. CASE \E p \in Procs : Launch(p) \/ Step(p) \/ Interrupt(p) \/ Kill(p)
  <2>1. PICK p \in Procs : Launch(p) \/ Step(p) \/ Interrupt(p) \/ Kill(p)
    BY <1>1
  <2>2. Types' /\ OneEngine'
    BY <2>1, StepProcTypes, StepWorldTypes, OneEngineKeeps DEF Types
  <2>3. Ahead' /\ Recorded'
    BY <2>1, AheadKeeps, RecordedKeeps
  <2>4. Ready'
    BY <2>1, ReadyKeeps
  <2>5. Past' /\ Filed'
    BY <2>1, PastKeeps, FiledKeeps
  <2> QED
    BY <2>2, <2>3, <2>4, <2>5
<1>2. CASE World
  BY <1>2, WorldKeeps, WorldStepTypes, WorldFiles
<1>3. CASE UNCHANGED vars
  <2>1. Types'
    BY <1>3 DEF Types, ProcTypes, WorldTypes, Symbol, vars, memVars, diskVars, worldVars, histVars
  <2>2. OneEngine' /\ Ahead' /\ Recorded' /\ Ready'
    BY <1>3 DEF OneEngine, Ahead, Recorded, InHand, Ready, HasAdopted, KeyAdopted, Symbol,
                vars, memVars, diskVars, worldVars, histVars
  <2>3. Past' /\ Filed'
    BY <1>3 DEF Past, Filed, OnItsWay, vars, memVars, diskVars, worldVars, histVars
  <2> QED
    BY <2>1, <2>2, <2>3
<1> QED
  BY <1>1, <1>2, <1>3 DEF Next

\* Safe holds in every state.
LEMMA AlwaysSafe == Spec => []Safe
  BY InitHolds, NextHolds, PTL DEF Spec

\* Whatever the processes, the faults and the order of the steps, every variable
\* keeps its type and every index stays in its list.
THEOREM ResidentTypes == Spec => []TypeOK
<1>1. Safe => TypeOK
  BY TypesGiveTypeOK DEF Safe
<1> QED
  BY <1>1, AlwaysSafe, PTL

\* "Exclusive process lock so only one resident loop may run": whoever is past
\* the lock holds it, for any number of processes that are started, killed and
\* started again.
THEOREM ResidentOneEngine == Spec => []OneEngine
<1>1. Safe => OneEngine
  BY DEF Safe
<1> QED
  BY <1>1, AlwaysSafe, PTL

\* A bar is run once, over any number of restarts, symbols and engines, unless a
\* run ended before it was recorded.
THEOREM ResidentOneRunPerBar == Spec => []OneRunPerBar
<1>1. Safe => OneRunPerBar
  BY DEF Safe, Recorded, OneRunPerBar
<1> QED
  BY <1>1, AlwaysSafe, PTL

\* The weekly review is begun once on its day, over any number of restarts, forced
\* reviews and stores, unless one ended before the first store had its date.
THEOREM ResidentReviewOncePerDay == Spec => []ReviewOncePerDay
<1>1. Safe => ReviewOncePerDay
  BY DEF Safe, Filed, ReviewOncePerDay
<1> QED
  BY <1>1, AlwaysSafe, PTL

\* Even where a run was not recorded, no run goes back behind a bar that has been.
THEOREM ResidentNeverBackwards == Spec => NeverBackwards
<1>1. Safe /\ [Next]_vars =>
        [\A s \in Symbols : \A b \in 1..MaxBar[s] : runs'[s][b] # runs[s][b] => mark[s] < b]_vars
  <2> SUFFICES ASSUME Safe, [Next]_vars, NEW s \in Symbols, NEW b \in 1..MaxBar[s],
                      runs'[s][b] # runs[s][b]
               PROVE  mark[s] < b
    OBVIOUS
  <2>1. CASE \E p \in Procs : Launch(p) \/ Step(p) \/ Interrupt(p) \/ Kill(p)
    <3>1. PICK p \in Procs : Launch(p) \/ Step(p) \/ Interrupt(p) \/ Kill(p)
      BY <2>1
    <3>2. Run(p)
      BY <3>1, BarSteps, BarMoves DEF Safe
    <3>3. /\ pc[p] = "run" /\ runs' = [runs EXCEPT ![Symbol(p)][latest[p]] = @ + 1]
      BY <3>2, BarMoves DEF Safe
    <3>4. s = Symbol(p) /\ b = latest[p]
      BY <3>3 DEF Safe, Types, WorldTypes
    <3> QED
      BY <3>3, <3>4 DEF Safe, Ahead
  <2>2. CASE World
    BY <2>2, Zenon DEF World, OpenBar, EndSession, Tick, OptimizeElsewhere, histVars
  <2>3. CASE UNCHANGED vars
    BY <2>3 DEF vars, histVars
  <2> QED
    BY <2>1, <2>2, <2>3 DEF Next
<1> QED
  BY <1>1, AlwaysSafe, PTL DEF Spec, NeverBackwards

\* "refuse pipeline until adopted params exist": however old the readiness that
\* was cached when the process started or reviewed, a run begins only while every
\* symbol has adopted parameters, and those of the strategy in use.
THEOREM ResidentRunsOnlyAdopted == Spec => RunsOnlyAdopted
<1>1. Safe => [\A p \in Procs : pc[p] = "run" /\ pc'[p] = "mark" =>
         /\ KeyAdopted(Symbol(p), strategy[p])
         /\ RequireAdopted =>
              \A s \in Symbols : \E st \in Strategies : KeyAdopted(s, st)]_vars
  <2> SUFFICES ASSUME Safe, NEW p \in Procs, pc[p] = "run"
               PROVE  /\ KeyAdopted(Symbol(p), strategy[p])
                      /\ RequireAdopted =>
                           \A s \in Symbols : \E st \in Strategies : KeyAdopted(s, st)
    OBVIOUS
  <2>1. HasAdopted(adopted) => \A s \in Symbols : \E st \in Strategies : KeyAdopted(s, st)
    BY DEF HasAdopted, KeyAdopted
  <2> QED
    BY <2>1 DEF Safe, Ready, Trading
<1> QED
  BY <1>1, AlwaysSafe, PTL DEF RunsOnlyAdopted
=============================================================================
