------------------------------ MODULE DataSync ------------------------------
(***************************************************************************)
(* The synchronisation of the bar store with the MetaTrader terminal: the  *)
(* connector (core/mt5_connector.py), the fetcher with its retries          *)
(* (data/robust_fetch.py), the filter (data/quality.py), the SQLite store   *)
(* (data/store.py), the run rows (data/lineage.py) and DataAgent.sync_all,  *)
(* which the resident loop calls on every poll.                             *)
(*                                                                         *)
(* A bar is its index; the newest one the terminal has, `now', is still     *)
(* forming, and a fetched copy of it is out of date as soon as the next bar *)
(* arrives.  One attempt of a fetch is one step, so that the terminal may   *)
(* drop the connection, and a bar may arrive, between any two of them.  An  *)
(* answer ends with the newest bar, but may lack others that were asked for.*)
(***************************************************************************)
EXTENDS Integers, Sequences, FiniteSets, FiniteSetsExt

CONSTANTS SeriesSeq,     \* the symbols of a run, in order (one timeframe)
          History,       \* history_bars: below it the store is backfilled
          Tip,           \* the newest bars asked for when the store is full
          TipCap,        \* cap of that number while it is not
          MaxRetries,    \* data.fetch.max_retries
          MaxBar,        \* bound: the last bar that arrives
          StoredAtStart, \* the newest stored bars a store may start with
          FaultKinds,    \* which faults happen
          FaultBound     \* bound: how many

Series == {SeriesSeq[i] : i \in 1..Len(SeriesSeq)}

ASSUME DataSyncAssumption ==
    /\ SeriesSeq \in Seq(Series) /\ Len(SeriesSeq) > 0
    /\ {History, Tip, TipCap, MaxRetries, MaxBar} \subseteq Nat \ {0}
    /\ Tip > 1
    /\ FaultBound \in Nat
    /\ StoredAtStart \subseteq -1..MaxBar - 1
    /\ FaultKinds \subseteq {"call", "blip", "restart", "thin", "jump", "kill"}

VARIABLES now,        \* the newest bar the terminal has, which is forming
          shifted,    \* the bars whose price is far from that of the others
          unknown,    \* symbols the broker does not list
          terminal,   \* the terminal answers
          session,    \* the terminal knows this process (mt5.initialize)
          connected,  \* MT5Connector._connected
          bars,       \* the stored bars of every series
          forming,    \* those of them stored while they were forming
          stage,      \* where sync_symbol stands
          cursor,     \* the series being synchronised
          attempt,    \* the attempt of the fetch
          inner,      \* the attempt of the fetch_latest inside fetch
          got,        \* the merged batches
          soft,       \* the bars of `got' read while they were forming
          tip,        \* tip_max (-1: no tip yet)
          thinned,    \* a fetch brought less than it was asked for
          errors,     \* some series of the run failed
          rejected,   \* some bar of the run was rejected
          status,     \* status of the latest row of sync_runs
          begun,      \* the newest bar when the run began
          holed,      \* history: series stored from a batch with a hole
          outdated,   \* history: series whose forming bars a tip just missed
          faults      \* history: number of faults so far

world == <<now, shifted, unknown, terminal>>
link == <<session, connected>>
store == <<bars, forming, holed, outdated>>
batch == <<attempt, inner, got, soft, tip, thinned>>
run == <<errors, rejected, status, begun>>
vars == <<world, link, store, stage, cursor, batch, run, faults>>

TypeOK ==
    /\ now \in 0..MaxBar /\ begun \in 0..MaxBar
    /\ tip \in -1..MaxBar
    /\ shifted \subseteq 0..MaxBar
    /\ got \subseteq 0..MaxBar /\ soft \subseteq got
    /\ unknown \subseteq Series /\ holed \subseteq Series /\ outdated \subseteq Series
    /\ terminal \in BOOLEAN /\ session \in BOOLEAN /\ connected \in BOOLEAN
    /\ thinned \in BOOLEAN /\ errors \in BOOLEAN /\ rejected \in BOOLEAN
    /\ bars \in [Series -> SUBSET (0..MaxBar)]
    /\ forming \in [Series -> SUBSET (0..MaxBar)]
    /\ stage \in {"idle", "resolve", "deep", "tip", "range", "fallback",
                  "store", "finish"}
    /\ cursor \in 1..Len(SeriesSeq)
    /\ attempt \in 0..MaxRetries - 1 /\ inner \in 0..MaxRetries - 1
    /\ status \in {"none", "running", "completed", "completed_with_errors"}
    /\ faults \in 0..FaultBound

Init ==
    /\ \E newest \in [Series -> StoredAtStart] :
          /\ bars = [s \in Series |-> 0..newest[s]]
          /\ forming = [s \in Series |-> {newest[s]} \cap Nat]
    /\ now \in 0..1 /\ \A s \in Series : \A b \in bars[s] : b <= now
    /\ unknown \in SUBSET Series
    /\ shifted = {} /\ terminal = TRUE /\ session = FALSE /\ connected = FALSE
    /\ stage = "idle" /\ cursor = 1
    /\ attempt = 0 /\ inner = 0 /\ got = {} /\ soft = {} /\ tip = -1 /\ thinned = FALSE
    /\ errors = FALSE /\ rejected = FALSE /\ status = "none" /\ begun = now
    /\ holed = {} /\ outdated = {} /\ faults = 0

-----------------------------------------------------------------------------
(* The connector *)

Fault(kind) ==
    /\ kind \in FaultKinds
    /\ faults < FaultBound
    /\ faults' = faults + 1

\* connect() does nothing while the flag is set; otherwise initialize, login
\* and account_info, which need the terminal only.
Answered == IF connected THEN terminal /\ session ELSE terminal
Connect == connected' = TRUE /\ session' = TRUE

Disconnect == connected' = FALSE /\ session' = FALSE

\* An attempt that fails: because nobody answers, or because of this call.
CallFails == IF Answered THEN Fault("call") ELSE UNCHANGED faults

\* What the failed attempt leaves of the connection when it is the last one.
AsFailed ==
    /\ connected' = (connected \/ terminal)
    /\ session' = (IF connected THEN session ELSE terminal)

-----------------------------------------------------------------------------
(* sync_symbol *)

Current == SeriesSeq[cursor]
Stored == bars[Current]
Short == Cardinality(Stored) < History
TipCount == IF Short THEN Min({History, TipCap}) ELSE Tip
Gap(newest) == newest - Max(Stored)
\* Mutant: tip_span is one bar too long.
NeedRangeLate(newest) == Short \/ Gap(newest) > TipCount + 1

NeedRange(newest) == Short \/ Gap(newest) > TipCount
Newest(n) == {b \in 0..now : b > now - n}

\* The first version of a bar wins when the batches are merged.
Merge(new) ==
    /\ got' = got \cup new
    /\ soft' = soft \cup ({now} \cap (new \ got))

NextStage(name) ==
    /\ stage' = name
    /\ attempt' = 0 /\ inner' = 0

ClearBatch ==
    /\ attempt' = 0 /\ inner' = 0 /\ got' = {} /\ soft' = {} /\ tip' = -1
    /\ thinned' = FALSE

\* The loop over the symbols: on to the next one, or to finish_run.
NextSeries ==
    /\ ClearBatch
    /\ IF cursor < Len(SeriesSeq)
       THEN stage' = "resolve" /\ cursor' = cursor + 1
       ELSE stage' = "finish" /\ UNCHANGED cursor

\* ensure_connection and the start of sync_all; with no connection and no
\* terminal both attempts fail and the poll ends.
Poll ==
    /\ stage = "idle"
    /\ connected \/ terminal
    /\ IF connected THEN UNCHANGED link ELSE Connect
    /\ stage' = "resolve" /\ cursor' = 1
    /\ errors' = FALSE /\ rejected' = FALSE /\ status' = "running" /\ begun' = now
    /\ UNCHANGED <<world, store, batch, faults>>

Resolvable == connected /\ terminal /\ session /\ Current \notin unknown

ResolveSymbol ==
    /\ stage = "resolve"
    /\ Resolvable
    /\ NextStage(IF Short THEN "deep" ELSE "tip")
    /\ UNCHANGED <<world, link, store, cursor, got, soft, tip, thinned, run, faults>>

\* Mutant: the exception ends the run.
ResolveEndsRun ==
    /\ stage = "resolve"
    /\ IF Resolvable THEN Fault("call") ELSE UNCHANGED faults
    /\ errors' = TRUE
    /\ ClearBatch
    /\ stage' = "finish"
    /\ UNCHANGED <<world, link, store, cursor, rejected, status, begun>>

\* ensure_symbol raises outside every retry: the series is given up and the
\* flag is left as it is.
ResolveFails ==
    /\ stage = "resolve"
    /\ IF Resolvable THEN Fault("call") ELSE UNCHANGED faults
    /\ errors' = TRUE
    /\ NextSeries
    /\ UNCHANGED <<world, link, store, rejected, status, begun>>

\* What the terminal may answer when it is asked for some bars: all of them, or fewer,
\* as when its own history has holes.  No check of the code turns a short answer down.
Answers(asked) == {asked \ lost : lost \in SUBSET (asked \ {now})}

Receive(asked, lacking) ==
    \E answer \in Answers(asked) :
       /\ IF answer = asked THEN UNCHANGED faults ELSE Fault("thin")
       /\ Merge(answer)
       /\ thinned' = (lacking \/ answer # asked)

\* _fetch_deep_resolved and _paginate_backward: the newest bars first, then backwards
\* until there are enough or three pages bring nothing new.
FetchDeep ==
    /\ stage = "deep"
    /\ Answered
    /\ Connect
    /\ Receive(Newest(History), thinned)
    /\ NextStage(IF Stored = {} THEN "store" ELSE "tip")
    /\ UNCHANGED <<world, store, cursor, tip, run>>

FetchTip ==
    /\ stage = "tip"
    /\ Answered
    /\ Connect
    /\ Receive(Newest(TipCount), thinned)
    /\ tip' = now
    /\ NextStage(IF NeedRange(now) THEN "range" ELSE "store")
    /\ UNCHANGED <<world, store, cursor, run>>

FetchRange ==
    /\ stage = "range"
    /\ Answered
    /\ Connect
    /\ Receive(Max(Stored)..now, thinned)
    /\ NextStage("store")
    /\ UNCHANGED <<world, store, cursor, tip, run>>

\* copy_rates_range fails, the symbol was found: fetch_latest instead.
RangeFallsBack ==
    /\ stage = "range"
    /\ Answered
    /\ Fault("call")
    /\ Connect
    /\ stage' = "fallback" /\ inner' = 0
    /\ UNCHANGED <<world, store, cursor, attempt, got, soft, tip, thinned, run>>

\* The answer of the fallback is taken for the answer of fetch.
FetchFallback ==
    /\ stage = "fallback"
    /\ Answered
    /\ Connect
    /\ Receive(Newest(TipCount), TRUE)
    /\ NextStage("store")
    /\ UNCHANGED <<world, store, cursor, tip, run>>

\* A failed attempt that is not the last: disconnect, wait, again.  fetch
\* keeps the connection when the message is "Terminal: Call failed".
FetchAgain ==
    /\ \/ /\ stage \in {"deep", "tip"}
          /\ attempt < MaxRetries - 1
          /\ attempt' = attempt + 1
          /\ Disconnect
          /\ UNCHANGED <<stage, inner>>
       \/ /\ stage = "fallback"
          /\ inner < MaxRetries - 1
          /\ inner' = inner + 1
          /\ Disconnect
          /\ UNCHANGED <<stage, attempt>>
       \/ /\ \/ stage = "range"
             \/ stage = "fallback" /\ inner = MaxRetries - 1
          /\ attempt < MaxRetries - 1
          /\ attempt' = attempt + 1 /\ inner' = 0
          /\ stage' = "range"
          /\ Disconnect \/ AsFailed
    /\ CallFails
    /\ UNCHANGED <<world, store, cursor, got, soft, tip, thinned, run>>

\* The last attempt of the deep or of the tip fetch: the series fails, and
\* what was fetched for it is lost.
FetchFails ==
    /\ stage \in {"deep", "tip"}
    /\ attempt = MaxRetries - 1
    /\ CallFails
    /\ AsFailed
    /\ errors' = TRUE
    /\ NextSeries
    /\ UNCHANGED <<world, store, rejected, status, begun>>

\* The last attempt of the range fetch: the tip is kept.
KeepTip ==
    /\ stage = "range" \/ (stage = "fallback" /\ inner = MaxRetries - 1)
    /\ attempt = MaxRetries - 1
    /\ CallFails
    /\ AsFailed
    /\ thinned' = TRUE
    /\ NextStage("store")
    /\ UNCHANGED <<world, store, cursor, got, soft, tip, run>>

\* filter_valid_bars: in the order of their times, a bar whose close is far
\* from that of the last accepted one is dropped.
Accepted(B) == {b \in B : b \in shifted <=> Min(B) \in shifted}

MissesRefresh ==
    /\ tip # -1
    /\ \/ ~Short /\ Gap(tip) = TipCount
       \/ Cardinality(forming[Current]) > 1 /\ Gap(tip) >= TipCount - 1

StoreBars ==
    /\ stage = "store"
    /\ LET valid == Accepted(got) IN
          /\ bars' = [bars EXCEPT ![Current] = @ \cup valid]
          /\ forming' = [forming EXCEPT ![Current] = (@ \ valid) \cup (soft \cap valid)]
          /\ rejected' = (rejected \/ valid # got)
          /\ holed' = IF thinned \/ valid # got THEN holed \cup {Current} ELSE holed
    /\ outdated' = IF MissesRefresh THEN outdated \cup {Current} ELSE outdated
    /\ NextSeries
    /\ UNCHANGED <<world, link, errors, status, begun, faults>>

\* Mutant: the run is completed whatever failed.
FinishRunAnyway ==
    /\ stage = "finish"
    /\ stage' = "idle"
    /\ status' = "completed"
    /\ UNCHANGED <<world, link, store, cursor, batch, errors, rejected, begun, faults>>

FinishRun ==
    /\ stage = "finish"
    /\ stage' = "idle"
    /\ status' = IF errors THEN "completed_with_errors" ELSE "completed"
    /\ UNCHANGED <<world, link, store, cursor, batch, errors, rejected, begun, faults>>

-----------------------------------------------------------------------------
(* The broker, the terminal and the host *)

\* A bar arrives at the terminal.  One that was cut off from its broker receives several
\* on end, but a run is short: at most one bar arrives while it lasts.
OpenBar ==
    /\ now < MaxBar
    /\ stage = "idle" \/ now = begun
    /\ now' = now + 1
    /\ \/ /\ shifted' = IF now \in shifted THEN shifted \cup {now + 1} ELSE shifted
          /\ UNCHANGED faults
       \/ /\ Fault("jump")
          /\ shifted' = IF now \in shifted THEN shifted ELSE shifted \cup {now + 1}
    /\ UNCHANGED <<unknown, terminal, link, store, stage, cursor, batch, run>>

\* The terminal stops answering; after a restart it no longer knows the
\* process that was connected to it.
TerminalStops ==
    /\ terminal
    /\ terminal' = FALSE
    /\ \/ Fault("blip") /\ UNCHANGED session
       \/ Fault("restart") /\ session' = FALSE
    /\ UNCHANGED <<now, shifted, unknown, connected, store, stage, cursor, batch, run>>

TerminalReturns ==
    /\ ~terminal
    /\ terminal' = TRUE
    /\ UNCHANGED <<now, shifted, unknown, link, store, stage, cursor, batch, run, faults>>

\* The process is killed and started again: the store and the row survive.
Kill ==
    /\ Fault("kill")
    /\ Disconnect
    /\ stage' = "idle" /\ cursor' = 1
    /\ ClearBatch
    /\ UNCHANGED <<world, store, run>>

Sync == \/ Poll \/ ResolveSymbol \/ ResolveFails
        \/ FetchDeep \/ FetchTip \/ FetchRange \/ RangeFallsBack \/ FetchFallback
        \/ FetchAgain \/ FetchFails \/ KeepTip \/ StoreBars \/ FinishRun

Next == Sync \/ OpenBar \/ TerminalStops \/ TerminalReturns \/ Kill

Spec == Init /\ [][Next]_vars

\* The resident polls for ever, and a terminal that stops comes back.
FairSpec == Spec /\ WF_vars(Sync) /\ WF_vars(TerminalReturns)

-----------------------------------------------------------------------------
(* Properties *)

Contiguous(B) == \A b, c \in B : b..c \subseteq B
NewestTwo(B) == {b \in B : \A c, d \in B : ~(b < c /\ c < d)}

\* What the store holds of a series is what the terminal had: there is no hole
\* in it, and a copy of a forming bar is only ever one of the two newest bars,
\* where the next tip replaces it.  The exceptions are the ones the code makes
\* itself: a batch with a hole (an answer that lacks bars, which no check turns down,
\* a failed range fetch whose tip is kept, a rejected bar), and a tip that begins just
\* behind the forming bars of the store with no range fetch to cover them
\* (sync_symbol's need_range).
StoreIsSound ==
    \A s \in Series \ holed :
       /\ Contiguous(bars[s])
       /\ s \notin outdated => forming[s] \subseteq NewestTwo(bars[s])

\* A run whose row says "completed", and that rejected nothing, left every
\* series at least as new as what the terminal had when the run began.
CompletedMeansCurrent ==
    status = "completed" /\ ~rejected =>
       \A s \in Series : bars[s] # {} /\ Max(bars[s]) >= begun

\* Whatever calls fail, however often the terminal goes away for a while and
\* however often the process is killed: the series the broker knows keep
\* being brought up to the newest bar of the terminal, one that fails not holding up the
\* others, as long as no price jump makes the filter reject bars.  The exception
\* is a terminal that was restarted behind a connector that still believes in its
\* connection: ensure_connection asks the flag only, so that no poll connects again.
Forgotten == connected /\ ~session
CatchesUp ==
    []<>(shifted # {} \/ Forgotten \/ \A s \in Series \ unknown : now \in bars[s])

=============================================================================
