---------------------------- MODULE RegimeSwitch ----------------------------
(***************************************************************************)
(* The regime of one symbol and timeframe, which decides what strategy may *)
(* enter and at what size.  RegimeAgent.assess scores the bars, classifies *)
(* them with hysteresis on the last confirmed label, asks the history      *)
(* whether the label is confirmed and appends its result to that history.  *)
(* It runs in several threads at once (the market proxy next to the symbol *)
(* itself) and in the processes that optimise; each SELECT and INSERT      *)
(* opens a connection of its own, so the others get in between.  Rows are  *)
(* read by the second their writer noted before it inserted, so a row that *)
(* arrives late is read as an older one.                                   *)
(***************************************************************************)
EXTENDS FiveState, Sequences, FiniteSets

CONSTANTS Assessors,    \* threads that assess the symbol
          Scores,       \* what the bars may score
          ConfirmBars,  \* regime.confirm_bars
          MaxRows,      \* bound on the rows of the history
          MaxSecond     \* bound on the clock

ASSUME RegimeAssumption ==
    Scores \subseteq ScoreRecords /\ {ConfirmBars, MaxRows, MaxSecond} \subseteq Nat

VARIABLES
    rows,     \* regime_history in the order of insertion
    second,   \* int(time.time())
    pc,       \* what each assessor does next
    raw,      \* the label it has detected
    label,    \* the classified, later the confirmed label
    last,     \* last_confirmed_label, as read
    switched, \* the flag and
    stamp,    \* the timestamp it is about to write
    \* history
    base,     \* rows there were when the assessor classified
    made      \* of each row: the rows its assessment began with

work == <<raw, label, last, switched, stamp, base>>
vars == <<rows, second, pc, work, made>>

Init ==
    /\ rows = << >> /\ made = << >> /\ second = 0
    /\ pc = [a \in Assessors |-> "idle"]
    /\ raw = [a \in Assessors |-> None] /\ label = [a \in Assessors |-> None]
    /\ last = [a \in Assessors |-> None]
    /\ switched = [a \in Assessors |-> FALSE]
    /\ stamp = [a \in Assessors |-> 0]
    /\ base = [a \in Assessors |-> 0]

-----------------------------------------------------------------------------
(* What the queries answer over the first n rows rs of a history           *)

\* ORDER BY timestamp: within one second the order is that of insertion.
Newer(rs, j, i) == rs[i].ts < rs[j].ts \/ (rs[i].ts = rs[j].ts /\ i < j)

\* ... DESC LIMIT m
Newest(rs, n, m) == {i \in 1..n : Cardinality({j \in 1..n : Newer(rs, j, i)}) < m}

\* last_confirmed_label
LastOf(rs, n) == IF n = 0 THEN None ELSE rs[CHOOSE i \in Newest(rs, n, 1) : TRUE].confirmed

\* recent_raw_labels
RecentOf(rs, n, m) == {rs[i].raw : i \in Newest(rs, n, m)}

LastConfirmed == LastOf(rows, Len(rows))
RecentRaw(m) == RecentOf(rows, Len(rows), m)

-----------------------------------------------------------------------------
(* RegimeHistoryStore.apply_confirmation                                   *)

Warm == Len(rows) >= ConfirmBars - 1

\* Mutants of Backed: any of the rows instead of all, and one row more.
BackedByOne(l) == Warm /\ l \in RecentRaw(ConfirmBars - 1)
BackedLate(l)  == Warm /\ RecentRaw(ConfirmBars) \subseteq {l}

\* The confirm_bars - 1 rows before have detected the label.
Backed(l) == Warm /\ RecentRaw(ConfirmBars - 1) \subseteq {l}

\* Mutant of Confirmed: a change that is pending leaves the last label in effect.
ConfirmedKeeps(l, lst) ==
    IF ConfirmBars <= 1 \/ Backed(l) \/ lst = None THEN l ELSE lst

\* The label that takes effect.  While a change is pending that is `uncertain`, but
\* the last label as long as the history is too short to tell.
Confirmed(l, lst) ==
    IF ConfirmBars <= 1 \/ Backed(l) \/ lst \in {None, l} THEN l
    ELSE IF Warm THEN "uncertain" ELSE lst

-----------------------------------------------------------------------------
(* RegimeAgent.assess, cut at its database reads                           *)

Goes(a, from, to) == pc[a] = from /\ pc' = [pc EXCEPT ![a] = to]

Classify(a) ==
    /\ Len(rows) + Cardinality({b \in Assessors : pc[b] # "idle"}) < MaxRows
    /\ Goes(a, "idle", "last")
    /\ \E s \in Scores : /\ raw' = [raw EXCEPT ![a] = RawLabel(s)]
                         /\ label' = [label EXCEPT ![a] = Classified(s, LastConfirmed)]
    /\ base' = [base EXCEPT ![a] = Len(rows)]
    /\ UNCHANGED <<rows, second, last, switched, stamp, made>>

ReadLast(a) ==
    /\ Goes(a, "last", "confirm")
    /\ last' = [last EXCEPT ![a] = LastConfirmed]
    /\ UNCHANGED <<rows, second, raw, label, switched, stamp, base, made>>

Confirm(a) ==
    /\ Goes(a, "confirm", "switch")
    /\ label' = [label EXCEPT ![a] = Confirmed(label[a], last[a])]
    /\ last' = [last EXCEPT ![a] = None]
    /\ UNCHANGED <<rows, second, raw, switched, stamp, base, made>>

\* record reads the last label once more, notes the time, then inserts.
ReadSwitch(a) ==
    /\ Goes(a, "switch", "stamp")
    /\ switched' = [switched EXCEPT ![a] = LastConfirmed \notin {None, label[a]} /\ label[a] # "uncertain"]
    /\ UNCHANGED <<rows, second, raw, label, last, stamp, base, made>>

Stamp(a) ==
    /\ Goes(a, "stamp", "insert")
    /\ stamp' = [stamp EXCEPT ![a] = second]
    /\ UNCHANGED <<rows, second, raw, label, last, switched, base, made>>

Insert(a) ==
    /\ Goes(a, "insert", "idle")
    /\ rows' = Append(rows, [raw |-> raw[a], confirmed |-> label[a], switched |-> switched[a],
                             ts |-> stamp[a]])
    /\ made' = Append(made, base[a])
    /\ raw' = [raw EXCEPT ![a] = None] /\ label' = [label EXCEPT ![a] = None]
    /\ switched' = [switched EXCEPT ![a] = FALSE] /\ stamp' = [stamp EXCEPT ![a] = 0]
    /\ base' = [base EXCEPT ![a] = 0]
    /\ UNCHANGED <<second, last>>

Assess(a) == \/ Classify(a) \/ ReadLast(a) \/ Confirm(a)
             \/ ReadSwitch(a) \/ Stamp(a) \/ Insert(a)

\* A second passes.
Tick ==
    /\ second < MaxSecond /\ second' = second + 1
    /\ UNCHANGED <<rows, pc, work, made>>

Next == Tick \/ \E a \in Assessors : Assess(a)

Spec == Init /\ [][Next]_vars

-----------------------------------------------------------------------------
(* Properties                                                              *)

\* Rows hold labels only; an assessment in flight holds what its next step needs.
TypeOK ==
    /\ rows \in Seq([raw : Labels, confirmed : Labels, switched : BOOLEAN, ts : Nat])
    /\ second \in Nat
    /\ made \in Seq(Nat) /\ Len(made) = Len(rows)
    /\ \A i \in 1..Len(made) : made[i] < i
    /\ pc \in [Assessors -> {"idle", "last", "confirm", "switch", "stamp", "insert"}]
    /\ raw \in [Assessors -> Labels \cup {None}] /\ label \in [Assessors -> Labels \cup {None}]
    /\ \A a \in Assessors : pc[a] # "idle" => raw[a] \in Labels /\ label[a] \in Labels
    /\ last \in [Assessors -> Labels \cup {None}]
    /\ switched \in [Assessors -> BOOLEAN] /\ stamp \in [Assessors -> Nat]
    /\ base \in [Assessors -> 0..Len(rows)]

\* The assessment of row i overlapped with no other one.
Alone(i) == made[i] = i - 1

\* README.md: in stress no new entries are made.  Once confirm_bars - 1 rows exist, a
\* stress that is detected stops entries in the same assessment, confirmed or
\* not and whatever the other threads write meanwhile.
StressHalts ==
    \A i \in 1..Len(rows) :
        rows[i].raw = "stress" /\ made[i] >= ConfirmBars - 1 => Scale(rows[i].confirmed) = 0

\* A label that allows entries takes effect anew only when, at some time during its
\* assessment, the confirm_bars - 1 newest rows had all detected it: however the
\* rows of several threads mix, and though one that was noted earlier may arrive
\* later and be read as the older one.
ChangeIsBacked ==
    \A i \in 1..Len(rows) :
        LET l == rows[i].confirmed IN
        /\ l \notin HaltStates /\ made[i] > 0 /\ made[i] >= ConfirmBars - 1
        /\ \A k \in made[i]..(i - 1) : LastOf(rows, k) # l
        => \E k \in made[i]..(i - 1) : RecentOf(rows, k, ConfirmBars - 1) \subseteq {l}

\* The strategy never turns from one family to the other without a halt between:
\* an assessment that overlaps with no other one keeps the family of the label
\* that was in effect, whoever wrote it and in whatever order.
NoDirectFlip ==
    \A i \in 2..Len(rows) :
        Alone(i) /\ {LastOf(rows, i - 1), rows[i].confirmed} \cap HaltStates = {}
            => Strategy(rows[i].confirmed) = Strategy(LastOf(rows, i - 1))

\* What "confirmed" takes at least: from one family to the other the way leads through
\* an assessment that is uncertain, with confirm_bars = 1 too.
FollowBars == IF ConfirmBars < 2 THEN 2 ELSE ConfirmBars

\* The suppression is bounded: a clear regime that is detected confirm_bars times
\* in succession is in effect, whatever was before.
FollowsDetection ==
    \A i \in 1..Len(rows) :
        LET run == {k \in 1..i : k + FollowBars > i} IN
        /\ i >= FollowBars /\ \A k \in run : Alone(k) /\ rows[k].raw = rows[i].raw
        /\ rows[i].raw \in {"stable_trend", "stable_range", "stress"}
        => rows[i].confirmed = rows[i].raw
=============================================================================
