-------------------------- MODULE FiveStateProofs --------------------------
(***************************************************************************)
(* Proofs about the two users of FiveState, the live detector and the      *)
(* parameter matrix.                                                       *)
(*                                                                         *)
(* RegimeSwitch: type correctness; a detected stress stops entries; a      *)
(* change of label is backed by detections; the strategy never flips       *)
(* without a halt.  For any number of threads and any thresholds.          *)
(*                                                                         *)
(* ParameterLoop: a search is stopped early for its causes and for nothing *)
(* else; the best result is that of the values adopted so far; and no bar  *)
(* that comes later is seen by a signal, an indicator or a label.  For any *)
(* histories and move sets.  The last one is about recursive functions of  *)
(* the bars: each is shown to be the same on two histories that agree up   *)
(* to a bar, layer by layer from the smoothing to the backtest's trades.   *)
(***************************************************************************)
EXTENDS RegimeSwitch, ParameterLoop, Indicators, FiniteSetTheorems, SequenceTheorems, WellFoundedInduction, TLAPS

\* Two labels that a row and the next one may confirm.
Compatible(l, m) == l \in HaltStates \/ m \in HaltStates \/ Strategy(l) = Strategy(m)

\* Since the assessment began, which found b rows, the label was in effect ...
WasInEffect(l, b) == \E q \in b..Len(rows) : LastOf(rows, q) = l

\* ... or the confirm_bars - 1 newest rows had all detected it.
WasBacked(l, b) == \E q \in b..Len(rows) : RecentOf(rows, q, ConfirmBars - 1) \subseteq {l}

\* A label on its way to a row takes effect anew only when it was backed.
Behind(a) ==
    /\ pc[a] = "confirm" /\ base[a] > 0 => WasInEffect(last[a], base[a])
    /\ pc[a] \in {"switch", "stamp", "insert"} /\ base[a] > 0 /\ base[a] >= ConfirmBars - 1
         => label[a] \in HaltStates \/ WasInEffect(label[a], base[a]) \/ WasBacked(label[a], base[a])

Clear == {"stable_trend", "stable_range", "stress"}

\* How hysteresis treats a clear label that is detected.
Held(r, l, previous) ==
    r \in Clear => /\ l \in {r, "uncertain"}
                   /\ r = "stress" \/ previous \in {None, r, "uncertain"} => l = r

\* How the confirmation then treats it: detected r, in effect l, after `previous`.
Follows(r, l, previous) ==
    r \in Clear => /\ Warm => l \in {r, "uncertain"}
                   /\ previous \in {None, r} => l = r
                   /\ (r = "stress" \/ previous = "uncertain") /\ (ConfirmBars <= 1 \/ Backed(r)) => l = r

\* What an assessment in flight knows: a stress is not lost, and while no other
\* row has been written its label fits the last one.
Knows(a) ==
    /\ pc[a] \in {"last", "confirm"} /\ raw[a] = "stress" => label[a] = "stress"
    /\ pc[a] \in {"switch", "stamp", "insert"} /\ raw[a] = "stress" /\ base[a] >= ConfirmBars - 1
         => label[a] \in HaltStates
    /\ pc[a] # "idle" /\ base[a] = Len(rows) /\ rows # << >> => Compatible(label[a], LastConfirmed)
    /\ pc[a] = "confirm" /\ base[a] = Len(rows) => last[a] = LastConfirmed
    /\ pc[a] \in {"last", "confirm"} /\ base[a] = Len(rows) => Held(raw[a], label[a], LastConfirmed)
    /\ pc[a] \in {"switch", "stamp", "insert"} /\ base[a] = Len(rows) => Follows(raw[a], label[a], LastConfirmed)

InFlight == \A a \in Assessors : Knows(a)
AllBehind == \A a \in Assessors : Behind(a)

\* The confirm_bars - 1 newest rows before row i have detected the label.
BackedAt(l, i) == i > ConfirmBars - 1 /\ RecentOf(rows, i - 1, ConfirmBars - 1) \subseteq {l}

\* No row is of a later second than the clock, one that was written alone is the
\* newest of its time, and there always is a newest row.
Timed ==
    /\ \A i \in 1..Len(rows) : rows[i].ts <= second
    /\ \A a \in Assessors : pc[a] = "insert" =>
          stamp[a] <= second /\ \A i \in 1..base[a] : rows[i].ts <= stamp[a]
    /\ \A i \in 1..Len(rows) : Alone(i) => \A j \in 1..i : rows[j].ts <= rows[i].ts
    /\ \A n \in 1..Len(rows) : Newest(rows, n, 1) # {}

\* A row written alone follows what it detected, as far as one row can tell ...
RowFollows(i) ==
    Alone(i) /\ rows[i].raw \in Clear =>
        LET r == rows[i].raw
            l == rows[i].confirmed
        IN  /\ i > ConfirmBars - 1 => l \in {r, "uncertain"}
            /\ LastOf(rows, i - 1) \in {None, r} => l = r
            /\ (r = "stress" \/ LastOf(rows, i - 1) = "uncertain") /\ (ConfirmBars <= 1 \/ BackedAt(r, i))
                  => l = r

RowsFollow == \A i \in 1..Len(rows) : RowFollows(i)

\* ... and a clear label that was detected from the first row on is in effect.
FromTheFirst ==
    \A i \in 1..Len(rows) :
        rows[i].raw \in Clear /\ (\A k \in 1..i : Alone(k) /\ rows[k].raw = rows[i].raw)
            => rows[i].confirmed = rows[i].raw

Invariant ==
    /\ TypeOK /\ Timed /\ InFlight /\ AllBehind /\ StressHalts /\ NoDirectFlip /\ ChangeIsBacked
    /\ RowsFollow /\ FromTheFirst

Row == [raw : Labels, confirmed : Labels, switched : BOOLEAN, ts : Nat]
Made == Nat

-----------------------------------------------------------------------------
(* The operators                                                           *)

\* Every score is detected as one of the six labels.
LEMMA RawType == \A s \in Scores : RawLabel(s) \in Labels
  BY SMT DEF RawLabel, Labels, TrendStates, RangeStates, HaltStates

\* Hysteresis yields a label again.
LEMMA ClassifiedType ==
  ASSUME NEW s \in Scores, NEW previous \in Labels \cup {None}
  PROVE  Classified(s, previous) \in Labels
  BY RawType, SMT DEF Classified, Labels, TrendStates, RangeStates, HaltStates, None

\* A detected stress passes the hysteresis.
LEMMA ClassifiedStress ==
  ASSUME NEW s \in Scores, NEW previous, RawLabel(s) = "stress"
  PROVE  Classified(s, previous) = "stress"
  BY SMT DEF Classified

\* Hysteresis never leaves one family for the other.
LEMMA ClassifiedFamily ==
  ASSUME NEW s \in Scores, NEW previous \in Labels
  PROVE  Compatible(Classified(s, previous), previous)
  BY RawType, SMT DEF Classified, Compatible, Strategy, Labels, TrendStates, RangeStates, HaltStates, None

\* The confirmation yields a label again.
LEMMA ConfirmedType ==
  ASSUME NEW l \in Labels, NEW m \in Labels \cup {None}
  PROVE  Confirmed(l, m) \in Labels
  BY SMT DEF Confirmed, Labels, HaltStates, None

\* It never leaves one family for the other.
LEMMA ConfirmedFamily ==
  ASSUME NEW l \in Labels, NEW m \in Labels, Compatible(l, m)
  PROVE  Compatible(Confirmed(l, m), m)
  BY SMT DEF Confirmed, Compatible, Strategy, Labels, TrendStates, RangeStates, HaltStates, None

\* With enough rows a stress is confirmed or pending, and both stop entries.
LEMMA ConfirmedStress ==
  ASSUME Warm, NEW m
  PROVE  Confirmed("stress", m) \in HaltStates
  BY SMT DEF Confirmed, HaltStates

\* A clear label passes the hysteresis unless another family is in effect.
LEMMA ClassifiedHeld ==
  ASSUME NEW s \in Scores, NEW previous \in Labels \cup {None}
  PROVE  Held(RawLabel(s), Classified(s, previous), previous)
  <1> USE RegimeAssumption, FiveStateAssumption DEF ScoreRecords, Thresholds
  <1>1. s.trend \in Nat /\ s.er \in Nat /\ s.vol \in Nat /\ Thresholds \subseteq Nat
    BY SMT
  <1>2. CASE previous \in {None, "uncertain"} \/ RawLabel(s) = "stress"
    BY <1>2, SMT DEF Classified, Held, Clear, None, Labels, TrendStates, RangeStates, HaltStates
  <1>3. CASE previous \in TrendStates /\ RawLabel(s) = "stable_trend"
    <2>1. StillTrend(s) => ~(s.vol >= HighVol)
      BY <1>1, <1>3, SMT DEF RawLabel
    <2> QED BY <1>3, <2>1, SMT DEF Classified, Held, Clear, None, TrendStates, RangeStates
  <1>4. CASE previous \in TrendStates /\ RawLabel(s) = "stable_range"
    <2>1. ~StillTrend(s)
      BY <1>1, <1>4, SMT DEF RawLabel, IsRanging, StillTrend
    <2> QED BY <1>4, <2>1, SMT DEF Classified, Held, Clear, None, TrendStates, RangeStates
  <1>5. CASE previous = "stable_range" /\ RawLabel(s) = "stable_trend"
    <2>1. ~StillRange(s)
      BY <1>1, <1>5, SMT DEF RawLabel, IsTrending, StillRange
    <2> QED BY <1>5, <2>1, SMT DEF Classified, Held, Clear, None, TrendStates, RangeStates
  <1>6. CASE previous = "stable_range" /\ RawLabel(s) = "stable_range"
    <2>1. s.vol < HighVol
      BY <1>1, <1>6, SMT DEF RawLabel
    <2> QED BY <1>6, <2>1, SMT DEF Classified, Held, Clear, None, TrendStates, RangeStates
  <1>7. CASE previous \in {"high_vol_chop", "stress"} /\ RawLabel(s) # "stress"
    BY <1>7, SMT DEF Classified, Held, Clear, None, TrendStates, RangeStates
  <1>8. CASE RawLabel(s) \notin Clear
    BY <1>8 DEF Held
  <1> QED BY <1>2, <1>3, <1>4, <1>5, <1>6, <1>7, <1>8 DEF Labels, TrendStates, RangeStates, HaltStates, Clear

\* A clear label that is held back is pending, and is in effect when backed.
LEMMA ConfirmedFollows ==
  ASSUME NEW r, NEW l, NEW m, Held(r, l, m)
  PROVE  Follows(r, Confirmed(l, m), m)
  <1>1. CASE r \in Clear /\ l = r
    BY <1>1 DEF Follows, Confirmed
  <1>2. CASE r \in Clear /\ l = "uncertain" /\ ~(r = "stress" \/ m \in {None, r, "uncertain"})
    BY <1>2 DEF Follows, Confirmed
  <1>3. CASE r \notin Clear
    BY <1>3 DEF Follows
  <1> QED BY <1>1, <1>2, <1>3 DEF Held

\* With enough rows what is confirmed halts, is in effect already, or is backed.
LEMMA ConfirmedBehind ==
  ASSUME Warm, NEW l, NEW m
  PROVE  \/ Confirmed(l, m) \in HaltStates
         \/ Confirmed(l, m) = l /\ (ConfirmBars <= 1 \/ Backed(l) \/ m = None \/ m = l)
  BY DEF Confirmed, HaltStates

\* Labels that stop entries have no size.
LEMMA HaltScale == \A l \in HaltStates : Scale(l) = 0
  BY SMT DEF Scale, HaltStates

\* The newest row is the one that none is newer than.
LEMMA NewestOne ==
  ASSUME NEW rs, NEW n \in Nat
  PROVE  \A i : i \in Newest(rs, n, 1) <=> i \in 1..n /\ \A j \in 1..n : ~Newer(rs, j, i)
  <1>1. IsFiniteSet(1..n)
    BY FS_Interval, SMT
  <1> SUFFICES ASSUME NEW i \in 1..n
               PROVE  Cardinality({j \in 1..n : Newer(rs, j, i)}) < 1 <=> \A j \in 1..n : ~Newer(rs, j, i)
    BY DEF Newest
  <1> DEFINE S == {j \in 1..n : Newer(rs, j, i)}
  <1>2. IsFiniteSet(S)
    BY <1>1, FS_Subset
  <1>3. Cardinality(S) \in Nat /\ (Cardinality(S) = 0 <=> S = {})
    BY <1>2, FS_CardinalityType, FS_EmptySet
  <1>4. Cardinality(S) < 1 <=> S = {}
    BY <1>3, SMT
  <1> QED BY <1>4

\* What the queries answer over the first rows does not change with later ones.
LEMMA SamePrefix ==
  ASSUME NEW rs, NEW ss, NEW n \in Nat, \A i \in 1..n : ss[i] = rs[i]
  PROVE  /\ \A m : Newest(ss, n, m) = Newest(rs, n, m) /\ RecentOf(ss, n, m) = RecentOf(rs, n, m)
         /\ Newest(rs, n, 1) # {} => LastOf(ss, n) = LastOf(rs, n)
  <1>1. \A i \in 1..n : {j \in 1..n : Newer(ss, j, i)} = {j \in 1..n : Newer(rs, j, i)}
    BY DEF Newer
  <1>2. ASSUME NEW m PROVE Newest(ss, n, m) = Newest(rs, n, m)
    BY <1>1 DEF Newest
  <1>3. \A m : \A i \in Newest(rs, n, m) : i \in 1..n
    BY DEF Newest
  <1>4. ASSUME NEW m PROVE RecentOf(ss, n, m) = RecentOf(rs, n, m)
    BY <1>2, <1>3 DEF RecentOf
  <1>5. ASSUME Newest(rs, n, 1) # {} PROVE LastOf(ss, n) = LastOf(rs, n)
    <2> DEFINE c == CHOOSE i \in Newest(rs, n, 1) : TRUE
            d == CHOOSE i \in Newest(ss, n, 1) : TRUE
    <2>1. d = c
      BY <1>2
    <2>2. c \in 1..n
      BY <1>3, <1>5
    <2>3. LastOf(ss, n) = IF n = 0 THEN None ELSE ss[d].confirmed
      BY DEF LastOf
    <2>4. LastOf(rs, n) = IF n = 0 THEN None ELSE rs[c].confirmed
      BY DEF LastOf
    <2> HIDE DEF c, d
    <2> QED BY <2>1, <2>2, <2>3, <2>4
  <1> QED BY <1>2, <1>4, <1>5

\* The label in effect is that of the newest row.
LEMMA LastIs ==
  ASSUME NEW rs, NEW n \in Nat, \A k \in 1..n : rs[k].ts \in Nat, NEW i \in Newest(rs, n, 1)
  PROVE  i \in 1..n /\ LastOf(rs, n) = rs[i].confirmed
  <1> DEFINE c == CHOOSE k \in Newest(rs, n, 1) : TRUE
  <1>1. c \in Newest(rs, n, 1)
    OBVIOUS
  <1> HIDE DEF c
  <1>2. c \in 1..n /\ i \in 1..n /\ ~Newer(rs, c, i) /\ ~Newer(rs, i, c)
    BY <1>1, NewestOne
  <1>3. c = i
    BY <1>2, SMT DEF Newer
  <1>4. n # 0
    BY <1>2, SMT
  <1> QED BY <1>2, <1>3, <1>4 DEF LastOf, c

\* A row that none of those before it is newer than is the newest of them.
LEMMA TopIsNewest ==
  ASSUME NEW rs, NEW n \in Nat, n > 0, \A k \in 1..n : rs[k].ts \in Nat /\ rs[k].ts <= rs[n].ts
  PROVE  n \in Newest(rs, n, 1)
  <1>1. n \in 1..n /\ \A j \in 1..n : ~Newer(rs, j, n)
    BY SMT DEF Newer
  <1> QED BY <1>1, NewestOne

\* Rows are rows.
LEMMA RowType ==
  ASSUME TypeOK
  PROVE  /\ rows \in Seq(Row) /\ Len(rows) \in Nat /\ (rows = << >> <=> Len(rows) = 0)
         /\ \A i \in 1..Len(rows) : /\ rows[i].ts \in Nat /\ rows[i].raw \in Labels
                                    /\ rows[i].confirmed \in Labels
  <1>1. rows \in Seq(Row)
    BY DEF TypeOK, Row
  <1> HIDE DEF Row
  <1>2. /\ Len(rows) \in Nat /\ (rows = << >> <=> Len(rows) = 0)
        /\ \A i \in 1..Len(rows) : rows[i] \in Row
    BY <1>1, SMT
  <1>3. \A x \in Row : x.ts \in Nat /\ x.raw \in Labels /\ x.confirmed \in Labels
    BY DEF Row
  <1> QED BY <1>1, <1>2, <1>3

\* What was in effect after so many rows is a label, or None before the first one.
LEMMA LastType ==
  ASSUME TypeOK, Timed
  PROVE  /\ \A n \in 1..Len(rows) : LastOf(rows, n) \in Labels
         /\ LastConfirmed \in Labels \cup {None}
         /\ rows # << >> => LastConfirmed \in Labels
         /\ rows = << >> => LastConfirmed = None
  <1>1. ASSUME NEW n \in 1..Len(rows) PROVE LastOf(rows, n) \in Labels
    <2>1. n \in Nat /\ \A k \in 1..n : k \in 1..Len(rows)
      BY RowType, SMT
    <2>2. PICK i : i \in Newest(rows, n, 1)
      BY DEF Timed
    <2>3. i \in 1..n /\ LastOf(rows, n) = rows[i].confirmed
      BY <2>1, <2>2, RowType, LastIs
    <2> QED BY <2>1, <2>3, RowType
  <1>2. ASSUME rows # << >> PROVE Len(rows) \in 1..Len(rows)
    BY <1>2, RowType, SMT
  <1>3. ASSUME rows = << >> PROVE LastConfirmed = None
    BY <1>3, RowType DEF LastConfirmed, LastOf
  <1> QED BY <1>1, <1>2, <1>3 DEF LastConfirmed

\* The labels apply_confirmation looks at are those of confirm_bars - 1 rows.
LEMMA BackedRows ==
  ASSUME TypeOK, NEW l
  PROVE  /\ Backed(l) <=> BackedAt(l, Len(rows) + 1)
         /\ ConfirmBars <= 1 \/ Backed(l) => RecentOf(rows, Len(rows), ConfirmBars - 1) \subseteq {l}
  <1>1. Len(rows) \in Nat /\ ConfirmBars \in Nat
    BY RowType, RegimeAssumption
  <1>2. (Warm <=> Len(rows) + 1 > ConfirmBars - 1) /\ (Len(rows) + 1) - 1 = Len(rows)
    BY <1>1, SMT DEF Warm
  <1>3. Backed(l) <=> BackedAt(l, Len(rows) + 1)
    BY <1>2 DEF Backed, BackedAt, RecentRaw
  <1>4. ASSUME ConfirmBars <= 1 PROVE RecentOf(rows, Len(rows), ConfirmBars - 1) = {}
    <2>1. ASSUME NEW i \in Newest(rows, Len(rows), ConfirmBars - 1) PROVE FALSE
      <3> DEFINE S == {j \in 1..Len(rows) : Newer(rows, j, i)}
      <3>1. IsFiniteSet(1..Len(rows))
        BY <1>1, FS_Interval, SMT
      <3>2. Cardinality(S) \in Nat
        BY <3>1, FS_Subset, FS_CardinalityType
      <3>3. Cardinality(S) < ConfirmBars - 1
        BY DEF Newest
      <3> HIDE DEF S
      <3> QED BY <1>1, <1>4, <3>2, <3>3, SMT
    <2> QED BY <2>1 DEF RecentOf
  <1> QED BY <1>3, <1>4 DEF Backed, RecentRaw

-----------------------------------------------------------------------------
(* Type correctness                                                        *)

\* The empty history and idle assessors have their types.
LEMMA TypeInit == ASSUME Init PROVE TypeOK
  <1> USE RegimeAssumption, FiveStateAssumption DEF ScoreRecords
  <1>1. rows \in Seq(Row) /\ made \in Seq(Made) /\ Len(made) = Len(rows) /\ Len(rows) = 0
    BY SMT DEF Init, Row, Made
  <1> QED BY <1>1, SMT DEF Init, TypeOK, Row, Made

\* Each step of an assessment keeps the types.
LEMMA TypeStep == ASSUME TypeOK, Timed, [Next]_vars PROVE TypeOK'
  <1> USE RegimeAssumption, FiveStateAssumption DEF ScoreRecords
  <1>2. CASE Tick
    BY <1>2, SMT DEF TypeOK, Tick, work
  <1>0. /\ rows \in Seq(Row) /\ made \in Seq(Made) /\ Len(made) = Len(rows) /\ Len(rows) \in Nat
        /\ \A i \in 1..Len(made) : made[i] < i
    BY SMT DEF TypeOK, Row, Made
  <1>1. CASE UNCHANGED vars
    BY <1>1 DEF TypeOK, vars, work
  <1>3. ASSUME NEW a \in Assessors, Classify(a) PROVE TypeOK'
    <2>1. PICK s \in Scores : /\ raw' = [raw EXCEPT ![a] = RawLabel(s)]
                              /\ label' = [label EXCEPT ![a] = Classified(s, LastConfirmed)]
      BY <1>3 DEF Classify
    <2>2. RawLabel(s) \in Labels /\ Classified(s, LastConfirmed) \in Labels
      BY RawType, ClassifiedType, LastType
    <2>3. /\ pc' = [pc EXCEPT ![a] = "last"] /\ base' = [base EXCEPT ![a] = Len(rows)]
          /\ UNCHANGED <<rows, second, last, switched, stamp, made>>
      BY <1>3 DEF Classify, Goes
    <2> HIDE DEF Labels
    <2> QED BY <1>0, <2>1, <2>2, <2>3, SMT DEF TypeOK
  <1>4. ASSUME NEW a \in Assessors, ReadLast(a) PROVE TypeOK'
    <2>1. LastConfirmed \in Labels \cup {None}
      BY LastType
    <2> QED BY <1>4, <2>1, SMT DEF TypeOK, ReadLast, Goes
  <1>5. ASSUME NEW a \in Assessors, Confirm(a) PROVE TypeOK'
    <2>1. Confirmed(label[a], last[a]) \in Labels
      BY <1>5, ConfirmedType DEF TypeOK, Confirm, Goes
    <2> QED BY <1>5, <2>1, SMT DEF TypeOK, Confirm, Goes
  <1>6. ASSUME NEW a \in Assessors, ReadSwitch(a) PROVE TypeOK'
    <2>1. (LastConfirmed \notin {None, label[a]} /\ label[a] # "uncertain") \in BOOLEAN
      OBVIOUS
    <2> QED BY <1>6, <2>1, SMT DEF TypeOK, ReadSwitch, Goes
  <1>8. ASSUME NEW a \in Assessors, Stamp(a) PROVE TypeOK'
    BY <1>8, SMT DEF TypeOK, Stamp, Goes
  <1>7. ASSUME NEW a \in Assessors, Insert(a) PROVE TypeOK'
    <2> DEFINE r == [raw |-> raw[a], confirmed |-> label[a], switched |-> switched[a], ts |-> stamp[a]]
               m == base[a]
    <2>1. r \in Row /\ m \in Made /\ base[a] \in 0..Len(rows)
      BY <1>7, SMT DEF TypeOK, Insert, Goes, Row, Made
    <2>2. rows' = Append(rows, r) /\ made' = Append(made, m)
      BY <1>7 DEF Insert
    <2> HIDE DEF r, Row, Made
    <2>3. rows' \in Seq(Row) /\ made' \in Seq(Made) /\ Len(rows') = Len(rows) + 1 /\ Len(made') = Len(rows')
      BY <1>0, <2>1, <2>2, SMT
    <2>4. \A i \in 1..Len(made') : made'[i] < i
      <3> SUFFICES ASSUME NEW i \in 1..Len(made') PROVE made'[i] < i
        OBVIOUS
      <3>1. CASE i \in 1..Len(made)
        BY <1>0, <2>2, <3>1, SMT
      <3>2. CASE i = Len(rows) + 1
        <4>1. made'[i] = m
          BY <1>0, <2>2, <3>2, SMT
        <4> QED BY <1>0, <2>1, <3>2, <4>1, SMT
      <3> QED BY <1>0, <2>3, <3>1, <3>2, SMT
    <2>5. base' \in [Assessors -> 0..Len(rows')]
      BY <1>0, <1>7, <2>3, SMT DEF TypeOK, Insert
    <2> QED BY <1>7, <2>3, <2>4, <2>5, SMT DEF TypeOK, Insert, Goes, Row, Made
  <1> QED BY <1>1, <1>2, <1>3, <1>4, <1>5, <1>6, <1>7, <1>8 DEF Next, Assess

-----------------------------------------------------------------------------
(* What is in flight                                                       *)

\* A step of one assessor disturbs what another one knows only by a new row, and
\* then the other is no longer alone.
LEMMA Others ==
  ASSUME TypeOK, InFlight, NEW a \in Assessors, NEW b \in Assessors, a # b, Assess(a)
  PROVE  /\ pc'[b] = pc[b] /\ raw'[b] = raw[b] /\ label'[b] = label[b]
         /\ last'[b] = last[b] /\ base'[b] = base[b]
         /\ rows' = rows \/ (Len(rows') = Len(rows) + 1 /\ base'[b] # Len(rows'))
  <1>1. rows \in Seq(Row) /\ base[b] \in 0..Len(rows) /\ Len(rows) \in Nat
    BY SMT DEF TypeOK, Row
  <1> HIDE DEF Row
  <1>2. CASE Classify(a)
    BY <1>2, SMT DEF TypeOK, Classify, Goes
  <1>3. CASE ReadLast(a)
    BY <1>3, SMT DEF TypeOK, ReadLast, Goes
  <1>4. CASE Confirm(a)
    BY <1>4, SMT DEF TypeOK, Confirm, Goes
  <1>5. CASE ReadSwitch(a)
    BY <1>5, SMT DEF TypeOK, ReadSwitch, Goes
  <1>7. CASE Stamp(a)
    BY <1>7, SMT DEF TypeOK, Stamp, Goes
  <1>6. CASE Insert(a)
    <2>1. PICK r : rows' = Append(rows, r)
      BY <1>6 DEF Insert
    <2>2. Len(rows') = Len(rows) + 1
      BY <1>1, <2>1, SMT
    <2> QED BY <1>1, <1>6, <2>2, SMT DEF TypeOK, Insert, Goes
  <1> QED BY <1>2, <1>3, <1>4, <1>5, <1>6, <1>7 DEF Assess

\* What follows from the rows follows from the same rows.
LEMMA SameRows ==
  ASSUME rows' = rows
  PROVE  \A r, l, m : Follows(r, l, m)' <=> Follows(r, l, m)
  <1>1. Warm' <=> Warm
    BY DEF Warm
  <1>2. \A l : Backed(l)' <=> Backed(l)
    BY DEF Backed, Warm, RecentRaw
  <1> QED BY <1>1, <1>2 DEF Follows

\* The step of an assessor establishes what it then knows.
LEMMA OwnStep ==
  ASSUME TypeOK, Timed, NEW a \in Assessors, Knows(a), Assess(a)
  PROVE  Knows(a)'
  <1> USE RegimeAssumption, FiveStateAssumption DEF ScoreRecords
  <1>0. Len(rows) \in Nat /\ base[a] \in 0..Len(rows) /\ (rows = << >> <=> Len(rows) = 0)
    BY SMT DEF TypeOK
  <1>1. LastConfirmed \in Labels \cup {None} /\ (rows # << >> => LastConfirmed \in Labels)
    BY LastType
  <1>2. CASE Classify(a)
    <2>1. PICK s \in Scores : raw'[a] = RawLabel(s) /\ label'[a] = Classified(s, LastConfirmed)
      BY <1>2 DEF TypeOK, Classify
    <2>2. pc'[a] = "last" /\ rows' = rows /\ LastConfirmed' = LastConfirmed
      BY <1>2 DEF TypeOK, Classify, Goes, LastConfirmed
    <2>3. raw'[a] = "stress" => label'[a] = "stress"
      BY <2>1, ClassifiedStress
    <2>4. rows # << >> => Compatible(label'[a], LastConfirmed)
      BY <1>1, <2>1, ClassifiedFamily
    <2>5. Held(raw'[a], label'[a], LastConfirmed)
      BY <1>1, <2>1, ClassifiedHeld
    <2> QED BY <2>2, <2>3, <2>4, <2>5 DEF Knows, Compatible, Held
  <1>3. CASE ReadLast(a)
    <2>1. /\ pc[a] = "last" /\ pc'[a] = "confirm" /\ rows' = rows /\ LastConfirmed' = LastConfirmed
          /\ raw'[a] = raw[a] /\ label'[a] = label[a] /\ base'[a] = base[a] /\ last'[a] = LastConfirmed
      BY <1>3 DEF TypeOK, ReadLast, Goes, LastConfirmed
    <2> QED BY <2>1 DEF Knows, Compatible, Held
  <1>4. CASE Confirm(a)
    <2>1. /\ pc[a] = "confirm" /\ pc'[a] = "switch" /\ rows' = rows /\ LastConfirmed' = LastConfirmed
          /\ raw'[a] = raw[a] /\ label'[a] = Confirmed(label[a], last[a]) /\ base'[a] = base[a]
      BY <1>4 DEF TypeOK, Confirm, Goes, LastConfirmed
    <2>2. raw[a] = "stress" /\ base[a] >= ConfirmBars - 1 => label'[a] \in HaltStates
      <3> SUFFICES ASSUME raw[a] = "stress", base[a] >= ConfirmBars - 1 PROVE label'[a] \in HaltStates
        OBVIOUS
      <3>1. Warm
        BY <1>0, SMT DEF Warm
      <3>2. label[a] = "stress"
        BY <2>1 DEF Knows
      <3> QED BY <2>1, <3>1, <3>2, ConfirmedStress
    <2>3. base[a] = Len(rows) /\ rows # << >> => Compatible(label'[a], LastConfirmed)
      <3> SUFFICES ASSUME base[a] = Len(rows), rows # << >> PROVE Compatible(label'[a], LastConfirmed)
        OBVIOUS
      <3>1. Compatible(label[a], LastConfirmed) /\ last[a] = LastConfirmed /\ label[a] \in Labels
        BY <2>1 DEF Knows, TypeOK
      <3> QED BY <1>1, <2>1, <3>1, ConfirmedFamily
    <2>4. base[a] = Len(rows) => Follows(raw[a], label'[a], LastConfirmed)
      BY <2>1, ConfirmedFollows DEF Knows
    <2> QED BY <2>1, <2>2, <2>3, <2>4, SameRows DEF Knows, Compatible
  <1>5. CASE ReadSwitch(a)
    <2>1. /\ pc[a] = "switch" /\ pc'[a] = "stamp" /\ rows' = rows /\ LastConfirmed' = LastConfirmed
          /\ raw'[a] = raw[a] /\ label'[a] = label[a] /\ base'[a] = base[a]
      BY <1>5 DEF TypeOK, ReadSwitch, Goes, LastConfirmed
    <2>2. base[a] = Len(rows) => Follows(raw[a], label[a], LastConfirmed)
      BY <2>1 DEF Knows
    <2> QED BY <2>1, <2>2, SameRows DEF Knows, Compatible
  <1>7. CASE Stamp(a)
    <2>1. /\ pc[a] = "stamp" /\ pc'[a] = "insert" /\ rows' = rows /\ LastConfirmed' = LastConfirmed
          /\ raw'[a] = raw[a] /\ label'[a] = label[a] /\ base'[a] = base[a]
      BY <1>7 DEF TypeOK, Stamp, Goes, LastConfirmed
    <2>2. base[a] = Len(rows) => Follows(raw[a], label[a], LastConfirmed)
      BY <2>1 DEF Knows
    <2> QED BY <2>1, <2>2, SameRows DEF Knows, Compatible
  <1>6. CASE Insert(a)
    <2>1. pc'[a] = "idle"
      BY <1>6 DEF TypeOK, Insert, Goes
    <2> QED BY <2>1 DEF Knows
  <1> QED BY <1>2, <1>3, <1>4, <1>5, <1>6, <1>7 DEF Assess

\* Knows survives the steps of the others.
LEMMA InFlightStep == ASSUME TypeOK, Timed, InFlight, [Next]_vars PROVE InFlight'
  <1>1. CASE UNCHANGED vars \/ Tick
    <2>1. rows' = rows /\ UNCHANGED <<pc, raw, label, last, base>> /\ LastConfirmed' = LastConfirmed
      BY <1>1 DEF Tick, vars, work, LastConfirmed
    <2> QED BY <2>1, SameRows DEF InFlight, Knows, Compatible, Held
  <1>3. ASSUME NEW a \in Assessors, Assess(a) PROVE InFlight'
    <2> SUFFICES ASSUME NEW b \in Assessors PROVE Knows(b)'
      BY DEF InFlight
    <2>1. CASE b = a
      BY <1>3, <2>1, OwnStep DEF InFlight
    <2>2. CASE b # a
      <3>1. /\ pc'[b] = pc[b] /\ raw'[b] = raw[b] /\ label'[b] = label[b]
            /\ last'[b] = last[b] /\ base'[b] = base[b]
            /\ rows' = rows \/ base'[b] # Len(rows')
        BY <1>3, <2>2, Others
      <3>2. rows' = rows => LastConfirmed' = LastConfirmed
        BY DEF LastConfirmed
      <3>3. Knows(b)
        BY DEF InFlight
      <3>4. rows' = rows => \A p, l, m : Follows(p, l, m)' <=> Follows(p, l, m)
        BY SameRows
      <3> QED BY <3>1, <3>2, <3>3, <3>4 DEF Knows, Compatible, Held
    <2> QED BY <2>1, <2>2
  <1> QED BY <1>1, <1>3 DEF Next

-----------------------------------------------------------------------------
(* What took effect, and behind what                                       *)

\* Rows are only ever appended, one at a time.
LEMMA RowsGrow ==
  ASSUME TypeOK, [Next]_vars
  PROVE  /\ Len(rows) \in Nat /\ Len(rows') \in {Len(rows), Len(rows) + 1}
         /\ \A i \in 1..Len(rows) : rows'[i] = rows[i] /\ made'[i] = made[i]
  <1>0. rows \in Seq(Row) /\ made \in Seq(Made) /\ Len(made) = Len(rows) /\ Len(rows) \in Nat
    BY SMT DEF TypeOK, Row, Made
  <1> HIDE DEF Row, Made
  <1>1. CASE rows' = rows /\ made' = made
    BY <1>0, <1>1
  <1>2. ASSUME NEW a \in Assessors, Insert(a)
        PROVE  /\ Len(rows') = Len(rows) + 1
               /\ \A i \in 1..Len(rows) : rows'[i] = rows[i] /\ made'[i] = made[i]
    <2>1. PICK r, m : rows' = Append(rows, r) /\ made' = Append(made, m)
      BY <1>2 DEF Insert
    <2> QED BY <1>0, <2>1, SMT
  <1>3. ASSUME NEW a \in Assessors, Assess(a), ~Insert(a) PROVE rows' = rows /\ made' = made
    BY <1>3 DEF Assess, Classify, ReadLast, Confirm, ReadSwitch, Stamp
  <1>4. CASE Tick
    BY <1>4 DEF Tick
  <1> QED BY <1>0, <1>1, <1>2, <1>3, <1>4 DEF Next, vars

\* What the queries answered over the rows so far remains so.
LEMMA AnswersLast ==
  ASSUME TypeOK, Timed, [Next]_vars
  PROVE  \A n \in 0..Len(rows) : /\ LastOf(rows, n)' = LastOf(rows, n)
                                 /\ \A m : RecentOf(rows', n, m) = RecentOf(rows, n, m)
                                 /\ Newest(rows', n, 1) = Newest(rows, n, 1)
  <1> SUFFICES ASSUME NEW n \in 0..Len(rows)
               PROVE  /\ LastOf(rows', n) = LastOf(rows, n)
                      /\ \A m : RecentOf(rows', n, m) = RecentOf(rows, n, m)
                      /\ Newest(rows', n, 1) = Newest(rows, n, 1)
    OBVIOUS
  <1>1. n \in Nat /\ (n = 0 \/ n \in 1..Len(rows)) /\ \A i \in 1..n : i \in 1..Len(rows)
    BY RowType, SMT
  <1>2. \A i \in 1..n : rows'[i] = rows[i]
    BY <1>1, RowsGrow
  <1>3. /\ \A m : /\ Newest(rows', n, m) = Newest(rows, n, m)
                  /\ RecentOf(rows', n, m) = RecentOf(rows, n, m)
        /\ Newest(rows, n, 1) # {} => LastOf(rows', n) = LastOf(rows, n)
    BY <1>1, <1>2, SamePrefix
  <1>4. n = 0 => LastOf(rows', n) = LastOf(rows, n)
    BY DEF LastOf
  <1> QED BY <1>1, <1>3, <1>4 DEF Timed

\* What was in effect or backed remains so.
LEMMA BehindLasts ==
  ASSUME TypeOK, Timed, [Next]_vars
  PROVE  \A l : \A b \in Nat :
            /\ WasInEffect(l, b) => \E q \in b..Len(rows') : LastOf(rows', q) = l
            /\ WasBacked(l, b) => \E q \in b..Len(rows') : RecentOf(rows', q, ConfirmBars - 1) \subseteq {l}
  <1>1. /\ Len(rows) \in Nat /\ Len(rows') \in Nat /\ Len(rows') >= Len(rows)
    BY RowsGrow, SMT
  <1> SUFFICES ASSUME NEW l, NEW b \in Nat
               PROVE  /\ WasInEffect(l, b) => \E q \in b..Len(rows') : LastOf(rows', q) = l
                      /\ WasBacked(l, b) =>
                            \E q \in b..Len(rows') : RecentOf(rows', q, ConfirmBars - 1) \subseteq {l}
    OBVIOUS
  <1>2. \A q \in b..Len(rows) : q \in 0..Len(rows) /\ q \in b..Len(rows')
    BY <1>1, SMT
  <1> QED BY <1>2, AnswersLast DEF WasInEffect, WasBacked

\* Reading the last label and confirming establish where the label comes from.
LEMMA BehindStep ==
  ASSUME TypeOK, Timed, AllBehind, [Next]_vars
  PROVE  AllBehind'
  <1> SUFFICES ASSUME NEW b \in Assessors PROVE Behind(b)'
    BY DEF AllBehind
  <1>1. /\ Len(rows) \in Nat /\ base[b] \in 0..Len(rows) /\ base[b] \in Nat
        /\ (rows = << >> <=> Len(rows) = 0) /\ ConfirmBars \in Nat
    BY RegimeAssumption, SMT DEF TypeOK
  <1>2. Behind(b)
    BY DEF AllBehind
  <1>3. CASE pc'[b] = pc[b] /\ label'[b] = label[b] /\ last'[b] = last[b] /\ base'[b] = base[b]
    <2>1. /\ WasInEffect(last[b], base[b]) => WasInEffect(last[b], base[b])'
          /\ WasInEffect(label[b], base[b]) => WasInEffect(label[b], base[b])'
          /\ WasBacked(label[b], base[b]) => WasBacked(label[b], base[b])'
      <3>1. /\ WasInEffect(last[b], base[b]) => \E q \in base[b]..Len(rows') : LastOf(rows', q) = last[b]
            /\ WasInEffect(label[b], base[b]) => \E q \in base[b]..Len(rows') : LastOf(rows', q) = label[b]
            /\ WasBacked(label[b], base[b]) =>
                  \E q \in base[b]..Len(rows') : RecentOf(rows', q, ConfirmBars - 1) \subseteq {label[b]}
        BY <1>1, BehindLasts
      <3>2. /\ WasInEffect(last[b], base[b])' <=> \E q \in base'[b]..Len(rows') : LastOf(rows', q) = last'[b]
            /\ WasInEffect(label[b], base[b])' <=> \E q \in base'[b]..Len(rows') : LastOf(rows', q) = label'[b]
            /\ WasBacked(label[b], base[b])' <=>
                  \E q \in base'[b]..Len(rows') : RecentOf(rows', q, ConfirmBars - 1) \subseteq {label'[b]}
        BY DEF WasInEffect, WasBacked
      <3> QED BY <1>3, <3>1, <3>2
    <2> QED BY <1>2, <1>3, <2>1 DEF Behind
  <1>4. CASE UNCHANGED vars \/ Tick
    BY <1>3, <1>4 DEF Tick, vars, work
  <1>5. ASSUME NEW a \in Assessors, Assess(a), a # b
        PROVE  pc'[b] = pc[b] /\ label'[b] = label[b] /\ last'[b] = last[b] /\ base'[b] = base[b]
    BY <1>5, SMT DEF TypeOK, Assess, Classify, ReadLast, Confirm, ReadSwitch, Stamp, Insert, Goes
  <1>6. CASE Classify(b)
    <2>1. pc'[b] = "last"
      BY <1>6 DEF TypeOK, Classify, Goes
    <2> QED BY <2>1 DEF Behind
  <1>7. CASE ReadLast(b)
    <2>1. pc'[b] = "confirm" /\ rows' = rows /\ base'[b] = base[b] /\ last'[b] = LastConfirmed
      BY <1>7 DEF TypeOK, ReadLast, Goes
    <2>2. Len(rows) \in base[b]..Len(rows)
      BY <1>1, SMT
    <2> QED BY <2>1, <2>2 DEF Behind, WasInEffect, LastConfirmed
  <1>8. CASE Confirm(b)
    <2>1. /\ pc[b] = "confirm" /\ pc'[b] = "switch" /\ rows' = rows /\ base'[b] = base[b]
          /\ label'[b] = Confirmed(label[b], last[b])
      BY <1>8 DEF TypeOK, Confirm, Goes
    <2>2. SUFFICES ASSUME base[b] > 0, base[b] >= ConfirmBars - 1
                   PROVE  \/ label'[b] \in HaltStates \/ WasInEffect(label'[b], base[b])
                          \/ WasBacked(label'[b], base[b])
      BY <2>1 DEF Behind, WasInEffect, WasBacked
    <2>3. Warm
      BY <1>1, <2>2, SMT DEF Warm
    <2>4. WasInEffect(last[b], base[b])
      BY <1>2, <2>1, <2>2 DEF Behind
    <2>5. last[b] # None
      <3>1. PICK q \in base[b]..Len(rows) : LastOf(rows, q) = last[b]
        BY <2>4 DEF WasInEffect
      <3>2. q \in 1..Len(rows)
        BY <1>1, <2>2, SMT
      <3>3. last[b] \in Labels
        BY <3>1, <3>2, LastType
      <3> QED BY <3>3 DEF Labels, TrendStates, RangeStates, HaltStates, None
    <2>6. Len(rows) \in base[b]..Len(rows)
      BY <1>1, SMT
    <2>7. ConfirmBars <= 1 \/ Backed(label[b]) => WasBacked(label[b], base[b])
      BY <2>6, BackedRows DEF WasBacked
    <2> QED BY <2>1, <2>3, <2>4, <2>5, <2>7, ConfirmedBehind
  <1>9. CASE ReadSwitch(b)
    <2>1. pc[b] = "switch" /\ pc'[b] = "stamp" /\ rows' = rows /\ base'[b] = base[b] /\ label'[b] = label[b]
      BY <1>9 DEF TypeOK, ReadSwitch, Goes
    <2> QED BY <1>2, <2>1 DEF Behind, WasInEffect, WasBacked
  <1>11. CASE Stamp(b)
    <2>1. pc[b] = "stamp" /\ pc'[b] = "insert" /\ rows' = rows /\ base'[b] = base[b] /\ label'[b] = label[b]
      BY <1>11 DEF TypeOK, Stamp, Goes
    <2> QED BY <1>2, <2>1 DEF Behind, WasInEffect, WasBacked
  <1>10. CASE Insert(b)
    <2>1. pc'[b] = "idle"
      BY <1>10 DEF TypeOK, Insert, Goes
    <2> QED BY <2>1 DEF Behind
  <1> QED BY <1>3, <1>4, <1>5, <1>6, <1>7, <1>8, <1>9, <1>10, <1>11 DEF Next, Assess

-----------------------------------------------------------------------------
(* What is written                                                         *)

\* An inserted row stands behind the others and says what its assessment knew.
LEMMA InsertRow ==
  ASSUME TypeOK, NEW a \in Assessors, Insert(a)
  PROVE  /\ Len(rows) \in Nat /\ Len(rows') = Len(rows) + 1 /\ pc[a] = "insert"
         /\ \A i \in 1..Len(rows) : rows'[i] = rows[i] /\ made'[i] = made[i]
         /\ rows'[Len(rows) + 1].raw = raw[a] /\ rows'[Len(rows) + 1].confirmed = label[a]
         /\ rows'[Len(rows) + 1].ts = stamp[a]
         /\ made'[Len(rows) + 1] = base[a]
  <1>0. rows \in Seq(Row) /\ made \in Seq(Made) /\ Len(made) = Len(rows) /\ Len(rows) \in Nat
    BY SMT DEF TypeOK, Row, Made
  <1> DEFINE r == [raw |-> raw[a], confirmed |-> label[a], switched |-> switched[a], ts |-> stamp[a]]
             m == base[a]
  <1>1. rows' = Append(rows, r) /\ made' = Append(made, m) /\ pc[a] = "insert"
    BY DEF Insert, Goes
  <1>2. r.raw = raw[a] /\ r.confirmed = label[a] /\ m = base[a] /\ r.ts = stamp[a]
    OBVIOUS
  <1> HIDE DEF r, m, Row, Made
  <1>3. /\ Len(rows') = Len(rows) + 1 /\ rows'[Len(rows) + 1] = r /\ made'[Len(rows) + 1] = m
        /\ \A i \in 1..Len(rows) : rows'[i] = rows[i] /\ made'[i] = made[i]
    BY <1>0, <1>1, SMT
  <1> QED BY <1>0, <1>1, <1>2, <1>3

\* Every other step leaves the rows alone.
LEMMA RowsKept ==
  ASSUME [Next]_vars, \A a \in Assessors : ~Insert(a)
  PROVE  rows' = rows /\ made' = made
  BY DEF Next, Tick, Assess, Classify, ReadLast, Confirm, ReadSwitch, Stamp, vars

\* Time passes, a stamp is of the present, and a row that is inserted alone bears a
\* stamp that was taken after all the others had been written.
LEMMA TimedStep ==
  ASSUME TypeOK, TypeOK', Timed, [Next]_vars
  PROVE  Timed'
  <1>0. /\ Len(rows) \in Nat /\ second \in Nat /\ \A i \in 1..Len(rows) : rows[i].ts \in Nat
        /\ \A a \in Assessors : stamp[a] \in Nat /\ base[a] \in 0..Len(rows)
    BY RowType DEF TypeOK
  <1>1. CASE \A a \in Assessors : ~Insert(a)
    <2>1. rows' = rows /\ made' = made
      BY <1>1, RowsKept
    <2>2. /\ \A i \in 1..Len(rows) : Alone(i) => \A j \in 1..i : rows[j].ts <= rows[i].ts
          /\ \A n \in 1..Len(rows) : Newest(rows, n, 1) # {}
      BY DEF Timed
    <2>3. second' \in Nat /\ second' >= second
      <3>1. second' = second \/ second' = second + 1
        BY <1>1 DEF Next, Tick, Assess, Classify, ReadLast, Confirm, ReadSwitch, Stamp, vars
      <3> QED BY <1>0, <3>1, SMT
    <2>4. \A i \in 1..Len(rows) : rows[i].ts <= second'
      BY <1>0, <2>3, SMT DEF Timed
    <2>5. ASSUME NEW a \in Assessors, pc'[a] = "insert"
          PROVE  stamp'[a] <= second' /\ \A i \in 1..base'[a] : rows[i].ts <= stamp'[a]
      <3>1. CASE Stamp(a)
        <4>1. stamp'[a] = second /\ base'[a] = base[a] /\ second' = second
          BY <3>1 DEF TypeOK, Stamp
        <4>2. \A i \in 1..base[a] : i \in 1..Len(rows)
          BY <1>0, SMT
        <4> QED BY <1>0, <4>1, <4>2, SMT DEF Timed
      <3>2. CASE ~Stamp(a)
        <4>1. pc[a] = "insert" /\ stamp'[a] = stamp[a] /\ base'[a] = base[a]
          <5>1. CASE Tick \/ UNCHANGED vars
            BY <2>5, <5>1 DEF Tick, vars, work
          <5>2. ASSUME NEW b \in Assessors, Assess(b), b # a PROVE pc[a] = pc'[a] /\ stamp'[a] = stamp[a] /\ base'[a] = base[a]
            BY <5>2, SMT DEF TypeOK, Assess, Classify, ReadLast, Confirm, ReadSwitch, Stamp, Insert, Goes
          <5>3. ASSUME Classify(a) \/ ReadLast(a) \/ Confirm(a) \/ ReadSwitch(a) PROVE FALSE
            BY <2>5, <5>3, SMT DEF TypeOK, Classify, ReadLast, Confirm, ReadSwitch, Goes
          <5> QED BY <1>1, <2>5, <3>2, <5>1, <5>2, <5>3 DEF Next, Assess
        <4> QED BY <1>0, <2>3, <4>1, SMT DEF Timed
      <3> QED BY <3>1, <3>2
    <2> QED BY <2>1, <2>2, <2>4, <2>5 DEF Timed, Alone
  <1>2. ASSUME NEW a \in Assessors, Insert(a) PROVE Timed'
    <2> DEFINE n == Len(rows)
    <2>1. /\ n \in Nat /\ Len(rows') = n + 1 /\ pc[a] = "insert"
          /\ \A i \in 1..n : rows'[i] = rows[i] /\ made'[i] = made[i]
          /\ rows'[n + 1].ts = stamp[a] /\ made'[n + 1] = base[a]
      BY <1>2, InsertRow
    <2>2. /\ stamp[a] \in Nat /\ stamp[a] <= second /\ second' = second
          /\ \A i \in 1..base[a] : rows[i].ts <= stamp[a]
      BY <1>0, <1>2, <2>1 DEF Timed, Insert
    <2>3. /\ \A i \in 1..n : /\ rows[i].ts \in Nat /\ rows[i].ts <= second
                             /\ Alone(i) => \A j \in 1..i : rows[j].ts <= rows[i].ts
          /\ \A q \in 1..n : Newest(rows, q, 1) # {} /\ Newest(rows', q, 1) = Newest(rows, q, 1)
      <3>1. \A q \in 1..n : q \in 0..Len(rows)
        BY <2>1, SMT
      <3> QED BY <1>0, <3>1, AnswersLast DEF Timed
    <2> HIDE DEF n
    <2>4. \A i \in 1..(n + 1) : i \in 1..n \/ i = n + 1
      BY <2>1, SMT
    <2>5. \A i \in 1..(n + 1) : rows'[i].ts \in Nat /\ rows'[i].ts <= second
      BY <2>1, <2>2, <2>3, <2>4
    <2>6. ASSUME NEW b \in Assessors, pc'[b] = "insert"
          PROVE  stamp'[b] <= second /\ \A i \in 1..base'[b] : rows'[i].ts <= stamp'[b]
      <3>1. b # a
        BY <1>2, <2>6 DEF TypeOK, Insert, Goes
      <3>2. pc[b] = "insert" /\ stamp'[b] = stamp[b] /\ base'[b] = base[b]
        BY <1>2, <2>6, <3>1 DEF TypeOK, Insert, Goes
      <3>3. \A i \in 1..base[b] : i \in 1..n
        BY <1>0, <2>1, SMT DEF n
      <3>4. stamp[b] <= second /\ \A i \in 1..base[b] : rows[i].ts <= stamp[b]
        BY <3>2 DEF Timed
      <3> QED BY <2>1, <3>2, <3>3, <3>4
    <2>7. ASSUME NEW i \in 1..(n + 1), made'[i] = i - 1, NEW j \in 1..i
          PROVE  rows'[j].ts <= rows'[i].ts
      <3>1. CASE i \in 1..n
        <4>1. Alone(i) /\ j \in 1..n
          BY <2>1, <2>7, <3>1, SMT DEF Alone
        <4> QED BY <2>1, <2>3, <3>1, <4>1
      <3>2. CASE i = n + 1
        <4>1. base[a] = n
          BY <2>1, <2>7, <3>2, SMT
        <4>2. CASE j \in 1..n
          BY <2>1, <2>2, <3>2, <4>1, <4>2
        <4>3. CASE j = n + 1
          BY <2>1, <2>2, <3>2, <4>3, SMT
        <4> QED BY <2>1, <3>2, <4>2, <4>3, SMT
      <3> QED BY <2>4, <3>1, <3>2
    <2>8. Newest(rows', n + 1, 1) # {}
      <3>1. CASE \A k \in 1..(n + 1) : rows'[k].ts <= rows'[n + 1].ts
        <4>1. n + 1 \in Nat /\ n + 1 > 0
          BY <2>1, SMT
        <4>2. n + 1 \in Newest(rows', n + 1, 1)
          BY <2>5, <3>1, <4>1, TopIsNewest
        <4> QED BY <4>2
      <3>2. ASSUME NEW k \in 1..(n + 1), ~(rows'[k].ts <= rows'[n + 1].ts) PROVE Newest(rows', n + 1, 1) # {}
        <4>1. k \in 1..n /\ n \in 1..n /\ n + 1 \in 1..(n + 1) /\ n + 1 \in Nat
          BY <2>1, <2>4, <2>5, <3>2, SMT
        <4>2. PICK t : t \in Newest(rows', n, 1)
          BY <2>3, <4>1
        <4>3. t \in 1..n /\ \A j \in 1..n : ~Newer(rows', j, t)
          BY <2>1, <4>2, NewestOne
        <4>4. t \in 1..(n + 1) /\ ~Newer(rows', k, t)
          BY <2>1, <4>1, <4>3, SMT
        <4>5. ~Newer(rows', n + 1, t)
          BY <2>1, <2>5, <3>2, <4>1, <4>4, SMT DEF Newer
        <4>6. t \in Newest(rows', n + 1, 1)
          BY <2>4, <4>1, <4>3, <4>4, <4>5, NewestOne
        <4> QED BY <4>6
      <3> QED BY <3>1, <3>2
    <2>9. \A q \in 1..(n + 1) : Newest(rows', q, 1) # {}
      BY <2>3, <2>4, <2>8
    <2> QED BY <2>1, <2>2, <2>5, <2>6, <2>7, <2>9 DEF Timed, Alone
  <1> QED BY <1>1, <1>2

\* The row that is inserted halts in stress and fits the label in effect before it.
LEMMA RowsStep ==
  ASSUME TypeOK, TypeOK', Timed, InFlight, StressHalts, NoDirectFlip, [Next]_vars
  PROVE  StressHalts' /\ NoDirectFlip'
  <1>1. CASE \A a \in Assessors : ~Insert(a)
    BY <1>1, RowsKept DEF StressHalts, NoDirectFlip, Alone
  <1>2. ASSUME NEW a \in Assessors, Insert(a) PROVE StressHalts' /\ NoDirectFlip'
    <2> DEFINE n == Len(rows)
    <2>1. /\ n \in Nat /\ Len(rows') = n + 1 /\ pc[a] = "insert"
          /\ \A i \in 1..n : rows'[i] = rows[i] /\ made'[i] = made[i]
          /\ rows'[n + 1].raw = raw[a] /\ rows'[n + 1].confirmed = label[a]
          /\ made'[n + 1] = base[a]
      BY <1>2, InsertRow
    <2>2. Knows(a)
      BY DEF InFlight
    <2>3. \A i \in 1..(n + 1) : i - 1 \in 0..n /\ LastOf(rows, i - 1)' = LastOf(rows, i - 1)
      <3>1. \A i \in 1..(n + 1) : i - 1 \in 0..Len(rows)
        BY <2>1, SMT
      <3> QED BY <3>1, AnswersLast
    <2>9. n > 0 => rows # << >>
      BY <2>1, RowType, SMT
    <2>10. LastConfirmed = LastOf(rows, n)
      BY DEF LastConfirmed
    <2>11. base[a] = n => base[a] = Len(rows)
      OBVIOUS
    <2> HIDE DEF n
    <2>4. StressHalts'
      <3> SUFFICES ASSUME NEW i \in 1..(n + 1), rows'[i].raw = "stress", made'[i] >= ConfirmBars - 1
                   PROVE  Scale(rows'[i].confirmed) = 0
        BY <2>1 DEF StressHalts, Scale
      <3>1. CASE i \in 1..n
        BY <2>1, <3>1 DEF StressHalts, n
      <3>2. CASE i = n + 1
        <4>1. raw[a] = "stress" /\ base[a] >= ConfirmBars - 1 => label[a] \in HaltStates
          BY <2>1, <2>2 DEF Knows
        <4>2. rows'[i].confirmed \in HaltStates
          BY <2>1, <3>2, <4>1
        <4> QED BY <4>2, HaltScale
      <3> QED BY <2>1, <3>1, <3>2, SMT
    <2>5. NoDirectFlip'
      <3> SUFFICES ASSUME NEW i \in 2..(n + 1), made'[i] = i - 1,
                          {LastOf(rows', i - 1), rows'[i].confirmed} \cap HaltStates = {}
                   PROVE  Strategy(rows'[i].confirmed) = Strategy(LastOf(rows', i - 1))
        BY <2>1 DEF NoDirectFlip, Alone, Strategy
      <3>0. i \in 1..(n + 1)
        BY <2>1, SMT
      <3>1. CASE i \in 2..n
        <4>1. rows'[i] = rows[i] /\ made'[i] = made[i]
          BY <2>1, <3>1, SMT
        <4> QED BY <2>3, <3>0, <3>1, <4>1 DEF NoDirectFlip, Alone, n
      <3>2. CASE i = n + 1
        <4>1. base[a] = n /\ i - 1 = n /\ n > 0
          BY <2>1, <3>2, SMT
        <4>2. Compatible(label[a], LastOf(rows, n))
          BY <2>1, <2>2, <2>9, <2>10, <2>11, <4>1 DEF Knows
        <4>3. LastOf(rows', i - 1) = LastOf(rows, n) /\ rows'[i].confirmed = label[a]
          BY <2>1, <2>3, <3>0, <3>2, <4>1
        <4> QED BY <4>2, <4>3 DEF Compatible
      <3> QED BY <2>1, <3>1, <3>2, SMT
    <2> QED BY <2>4, <2>5
  <1> QED BY <1>1, <1>2

\* A row in which a label takes effect anew was backed.
LEMMA BackedStep ==
  ASSUME TypeOK, TypeOK', Timed, AllBehind, ChangeIsBacked, [Next]_vars
  PROVE  ChangeIsBacked'
  <1>1. CASE \A a \in Assessors : ~Insert(a)
    BY <1>1, RowsKept DEF ChangeIsBacked
  <1>2. ASSUME NEW a \in Assessors, Insert(a) PROVE ChangeIsBacked'
    <2> DEFINE n == Len(rows)
    <2>1. /\ n \in Nat /\ Len(rows') = n + 1 /\ pc[a] = "insert"
          /\ \A i \in 1..n : rows'[i] = rows[i] /\ made'[i] = made[i]
          /\ rows'[n + 1].confirmed = label[a] /\ made'[n + 1] = base[a] /\ base[a] \in 0..n
          /\ \A i \in 1..n : made[i] \in Nat
      <3>1. \A i \in 1..Len(rows) : made[i] \in Nat
        BY SMT DEF TypeOK
      <3> QED BY <1>2, <3>1, InsertRow DEF TypeOK
    <2>2. \A q \in 0..n : /\ LastOf(rows, q)' = LastOf(rows, q)
                          /\ RecentOf(rows', q, ConfirmBars - 1) = RecentOf(rows, q, ConfirmBars - 1)
      BY AnswersLast
    <2> SUFFICES ASSUME NEW i \in 1..(n + 1), NEW l, l = rows'[i].confirmed, l \notin HaltStates,
                        made'[i] > 0, made'[i] >= ConfirmBars - 1,
                        \A k \in made'[i]..(i - 1) : LastOf(rows', k) # l
                 PROVE  \E k \in made'[i]..(i - 1) : RecentOf(rows', k, ConfirmBars - 1) \subseteq {l}
      BY <2>1 DEF ChangeIsBacked
    <2>3. \A k \in made'[i]..(i - 1) : k \in 0..n
      <3>1. made'[i] \in Nat
        <4>1. i \in 1..n \/ i = n + 1
          BY <2>1, SMT
        <4> QED BY <2>1, <4>1
      <3> QED BY <2>1, <3>1, SMT
    <2>4. CASE i \in 1..n
      <3>1. /\ rows[i].confirmed = l /\ made[i] = made'[i]
            /\ \A k \in made[i]..(i - 1) : LastOf(rows, k) # l
        BY <2>1, <2>2, <2>3, <2>4
      <3>2. \E k \in made[i]..(i - 1) : RecentOf(rows, k, ConfirmBars - 1) \subseteq {l}
        BY <2>4, <3>1 DEF ChangeIsBacked
      <3> QED BY <2>2, <2>3, <3>1, <3>2
    <2>5. CASE i = n + 1
      <3>1. l = label[a] /\ base[a] = made'[i] /\ i - 1 = n
        BY <2>1, <2>5, SMT
      <3>2. \A k \in base[a]..n : LastOf(rows, k) # l
        BY <2>2, <2>3, <3>1
      <3>3. ~WasInEffect(l, base[a])
        BY <3>2 DEF WasInEffect
      <3>4. WasBacked(l, base[a])
        <4>1. Behind(a)
          BY DEF AllBehind
        <4> QED BY <2>1, <3>1, <3>3, <4>1 DEF Behind
      <3>5. \E k \in base[a]..n : RecentOf(rows, k, ConfirmBars - 1) \subseteq {l}
        BY <3>4 DEF WasBacked
      <3> QED BY <2>2, <2>3, <3>1, <3>5
    <2> QED BY <2>1, <2>4, <2>5, SMT
  <1> QED BY <1>1, <1>2

\* Once a row that was written alone is there, its label is in effect.
LEMMA AloneInEffect ==
  ASSUME TypeOK, Timed, NEW i \in 1..Len(rows), Alone(i)
  PROVE  LastOf(rows, i) = rows[i].confirmed
  <1>1. i \in Nat /\ i > 0 /\ \A k \in 1..i : k \in 1..Len(rows)
    BY RowType, SMT
  <1>2. \A k \in 1..i : rows[k].ts \in Nat /\ rows[k].ts <= rows[i].ts
    BY <1>1, RowType DEF Timed
  <1>3. i \in Newest(rows, i, 1)
    BY <1>1, <1>2, TopIsNewest
  <1> QED BY <1>1, <1>2, <1>3, LastIs

\* Rows that were written alone are the newest, as many of them as there are: none
\* before them is read among that many.
LEMMA AloneAreRecent ==
  ASSUME TypeOK, Timed, NEW n \in 1..Len(rows), NEW m \in Nat, m <= n,
         \A k \in 1..n : k + m > n => Alone(k)
  PROVE  \A j \in Newest(rows, n, m) : j \in 1..n /\ j + m > n
  <1> SUFFICES ASSUME NEW j \in 1..n, j \in Newest(rows, n, m), ~(j + m > n) PROVE FALSE
    BY DEF Newest
  <1>1. n \in Nat /\ j \in Nat /\ \A k \in 1..n : k \in 1..Len(rows)
    BY RowType, SMT
  <1> DEFINE S == {k \in 1..n : Newer(rows, k, j)}
             T == (n - m + 1)..n
  <1>2. ASSUME NEW k \in T PROVE k \in 1..n /\ Newer(rows, k, j)
    <2>1. k \in 1..n /\ k + m > n /\ j \in 1..k /\ j < k
      BY <1>1, SMT
    <2>2. rows[j].ts <= rows[k].ts /\ rows[j].ts \in Nat /\ rows[k].ts \in Nat
      BY <1>1, <2>1, RowType DEF Timed
    <2> QED BY <2>1, <2>2, SMT DEF Newer
  <1>3. Cardinality(T) = m
    <2>1. n - m + 1 \in Int /\ n \in Int /\ n - (n - m + 1) + 1 = m
          /\ (n - m + 1 > n <=> m = 0)
      BY <1>1, SMT
    <2>2. Cardinality(T) = IF n - m + 1 > n THEN 0 ELSE n - (n - m + 1) + 1
      BY <2>1, FS_Interval
    <2> HIDE DEF T
    <2> QED BY <1>1, <2>1, <2>2, SMT
  <1>4. IsFiniteSet(S)
    <2>1. IsFiniteSet(1..n)
      BY <1>1, FS_Interval, SMT
    <2> QED BY <2>1, FS_Subset
  <1>5. T \subseteq S
    BY <1>2
  <1>6. Cardinality(T) <= Cardinality(S) /\ Cardinality(S) \in Nat
    BY <1>4, <1>5, FS_Subset, FS_CardinalityType
  <1>7. Cardinality(S) < m
    BY DEF Newest
  <1> HIDE DEF S, T
  <1> QED BY <1>3, <1>6, <1>7, SMT

\* A row written alone follows what it detected.
LEMMA FollowStep ==
  ASSUME TypeOK, TypeOK', Timed, Timed', InFlight, RowsFollow, FromTheFirst, [Next]_vars
  PROVE  RowsFollow' /\ FromTheFirst'
  <1>1. CASE \A a \in Assessors : ~Insert(a)
    <2>1. rows' = rows /\ made' = made
      BY <1>1, RowsKept
    <2> QED BY <2>1 DEF RowsFollow, FromTheFirst, RowFollows, Alone, BackedAt
  <1>2. ASSUME NEW a \in Assessors, Insert(a) PROVE RowsFollow' /\ FromTheFirst'
    <2> DEFINE n == Len(rows)
    <2>1. /\ n \in Nat /\ Len(rows') = n + 1 /\ pc[a] = "insert"
          /\ \A i \in 1..n : rows'[i] = rows[i] /\ made'[i] = made[i]
          /\ rows'[n + 1].raw = raw[a] /\ rows'[n + 1].confirmed = label[a]
          /\ made'[n + 1] = base[a] /\ (n + 1) - 1 = n
      BY <1>2, InsertRow
    <2>2. LastOf(rows, n) = LastConfirmed
      BY DEF LastConfirmed
    <2>3. base[a] = n => Follows(raw[a], label[a], LastConfirmed)
      BY <2>1 DEF InFlight, Knows
    <2>4. Warm <=> n + 1 > ConfirmBars - 1
      BY <2>1, RegimeAssumption, SMT DEF Warm
    <2>5. \A l : Backed(l) <=> BackedAt(l, n + 1)
      BY BackedRows
    <2>6. \A i \in 1..(n + 1) : /\ LastOf(rows', i - 1) = LastOf(rows, i - 1)
                                /\ \A l : BackedAt(l, i)' <=> BackedAt(l, i)
      <3>1. \A i \in 1..(n + 1) : i - 1 \in 0..Len(rows)
        BY <2>1, SMT
      <3> QED BY <3>1, AnswersLast DEF BackedAt
    <2> HIDE DEF n
    <2>7. \A i \in 1..n : /\ i \in 1..(n + 1) /\ \A k \in 1..i : k \in 1..n
                          /\ RowFollows(i)' <=> RowFollows(i)
      <3> SUFFICES ASSUME NEW i \in 1..n
                   PROVE  /\ i \in 1..(n + 1) /\ \A k \in 1..i : k \in 1..n
                          /\ RowFollows(i)' <=> RowFollows(i)
        OBVIOUS
      <3>1. i \in 1..(n + 1) /\ \A k \in 1..i : k \in 1..n
        BY <2>1, SMT
      <3> QED BY <2>1, <2>6, <3>1 DEF RowFollows, Alone
    <2>8. ASSUME NEW i, i = n + 1 PROVE RowFollows(i)'
      <3> SUFFICES ASSUME base[a] = n, raw[a] \in Clear
                   PROVE  /\ i > ConfirmBars - 1 => label[a] \in {raw[a], "uncertain"}
                          /\ LastOf(rows, i - 1) \in {None, raw[a]} => label[a] = raw[a]
                          /\ (raw[a] = "stress" \/ LastOf(rows, i - 1) = "uncertain")
                              /\ (ConfirmBars <= 1 \/ BackedAt(raw[a], i)) => label[a] = raw[a]
        <4>1. i \in 1..(n + 1) /\ rows'[i].raw = raw[a] /\ rows'[i].confirmed = label[a] /\ made'[i] = base[a]
          BY <2>1, <2>8, SMT
        <4>2. i - 1 = n
          BY <2>1, <2>8
        <4> QED BY <2>6, <4>1, <4>2 DEF RowFollows, Alone
      <3>1. i - 1 = n
        BY <2>1, <2>8
      <3> QED BY <2>2, <2>3, <2>4, <2>5, <2>8, <3>1 DEF Follows
    <2>9. RowsFollow'
      <3>1. \A i \in 1..(n + 1) : i \in 1..n \/ i = n + 1
        BY <2>1, SMT
      <3> QED BY <2>1, <2>7, <2>8, <3>1 DEF RowsFollow, n
    <2>10. FromTheFirst'
      <3> SUFFICES ASSUME NEW i \in 1..(n + 1), rows'[i].raw \in Clear,
                          \A k \in 1..i : made'[k] = k - 1 /\ rows'[k].raw = rows'[i].raw
                   PROVE  rows'[i].confirmed = rows'[i].raw
        BY <2>1 DEF FromTheFirst, Alone, Clear
      <3>1. CASE i \in 1..n
        BY <2>1, <2>7, <3>1 DEF FromTheFirst, Alone, n
      <3>2. CASE i = n + 1
        <4>1. n \in 1..n \/ n = 0
          BY <2>1, SMT
        <4>2. CASE n \in 1..n
          <5>1. \A k \in 1..n : k \in 1..i
            BY <2>1, <3>2, SMT
          <5>2. \A k \in 1..n : made[k] = k - 1 /\ rows[k].raw = rows'[i].raw
            BY <2>1, <5>1
          <5>3. rows[n].raw \in Clear /\ \A k \in 1..n : Alone(k) /\ rows[k].raw = rows[n].raw
            BY <4>2, <5>2 DEF Alone
          <5>4. rows[n].confirmed = rows'[i].raw
            <6>1. rows[n].confirmed = rows[n].raw
              BY <4>2, <5>3, Zenon DEF FromTheFirst, n
            <6> QED BY <4>2, <5>2, <6>1
          <5>5. LastOf(rows, n) = rows[n].confirmed
            BY <4>2, <5>3, AloneInEffect DEF n
          <5> QED BY <2>1, <2>2, <2>3, <3>2, <5>4, <5>5 DEF Follows
        <4>3. CASE n = 0
          <5>1. LastOf(rows, n) = None
            BY <4>3 DEF LastOf
          <5> QED BY <2>1, <2>2, <2>3, <3>2, <5>1 DEF Follows
        <4> QED BY <4>1, <4>2, <4>3
      <3> QED BY <2>1, <3>1, <3>2, SMT
    <2> QED BY <2>9, <2>10
  <1> QED BY <1>1, <1>2

\* A clear label that is detected often enough is in effect.
LEMMA Followed ==
  ASSUME TypeOK, Timed, RowsFollow, FromTheFirst
  PROVE  FollowsDetection
  <1> SUFFICES ASSUME NEW i \in 1..Len(rows), i >= FollowBars, rows[i].raw \in Clear,
                      \A k \in 1..i : k + FollowBars > i => Alone(k) /\ rows[k].raw = rows[i].raw
               PROVE  rows[i].confirmed = rows[i].raw
    BY DEF FollowsDetection, Clear
  <1>0. /\ i \in Nat /\ ConfirmBars \in Nat /\ FollowBars \in Nat /\ FollowBars >= 2
        /\ FollowBars >= ConfirmBars /\ (ConfirmBars > 1 => FollowBars = ConfirmBars)
    BY RegimeAssumption, SMT DEF FollowBars, TypeOK
  <1>1. i \in 1..i /\ i + FollowBars > i /\ i - 1 \in 1..i /\ (i - 1) + FollowBars > i /\ i # 1
        /\ i - 1 \in 1..Len(rows)
    BY <1>0, SMT DEF TypeOK
  <1>2. /\ RowFollows(i) /\ RowFollows(i - 1) /\ Alone(i) /\ Alone(i - 1)
        /\ rows[i - 1].raw = rows[i].raw /\ LastOf(rows, i - 1) = rows[i - 1].confirmed
    BY <1>1, AloneInEffect DEF RowsFollow
  <1>3. CASE i - 1 > ConfirmBars - 1
    <2>1. ConfirmBars <= 1 \/ BackedAt(rows[i].raw, i)
      <3>1. CASE ConfirmBars > 1
        <4>1. /\ i > ConfirmBars - 1 /\ ConfirmBars - 1 \in Nat /\ ConfirmBars - 1 <= i - 1
              /\ \A k \in 1..(i - 1) : k + (ConfirmBars - 1) > i - 1 => k \in 1..i /\ k + FollowBars > i
          BY <1>0, <1>3, <3>1, SMT
        <4>2. \A k \in 1..(i - 1) : k + (ConfirmBars - 1) > i - 1 => Alone(k) /\ rows[k].raw = rows[i].raw
          BY <4>1
        <4>3. \A k \in Newest(rows, i - 1, ConfirmBars - 1) : k \in 1..(i - 1) /\ k + (ConfirmBars - 1) > i - 1
          BY <1>1, <4>1, <4>2, AloneAreRecent
        <4> QED BY <4>1, <4>2, <4>3 DEF BackedAt, RecentOf
      <3> QED BY <1>0, <3>1, SMT
    <2>2. rows[i - 1].confirmed \in {rows[i].raw, "uncertain"}
      BY <1>2, <1>3 DEF RowFollows
    <2> QED BY <1>2, <2>1, <2>2 DEF RowFollows
  <1>4. CASE ~(i - 1 > ConfirmBars - 1)
    <2>1. i = FollowBars
      BY <1>0, <1>4, SMT
    <2>2. \A k \in 1..i : k + FollowBars > i
      BY <1>0, <2>1, SMT
    <2> QED BY <2>2 DEF FromTheFirst
  <1> QED BY <1>3, <1>4

-----------------------------------------------------------------------------
(* The theorems                                                            *)

\* An assessment that has not begun and an empty history satisfy the invariant.
LEMMA InvariantInit == ASSUME Init PROVE Invariant
  <1>1. rows = << >> /\ made = << >> /\ Len(rows) = 0 /\ Len(made) = 0
    BY DEF Init
  <1>2. InFlight
    BY DEF Init, InFlight, Knows
  <1>3. StressHalts /\ NoDirectFlip /\ ChangeIsBacked /\ RowsFollow /\ FromTheFirst
    BY <1>1, SMT DEF StressHalts, NoDirectFlip, ChangeIsBacked, RowsFollow, FromTheFirst
  <1>4. AllBehind
    BY DEF Init, AllBehind, Behind
  <1>5. Timed
    BY <1>1, SMT DEF Init, Timed
  <1> QED BY <1>2, <1>3, <1>4, <1>5, TypeInit DEF Invariant

\* Every step of every thread keeps it.
LEMMA InvariantStep == Invariant /\ [Next]_vars => Invariant'
  BY TypeStep, TimedStep, InFlightStep, RowsStep, BehindStep, BackedStep, FollowStep DEF Invariant

\* It holds for good.
LEMMA AlwaysInvariant == Spec => []Invariant
  BY InvariantInit, InvariantStep, PTL DEF Spec

\* Every variable of the regime router keeps its type, for any number of threads.
THEOREM RegimeTypes == Spec => []TypeOK
  BY AlwaysInvariant, PTL DEF Invariant

\* With confirm_bars - 1 rows a detected stress stops entries at once, for every
\* interleaving of threads and every thresholds.
THEOREM RegimeStressHalts == Spec => []StressHalts
  BY AlwaysInvariant, PTL DEF Invariant

\* The strategy of a symbol does not turn from trend to range or back in two
\* successive assessments that do not overlap.
THEOREM RegimeNoDirectFlip == Spec => []NoDirectFlip
  BY AlwaysInvariant, PTL DEF Invariant

\* Once confirm_bars - 1 rows exist, a label that lets a symbol trade takes effect
\* anew only behind as many rows in succession that detected it, for every
\* interleaving of threads.
THEOREM RegimeChangeIsBacked == Spec => []ChangeIsBacked
  BY AlwaysInvariant, PTL DEF Invariant

\* A clear regime that is detected confirm_bars times in succession, and at least
\* twice, is in effect, whatever was before.
THEOREM RegimeFollowsDetection == Spec => []FollowsDetection
  <1>1. Invariant => FollowsDetection
    BY Followed DEF Invariant
  <1> QED BY <1>1, AlwaysInvariant, PTL

-----------------------------------------------------------------------------
(* ParameterLoop: why a search ends                                        *)

\* The count is the number of trials at the end of the report that were hard stops of
\* this spec.
Counted ==
    /\ spec \in Nat /\ hard \in Nat
    /\ \E T : trials \in Seq(T)
    /\ \A i \in 1..Len(trials) : trials[i].spec \in Nat /\ trials[i].spec <= spec
    /\ hard <= Len(trials)
    /\ \A i \in (Len(trials) - hard + 1)..Len(trials) : IsHard(trials[i], spec)
    /\ hard < Len(trials) => ~IsHard(trials[Len(trials) - hard], spec)

\* The results at hand are those of this spec in the report, the baseline is the first,
\* and the search has been stopped when the count is at its limit or, in a complete
\* report, when the spec failed.
Answered ==
    /\ phase \in {"matrix", "baseline"} => trials = << >> /\ seen = {} /\ spec = 1
    /\ InSearch => /\ initial = first.wf
                   /\ seen = ResultsOf(spec)
                   /\ \A n \in 1..(spec - 1) : ~Failed(n)
    /\ stopped <=> hard >= HardStopLimit \/ (phase = "report" /\ Failed(spec))

\* Before its first trial a search has counted nothing.
LEMMA CountedInit == ASSUME MatrixInit PROVE Counted /\ Answered
<1>1. << >> \in Seq({})
  OBVIOUS
<1> QED
  BY <1>1, MatrixAssumption DEF MatrixInit, Counted, Answered, InSearch

\* With no trial in the report nothing is counted.
LEMMA CountedReset == ASSUME NextStrategy PROVE Counted' /\ Answered'
<1>1. << >> \in Seq({})
  OBVIOUS
<1>2. phase' \in {"done", "baseline"} /\ trials' = << >> /\ seen' = {} /\ spec' = 1 /\ hard' = 0 /\ stopped' = FALSE
  BY DEF NextStrategy, Reset
<1> QED
  BY <1>1, <1>2, MatrixAssumption DEF Counted, Answered, InSearch

\* The report with one more trial.
LEMMA OneMoreTrial ==
  ASSUME Counted, NEW v, NEW res, Record(v, res)
  PROVE  /\ Len(trials) \in Nat /\ Len(trials') = Len(trials) + 1
         /\ trials'[Len(trials) + 1] = [spec |-> spec, verdict |-> v, result |-> res]
         /\ \A i \in 1..Len(trials) : trials'[i] = trials[i]
         /\ \E T : trials' \in Seq(T)
         /\ DOMAIN trials = 1..Len(trials) /\ DOMAIN trials' = 1..(Len(trials) + 1)
<1> DEFINE new == [spec |-> spec, verdict |-> v, result |-> res]
<1>1. PICK T : trials \in Seq(T)
  BY DEF Counted
<1>2. trials' = Append(trials, new)
  BY DEF Record
<1> HIDE DEF new
<1>3. trials' \in Seq(T \union {new})
  BY <1>1, <1>2
<1>4. /\ Len(trials) \in Nat /\ Len(trials') = Len(trials) + 1 /\ trials'[Len(trials) + 1] = new
      /\ \A i \in 1..Len(trials) : trials'[i] = trials[i]
      /\ DOMAIN trials = 1..Len(trials) /\ DOMAIN trials' = 1..Len(trials')
  BY <1>1, <1>2, <1>3
<1> QED
  BY <1>3, <1>4 DEF new

\* One more trial of the spec.
LEMMA CountedTrial ==
  ASSUME Counted, NEW v, NEW res, Record(v, res), Onward(v = "hard_stop"), UNCHANGED spec
  PROVE  Counted'
<1> DEFINE n == Len(trials)
           new == [spec |-> spec, verdict |-> v, result |-> res]
<1>1. /\ spec' = spec /\ spec \in Nat /\ hard \in Nat /\ hard <= n
      /\ hard' = IF v = "hard_stop" THEN hard + 1 ELSE 0
  BY DEF Counted, Onward, HardAfter
<1>2. /\ n \in Nat /\ Len(trials') = n + 1 /\ trials'[n + 1] = new
      /\ \A i \in 1..n : trials'[i] = trials[i]
      /\ \E T : trials' \in Seq(T)
  BY OneMoreTrial
<1>3. IsHard(new, spec) <=> v = "hard_stop"
  BY DEF IsHard
<1>4. new.spec = spec
  OBVIOUS
<1>5. /\ \A i \in 1..n : trials[i].spec \in Nat /\ trials[i].spec <= spec
      /\ \A i \in (n - hard + 1)..n : IsHard(trials[i], spec)
      /\ hard < n => ~IsHard(trials[n - hard], spec)
  BY DEF Counted
<1> HIDE DEF n, new
<1>6. \A i \in 1..(n + 1) : trials'[i].spec \in Nat /\ trials'[i].spec <= spec
  <2> SUFFICES ASSUME NEW i \in 1..(n + 1) PROVE trials'[i].spec \in Nat /\ trials'[i].spec <= spec
    OBVIOUS
  <2>1. i \in 1..n \/ i = n + 1
    BY <1>2
  <2> QED
    BY <2>1, <1>1, <1>2, <1>4, <1>5
<1>7. hard' \in Nat /\ hard' <= n + 1
  BY <1>1, <1>2
<1>8. \A i \in (n + 1 - hard' + 1)..(n + 1) : IsHard(trials'[i], spec)
  <2> SUFFICES ASSUME NEW i \in (n + 1 - hard' + 1)..(n + 1) PROVE IsHard(trials'[i], spec)
    OBVIOUS
  <2>1. v = "hard_stop"
    BY <1>1, <1>2
  <2>2. i = n + 1 \/ (i \in (n - hard + 1)..n /\ i \in 1..n)
    BY <1>1, <1>2, <2>1
  <2> QED
    BY <2>1, <2>2, <1>2, <1>3, <1>5
<1>9. hard' < n + 1 => ~IsHard(trials'[n + 1 - hard'], spec)
  <2>1. CASE v = "hard_stop"
    <3> SUFFICES ASSUME hard' < n + 1 PROVE ~IsHard(trials'[n + 1 - hard'], spec)
      OBVIOUS
    <3>1. n + 1 - hard' = n - hard /\ n - hard \in 1..n /\ hard < n
      BY <1>1, <1>2, <2>1
    <3> QED
      BY <3>1, <1>2, <1>5
  <2>2. CASE v # "hard_stop"
    <3>1. n + 1 - hard' = n + 1
      BY <1>1, <1>2, <2>2
    <3> QED
      BY <3>1, <2>2, <1>2, <1>3
  <2> QED
    BY <2>1, <2>2
<1> QED
  BY <1>1, <1>2, <1>6, <1>7, <1>8, <1>9 DEF Counted

\* What the trial gave is added to the results of the spec, and to no other.
LEMMA AnsweredTrial ==
  ASSUME Counted, Answered, phase = "value", NEW v, NEW res, Record(v, res), Onward(v = "hard_stop"),
         seen' = seen \union res, UNCHANGED <<spec, initial, first>>
  PROVE  Answered'
<1> DEFINE n == Len(trials)
           new == [spec |-> spec, verdict |-> v, result |-> res]
<1>1. /\ n \in Nat /\ trials'[n + 1] = new /\ \A i \in 1..n : trials'[i] = trials[i]
      /\ DOMAIN trials = 1..n /\ DOMAIN trials' = 1..(n + 1)
  BY OneMoreTrial
<1>2. new.spec = spec /\ new.result = res
  OBVIOUS
<1> HIDE DEF n, new
<1>3. ResultsOf(spec)' = ResultsOf(spec) \union res
  <2>1. ResultsOf(spec)' = UNION {trials'[i].result : i \in {k \in 1..(n + 1) : trials'[k].spec = spec}}
    BY <1>1 DEF ResultsOf
  <2>2. ResultsOf(spec) = UNION {trials[i].result : i \in {k \in 1..n : trials[k].spec = spec}}
    BY <1>1 DEF ResultsOf
  <2>3. \A x : (x \in ResultsOf(spec)') <=> \E i \in 1..(n + 1) : trials'[i].spec = spec /\ x \in trials'[i].result
    BY <2>1
  <2>4. \A x : (x \in ResultsOf(spec)) <=> \E i \in 1..n : trials[i].spec = spec /\ x \in trials[i].result
    BY <2>2
  <2>5. \A i : i \in 1..(n + 1) <=> (i \in 1..n \/ i = n + 1)
    BY <1>1
  <2>6. \A x : (x \in ResultsOf(spec)') <=> (x \in ResultsOf(spec) \/ x \in res)
    BY <2>3, <2>4, <2>5, <1>1, <1>2, Zenon
  <2> HIDE <2>1, <2>2
  <2> QED
    BY <2>6
<1>4. \A m \in 1..(spec - 1) : ResultsOf(m)' = ResultsOf(m)
  <2> SUFFICES ASSUME NEW m \in 1..(spec - 1) PROVE ResultsOf(m)' = ResultsOf(m)
    OBVIOUS
  <2>1. m # spec
    BY DEF Counted
  <2>2. {k \in 1..(n + 1) : trials'[k].spec = m} = {k \in 1..n : trials[k].spec = m}
    <3>1. \A i \in 1..(n + 1) : i \in 1..n \/ i = n + 1
      BY <1>1
    <3>2. \A i \in 1..n : i \in 1..(n + 1)
      BY <1>1
    <3> QED
      BY <3>1, <3>2, <2>1, <1>1, <1>2
  <2>3. \A k \in 1..n : trials'[k].result = trials[k].result
    BY <1>1
  <2> QED
    BY <1>1, <2>2, <2>3 DEF ResultsOf
<1>5. \A m \in 1..(spec - 1) : Failed(m)' <=> Failed(m)
  BY <1>4 DEF Failed
<1>6. InSearch /\ InSearch' /\ phase' # "report" /\ phase' \notin {"matrix", "baseline"}
  BY DEF InSearch, Onward
<1>7. stopped' <=> hard' >= HardStopLimit
  BY DEF Onward
<1> QED
  BY <1>3, <1>5, <1>6, <1>7 DEF Answered

\* The trials of the specs before are of other specs, and did not end the search.
LEMMA CountedSpec ==
  ASSUME Counted, Answered, NextSpec
  PROVE  Counted' /\ Answered'
<1>1. /\ spec' = spec + 1 /\ hard' = 0 /\ trials' = trials /\ stopped' = stopped /\ ~stopped
      /\ seen' = {} /\ phase = "spec" /\ phase' = "value" /\ UNCHANGED <<initial, first>> /\ ~StopsAfterSpec
  BY DEF NextSpec, search, report
<1>2. /\ spec \in Nat /\ Len(trials) \in Nat /\ DOMAIN trials = 1..Len(trials)
      /\ \A i \in 1..Len(trials) : trials[i].spec \in Nat /\ trials[i].spec <= spec
      /\ \E T : trials \in Seq(T)
  BY DEF Counted
<1>3. \A i \in 1..Len(trials) : trials[i].spec \in Nat /\ trials[i].spec < spec + 1
  BY <1>2
<1>4. 0 < Len(trials) => ~IsHard(trials[Len(trials)], spec + 1)
  <2>1. 0 < Len(trials) => Len(trials) \in 1..Len(trials)
    BY <1>2
  <2> QED
    BY <2>1, <1>2, <1>3 DEF IsHard
<1>5. Counted'
  <2>1. /\ spec' \in Nat /\ hard' \in Nat /\ hard' <= Len(trials')
        /\ \A i \in 1..Len(trials') : trials'[i].spec \in Nat /\ trials'[i].spec <= spec'
    BY <1>1, <1>2, <1>3
  <2>2. (Len(trials') - hard' + 1)..Len(trials') = {} /\ Len(trials') - hard' = Len(trials)
    BY <1>1, <1>2
  <2> QED
    BY <2>1, <2>2, <1>1, <1>2, <1>4 DEF Counted
<1>6. ResultsOf(spec + 1) = {}
  <2>1. {k \in DOMAIN trials : trials[k].spec = spec + 1} = {}
    BY <1>2, <1>3
  <2> QED
    BY <2>1 DEF ResultsOf
<1>7. \A n : ResultsOf(n)' = ResultsOf(n) /\ (Failed(n)' <=> Failed(n))
  BY <1>1 DEF ResultsOf, Failed
<1>8. InSearch /\ InSearch' /\ seen = ResultsOf(spec) /\ initial = first.wf /\ \A n \in 1..(spec - 1) : ~Failed(n)
  BY <1>1 DEF InSearch, Answered
<1>9. ~Failed(spec)
  BY <1>1, <1>8 DEF Failed, StopsAfterSpec
<1>10. \A n \in 1..(spec' - 1) : ~Failed(n)'
  <2> SUFFICES ASSUME NEW n \in 1..(spec' - 1) PROVE ~Failed(n)
    BY <1>7
  <2>1. n \in 1..(spec - 1) \/ n = spec
    BY <1>1, <1>2
  <2> QED
    BY <2>1, <1>8, <1>9
<1>11. seen' = ResultsOf(spec)'
  BY <1>1, <1>6, <1>7 DEF ResultsOf
<1>12. ~stopped' /\ ~(hard' >= HardStopLimit)
  BY <1>1, MatrixAssumption
<1>13. Answered'
  BY <1>1, <1>8, <1>10, <1>11, <1>12 DEF Answered
<1> QED
  BY <1>5, <1>13

\* Steps that leave the counters alone keep what they count.
LEMMA CountedKept ==
  ASSUME Counted, UNCHANGED <<spec, hard, trials>>
  PROVE  Counted'
  BY DEF Counted, IsHard

\* Steps within a search, or outside one, that leave its results alone keep the answer.
LEMMA AnsweredKept ==
  ASSUME Answered, UNCHANGED <<spec, hard, trials, stopped, seen, initial, first>>,
         InSearch' = InSearch, phase' = "report" <=> phase = "report",
         phase' \in {"matrix", "baseline"} => phase \in {"matrix", "baseline"}
  PROVE  Answered'
<1>1. \A n : ResultsOf(n)' = ResultsOf(n) /\ (Failed(n)' <=> Failed(n))
  BY DEF ResultsOf, Failed
<1>2. ResultsOf(spec)' = ResultsOf(spec) /\ (Failed(spec)' <=> Failed(spec))
  BY DEF ResultsOf, Failed
<1> QED
  BY <1>1, <1>2 DEF Answered

\* The baseline is what a search is measured against.
LEMMA AnsweredBaseline == ASSUME Counted, Answered, Baseline PROVE Answered'
<1>1. /\ phase = "baseline" /\ phase' = "value" /\ initial' = first'.wf
      /\ UNCHANGED <<spec, hard, trials, stopped, seen>>
  BY DEF Baseline
<1>2. trials = << >> /\ seen = {} /\ spec = 1 /\ (stopped <=> hard >= HardStopLimit)
  BY <1>1 DEF Answered
<1>3. ResultsOf(spec)' = {}
  BY <1>1, <1>2 DEF ResultsOf
<1>4. 1..(spec' - 1) = {}
  BY <1>1, <1>2
<1> QED
  BY <1>1, <1>2, <1>3, <1>4 DEF Answered, InSearch

\* A complete report says whether the spec failed.
LEMMA AnsweredComplete == ASSUME Answered, Complete PROVE Answered'
<1>1. /\ phase = "spec" /\ phase' = "report" /\ stopped' = (stopped \/ StopsAfterSpec)
      /\ UNCHANGED <<spec, hard, trials, seen, initial, first>>
  BY DEF Complete
<1>2. \A n : ResultsOf(n)' = ResultsOf(n) /\ (Failed(n)' <=> Failed(n))
  BY <1>1 DEF ResultsOf, Failed
<1>3. ResultsOf(spec)' = ResultsOf(spec) /\ (Failed(spec)' <=> Failed(spec))
  BY <1>1 DEF ResultsOf, Failed
<1>4. InSearch /\ InSearch' /\ seen = ResultsOf(spec) /\ initial = first.wf
  BY <1>1 DEF InSearch, Answered
<1>5. StopsAfterSpec <=> Failed(spec)
  BY <1>4 DEF StopsAfterSpec, Failed
<1> QED
  BY <1>1, <1>2, <1>3, <1>4, <1>5 DEF Answered

\* Every step of the matrix keeps the counts.
LEMMA CountedStep == Counted /\ Answered /\ [MatrixNext]_matrixVars => Counted' /\ Answered'
<1> SUFFICES ASSUME Counted, Answered, [MatrixNext]_matrixVars PROVE Counted' /\ Answered'
  OBVIOUS
<1>1. CASE Matrix
  BY <1>1, CountedKept, AnsweredKept DEF Matrix, search, report, InSearch
<1>2. CASE BaselineRaises
  BY <1>2, CountedReset DEF BaselineRaises
<1>3. CASE Baseline
  BY <1>3, CountedKept, AnsweredBaseline DEF Baseline
<1>4. CASE SkipCurrent
  BY <1>4, CountedKept, AnsweredKept DEF SkipCurrent, search, report, InSearch
<1>5. CASE Trial
  <2>1. PICK r : /\ Record(Verdict(r, best), {<<r.wf, r.stable>>})
                 /\ Onward(Verdict(r, best) = "hard_stop")
                 /\ seen' = seen \union {<<r.wf, r.stable>>}
    BY <1>5 DEF Trial
  <2>2. phase = "value" /\ UNCHANGED <<spec, initial, first>>
    BY <1>5 DEF Trial
  <2> QED
    BY <2>1, <2>2, CountedTrial, AnsweredTrial
<1>6. CASE TrialRaises
  <2>1. /\ Record("hard_stop", {}) /\ Onward("hard_stop" = "hard_stop")
        /\ seen' = seen \union {} /\ phase = "value" /\ UNCHANGED <<spec, initial, first>>
    BY <1>6 DEF TrialRaises
  <2> QED
    BY <2>1, CountedTrial, AnsweredTrial
<1>7. CASE NextSpec
  BY <1>7, CountedSpec
<1>8. CASE Complete
  BY <1>8, CountedKept, AnsweredComplete DEF Complete
<1>9. CASE EndStrategy
  BY <1>9, CountedReset DEF EndStrategy
<1>10. CASE NewBar
  BY <1>10, CountedKept, AnsweredKept DEF NewBar, search, report, InSearch
<1>11. CASE UNCHANGED matrixVars
  BY <1>11, CountedKept, AnsweredKept DEF matrixVars, search, report, InSearch
<1> QED
  BY <1>1, <1>2, <1>3, <1>4, <1>5, <1>6, <1>7, <1>8, <1>9, <1>10, <1>11 DEF MatrixNext

\* The counts are right for good.
LEMMA AlwaysCounted == MatrixSpec => [](Counted /\ Answered)
  BY CountedInit, CountedStep, PTL DEF MatrixSpec

\* What is counted is the run of hard stops that the report ends with.
LEMMA CountIsRun == ASSUME Counted PROVE hard >= HardStopLimit <=> HardRun(HardStopLimit)
<1> DEFINE n == Len(trials)
<1>1. /\ hard \in Nat /\ n \in Nat /\ hard <= n /\ HardStopLimit \in Nat \ {0}
      /\ \A i \in (n - hard + 1)..n : IsHard(trials[i], spec)
      /\ hard < n => ~IsHard(trials[n - hard], spec)
  BY MatrixAssumption DEF Counted
<1>2. HardRun(HardStopLimit) <=> /\ n >= HardStopLimit
                                 /\ \A i \in (n - HardStopLimit + 1)..n : IsHard(trials[i], spec)
  BY DEF HardRun
<1> HIDE DEF n
<1>3. ASSUME hard >= HardStopLimit PROVE HardRun(HardStopLimit)
  <2>1. \A i \in (n - HardStopLimit + 1)..n : i \in (n - hard + 1)..n
    BY <1>1, <1>3
  <2> QED
    BY <1>1, <1>2, <1>3, <2>1
<1>4. ASSUME hard < HardStopLimit, HardRun(HardStopLimit) PROVE FALSE
  <2>1. hard < n /\ n - hard \in (n - HardStopLimit + 1)..n
    BY <1>1, <1>2, <1>4
  <2> QED
    BY <1>1, <1>2, <1>4, <2>1
<1> QED
  BY <1>1, <1>3, <1>4

\* A report of a search of parameters says it was stopped early exactly when
\* consecutive_hard_stop_limit trials of one spec in succession were hard stops, or all
\* results of its last spec were worse than the first baseline by the delta, or, with the
\* switch on, all were unstable, and no search goes on after such a spec, for any
\* strategies, specs, backtests that raise and bars that arrive.
THEOREM MatrixStopsForCause == MatrixSpec => []StopsForCause
<1>1. Counted /\ Answered => StopsForCause
  BY CountIsRun DEF StopsForCause, Answered
<1> QED
  BY <1>1, AlwaysCounted, PTL
-----------------------------------------------------------------------------
(* Recursion over positions and over the subsets of a finite set: that     *)
(* there is such a function, and what holds of all of its values.          *)

\* What holds at 0 and is passed on from each number to the next holds up to n.
LEMMA Upward ==
  ASSUME NEW n \in Nat, NEW S, 0 \in S, \A i \in 1..n : i - 1 \in S => i \in S
  PROVE  \A i \in 0..n : i \in S
<1> DEFINE bad == (0..n) \ S
<1> SUFFICES ASSUME bad # {} PROVE FALSE
  OBVIOUS
<1>1. bad \in SUBSET Nat
  OBVIOUS
<1>2. PICK m \in bad : \A k \in bad : ~ (<<k, m>> \in OpToRel(<, Nat))
  <2> HIDE DEF bad
  <2> QED
    BY <1>1, NatLessThanWellFounded, WFMin
<1>3. m \in 1..n /\ m - 1 \in Nat /\ m - 1 \notin bad
  <2>1. m \in 0..n /\ m # 0
    OBVIOUS
  <2>2. m \in Nat /\ m - 1 \in Nat /\ m - 1 < m
    BY <2>1
  <2>3. m - 1 \notin bad
    <3> HIDE DEF bad
    <3> QED
      BY <1>2, <2>2 DEF OpToRel
  <2> QED
    BY <2>1, <2>2, <2>3
<1>4. m - 1 \in S
  BY <1>3
<1> QED
  BY <1>3, <1>4

\* The values of a recursion that takes F[i] from the value before i to the one at i.
Steps(F, seed, g, n) == g = [i \in 0..n |-> IF i = 0 THEN seed ELSE F[i][g[i - 1]]]

Leads(F, W, n) == \A i \in 1..n : F[i] \in [W[i - 1] -> W[i]]

\* There is one, whatever sets W[i] the values are in.
LEMMA StepsExist ==
  ASSUME NEW n \in Nat, NEW W, NEW F, NEW seed \in W[0], Leads(F, W, n)
  PROVE  \E g : Steps(F, seed, g, n) /\ \A i \in 0..n : g[i] \in W[i]
<1> DEFINE Some(k) == \E g : Steps(F, seed, g, k) /\ \A i \in 0..k : g[i] \in W[i]
           S == {k \in 0..n : Some(k)}
<1>1. 0 \in S
  <2> DEFINE g == [i \in 0..0 |-> seed]
  <2>1. Steps(F, seed, g, 0)
    BY DEF Steps
  <2>2. \A i \in 0..0 : g[i] \in W[i]
    OBVIOUS
  <2> HIDE DEF g
  <2> QED
    BY <2>1, <2>2
<1>2. ASSUME NEW i \in 1..n, i - 1 \in S PROVE i \in S
  <2>1. PICK g : Steps(F, seed, g, i - 1) /\ \A k \in 0..(i - 1) : g[k] \in W[k]
    BY <1>2
  <2> DEFINE h == [k \in 0..i |-> IF k = i THEN F[i][g[i - 1]] ELSE g[k]]
  <2>2. \A k \in 0..(i - 1) : h[k] = g[k]
    OBVIOUS
  <2>3. i - 1 \in 0..(i - 1) /\ h[i] = F[i][g[i - 1]] /\ h[i - 1] = g[i - 1]
    OBVIOUS
  <2>4. \A k \in 0..(i - 1) : g[k] = IF k = 0 THEN seed ELSE F[k][g[k - 1]]
    BY <2>1 DEF Steps
  <2>5. \A k \in 0..i : h[k] = IF k = 0 THEN seed ELSE F[k][h[k - 1]]
    <3> SUFFICES ASSUME NEW k \in 0..i PROVE h[k] = IF k = 0 THEN seed ELSE F[k][h[k - 1]]
      OBVIOUS
    <3> HIDE DEF h
    <3>1. CASE k = i
      BY <2>3, <3>1
    <3>2. CASE k # i
      <4>1. k \in 0..(i - 1) /\ (k # 0 => k - 1 \in 0..(i - 1))
        BY <3>2
      <4> QED
        BY <2>2, <2>4, <4>1
    <3> QED
      BY <3>1, <3>2
  <2>6. Steps(F, seed, h, i)
    <3> DEFINE H(k) == IF k = 0 THEN seed ELSE F[k][h[k - 1]]
    <3>1. h = [k \in 0..i |-> h[k]]
      OBVIOUS
    <3>2. \A k \in 0..i : h[k] = H(k)
      BY <2>5
    <3> HIDE DEF h, H
    <3>3. h = [k \in 0..i |-> H(k)]
      BY <3>1, <3>2
    <3> QED
      BY <3>3 DEF Steps, H
  <2>7. h[i] \in W[i]
    <3>1. F[i] \in [W[i - 1] -> W[i]] /\ g[i - 1] \in W[i - 1]
      BY <2>1, <2>3 DEF Leads
    <3> HIDE DEF h
    <3> QED
      BY <2>3, <3>1
  <2>8. \A k \in 0..i : h[k] \in W[k]
    <3>1. \A k \in 0..i : k = i \/ k \in 0..(i - 1)
      OBVIOUS
    <3> HIDE DEF h
    <3> QED
      BY <2>1, <2>2, <2>7, <3>1
  <2> HIDE DEF h
  <2> QED
    BY <2>6, <2>8
<1>3. n \in S
  <2> HIDE DEF S
  <2>1. \A i \in 0..n : i \in S
    BY <1>1, <1>2, Upward
  <2> QED
    BY <2>1
<1> QED
  BY <1>3

\* All of its values are in W, too, when it is only known to be one.
LEMMA StepsType ==
  ASSUME NEW n \in Nat, NEW W, NEW F, NEW seed \in W[0], NEW g, Steps(F, seed, g, n), Leads(F, W, n)
  PROVE  /\ \A i \in 0..n : g[i] \in W[i] /\ g[i] = IF i = 0 THEN seed ELSE F[i][g[i - 1]]
         /\ g = [i \in 0..n |-> g[i]]
<1> DEFINE S == {i \in 0..n : g[i] \in W[i]}
<1>1. \A i \in 0..n : g[i] = IF i = 0 THEN seed ELSE F[i][g[i - 1]]
  BY DEF Steps
<1>2. 0 \in S
  BY <1>1
<1>3. ASSUME NEW i \in 1..n, i - 1 \in S PROVE i \in S
  <2>1. i # 0 /\ i \in 0..n
    OBVIOUS
  <2>2. g[i] = F[i][g[i - 1]]
    BY <1>1, <2>1
  <2> QED
    BY <1>3, <2>1, <2>2 DEF Leads
<1>4. \A i \in 0..n : i \in S
  <2> HIDE DEF S
  <2> QED
    BY <1>2, <1>3, Upward
<1>5. g = [i \in 0..n |-> g[i]]
  BY DEF Steps
<1> QED
  BY <1>1, <1>4, <1>5

\* Some subsets of a finite set, if there are any, have a least one among them.
LEMMA LeastSubset ==
  ASSUME NEW S, IsFiniteSet(S), NEW bad \in SUBSET SUBSET S, bad # {}
  PROVE  \E T \in bad : \A U \in bad : U \subseteq T => U = T
<1>1. IsWellFoundedOn(StrictSubsetOrdering(S), SUBSET S)
  BY FS_StrictSubsetOrderingWellFounded, FS_FiniteSubsetsOfFinite
<1>2. PICK T \in bad : \A U \in bad : ~(<<U, T>> \in StrictSubsetOrdering(S))
  BY <1>1, WFMin
<1>3. ASSUME NEW U \in bad, U \subseteq T, U # T PROVE FALSE
  <2>1. <<U, T>> \in StrictSubsetOrdering(S)
    BY <1>3 DEF StrictSubsetOrdering
  <2> QED
    BY <1>2, <1>3, <2>1
<1> QED
  BY <1>2, <1>3

\* pick takes a member out of each subset that has one.
Picks(pick, S) == \A T \in SUBSET S : T # {} => pick[T] \in T

\* What holds of the empty set and is passed on when a member is put back holds of all.
LEMMA Outward ==
  ASSUME NEW S, IsFiniteSet(S), NEW pick, Picks(pick, S), NEW good, {} \in good,
         \A T \in SUBSET S : T # {} /\ T \ {pick[T]} \in good => T \in good
  PROVE  \A T \in SUBSET S : T \in good
<1> DEFINE bad == (SUBSET S) \ good
<1> SUFFICES ASSUME bad # {} PROVE FALSE
  OBVIOUS
<1>1. bad \in SUBSET SUBSET S
  OBVIOUS
<1>2. PICK T \in bad : \A U \in bad : U \subseteq T => U = T
  <2> HIDE DEF bad
  <2> QED
    BY <1>1, LeastSubset
<1>3. T \in SUBSET S /\ T # {} /\ T \notin good
  OBVIOUS
<1>4. pick[T] \in T
  BY <1>3 DEF Picks
<1>5. T \ {pick[T]} \in good
  <2>1. T \ {pick[T]} \subseteq T /\ T \ {pick[T]} # T /\ T \ {pick[T]} \in SUBSET S
    BY <1>3, <1>4
  <2> QED
    BY <1>2, <2>1
<1> QED
  BY <1>3, <1>5

\* The folds over the subsets of S: F[x] is how x is put to what the others give.
Folds(F, seed, pick, h, S) ==
    h = [T \in SUBSET S |-> IF T = {} THEN seed ELSE F[pick[T]][h[T \ {pick[T]}]]]

\* Two folds over the same sets give the same.
LEMMA FoldsAgree ==
  ASSUME NEW S, IsFiniteSet(S), NEW A, NEW B, S \subseteq A, S \subseteq B, NEW seed, NEW pick, Picks(pick, S),
         NEW F, NEW G, \A x \in S : F[x] = G[x], NEW h, NEW g,
         Folds(F, seed, pick, h, A), Folds(G, seed, pick, g, B)
  PROVE  \A T \in SUBSET S : h[T] = g[T]
<1> DEFINE good == {T \in SUBSET S : h[T] = g[T]}
<1>1. \A T \in SUBSET S : /\ h[T] = IF T = {} THEN seed ELSE F[pick[T]][h[T \ {pick[T]}]]
                          /\ g[T] = IF T = {} THEN seed ELSE G[pick[T]][g[T \ {pick[T]}]]
  <2> SUFFICES ASSUME NEW T \in SUBSET S
               PROVE  /\ h[T] = IF T = {} THEN seed ELSE F[pick[T]][h[T \ {pick[T]}]]
                      /\ g[T] = IF T = {} THEN seed ELSE G[pick[T]][g[T \ {pick[T]}]]
    OBVIOUS
  <2>1. T \in SUBSET A /\ T \in SUBSET B
    OBVIOUS
  <2> QED
    BY <2>1, Zenon DEF Folds
<1>2. {} \in good
  BY <1>1
<1>3. ASSUME NEW T \in SUBSET S, T # {}, T \ {pick[T]} \in good PROVE T \in good
  <2>1. pick[T] \in S
    BY <1>3 DEF Picks
  <2> QED
    BY <1>1, <1>3, <2>1
<1>4. \A T \in SUBSET S : T \in good
  <2> HIDE DEF good
  <2> QED
    BY <1>2, <1>3, Outward
<1> QED
  BY <1>4

Keeps(F, S, V) == \A x \in S : F[x] \in [V -> V]

\* There is a fold, and with values of one type if each F[x] keeps it.
LEMMA FoldsExist ==
  ASSUME NEW S, IsFiniteSet(S), NEW pick, Picks(pick, S), NEW V, NEW seed \in V,
         NEW F, Keeps(F, S, V)
  PROVE  \E h : Folds(F, seed, pick, h, S) /\ \A T \in SUBSET S : h[T] \in V
<1> DEFINE Good(h, T) == Folds(F, seed, pick, h, T) /\ \A U \in SUBSET T : h[U] \in V
           bad == {T \in SUBSET S : ~\E h : Good(h, T)}
           Rest(T) == T \ {pick[T]}
<1> SUFFICES ASSUME bad # {} PROVE FALSE
  OBVIOUS
<1>0. bad \in SUBSET SUBSET S
  OBVIOUS
<1>1. PICK B \in bad : \A U \in bad : U \subseteq B => U = B
  <2> HIDE DEF bad
  <2> QED
    BY <1>0, LeastSubset
<1>2. /\ B \in SUBSET S /\ ~\E h : Good(h, B)
      /\ \A U \in SUBSET B : U # B => \E h : Good(h, U)
  BY <1>1
<1> DEFINE k == [U \in SUBSET B |-> CHOOSE h : Good(h, U)]
           Next2(T) == IF T = {} THEN seed ELSE F[pick[T]][k[Rest(T)][Rest(T)]]
           g == [T \in SUBSET B |-> Next2(T)]
<1>3. \A U \in SUBSET B : U # B => Good(k[U], U)
  <2> HIDE DEF Good
  <2> QED
    BY <1>2
<1>4. \A T \in SUBSET B : IsFiniteSet(T) /\ Picks(pick, T)
  BY <1>2, FS_Subset DEF Picks
<1>5. \A T \in SUBSET B : T # {} => Rest(T) \in SUBSET B /\ Rest(T) # B /\ Rest(T) \in SUBSET T /\ Rest(T) # T /\ pick[T] \in S
  BY <1>2 DEF Picks
<1> HIDE DEF k, Rest
<1>6. \A T \in SUBSET B : T # {} => k[Rest(T)][Rest(T)] \in V
  <2> SUFFICES ASSUME NEW T \in SUBSET B, T # {} PROVE k[Rest(T)][Rest(T)] \in V
    OBVIOUS
  <2>1. Good(k[Rest(T)], Rest(T))
    BY <1>3, <1>5
  <2>2. \A U \in SUBSET Rest(T) : k[Rest(T)][U] \in V
    BY <2>1
  <2> QED
    BY <2>2
<1>7. \A T \in SUBSET B : g[T] \in V /\ g[T] = Next2(T)
  <2> SUFFICES ASSUME NEW T \in SUBSET B PROVE Next2(T) \in V
    OBVIOUS
  <2>1. CASE T = {}
    BY <2>1
  <2>2. CASE T # {}
    <3>1. F[pick[T]] \in [V -> V] /\ k[Rest(T)][Rest(T)] \in V
      BY <1>5, <1>6, <2>2 DEF Keeps
    <3> QED
      BY <2>2, <3>1
  <2> QED
    BY <2>1, <2>2
<1>8. \A T \in SUBSET B : T # B => g[T] = k[T][T]
  <2> SUFFICES ASSUME NEW T \in SUBSET B, T # B PROVE g[T] = k[T][T]
    OBVIOUS
  <2>1. Folds(F, seed, pick, k[T], T)
    BY <1>3
  <2>2. k[T][T] = IF T = {} THEN seed ELSE F[pick[T]][k[T][Rest(T)]]
    <3>1. T \in SUBSET T
      OBVIOUS
    <3> QED
      BY <2>1, <3>1, Zenon DEF Folds, Rest
  <2>3. CASE T # {}
    <3> DEFINE U == Rest(T)
    <3>1. U \subseteq T /\ U # T /\ U \in SUBSET B /\ U # B
      BY <1>5, <2>3
    <3> HIDE DEF U
    <3>2. IsFiniteSet(U) /\ Picks(pick, U) /\ Folds(F, seed, pick, k[U], U)
      BY <1>3, <1>4, <3>1
    <3>3. \A W \in SUBSET U : k[T][W] = k[U][W]
      <4> DEFINE a == k[T]
                 b == k[U]
      <4>1. Folds(F, seed, pick, a, T) /\ Folds(F, seed, pick, b, U) /\ U \subseteq T /\ U \subseteq U
        BY <2>1, <3>1, <3>2
      <4> HIDE DEF a, b
      <4>2. \A W \in SUBSET U : a[W] = b[W]
        BY <3>2, <4>1, FoldsAgree
      <4> QED
        BY <4>2 DEF a, b
    <3>4. k[T][U] = k[U][U]
      BY <3>3
    <3>5. g[T] = F[pick[T]][k[U][U]]
      BY <1>7, <2>3 DEF U
    <3> HIDE DEF g
    <3> QED
      BY <2>2, <2>3, <3>4, <3>5 DEF U
  <2>4. CASE T = {}
    BY <1>7, <2>2, <2>4
  <2> QED
    BY <2>3, <2>4
<1>9. Folds(F, seed, pick, g, B)
  <2> DEFINE H(T) == IF T = {} THEN seed ELSE F[pick[T]][g[Rest(T)]]
  <2>1. \A T \in SUBSET B : g[T] = H(T)
    <3> SUFFICES ASSUME NEW T \in SUBSET B PROVE g[T] = H(T)
      OBVIOUS
    <3>1. T # {} => g[Rest(T)] = k[Rest(T)][Rest(T)]
      BY <1>5, <1>8
    <3>2. g[T] = Next2(T)
      BY <1>7
    <3> HIDE DEF g
    <3> QED
      BY <3>1, <3>2
  <2>2. g = [T \in SUBSET B |-> g[T]]
    OBVIOUS
  <2> HIDE DEF g, H
  <2>3. g = [T \in SUBSET B |-> H(T)]
    BY <2>1, <2>2
  <2> QED
    BY <2>3 DEF Folds, H, Rest
<1> HIDE DEF g
<1>10. Good(g, B)
  BY <1>7, <1>9
<1> QED
  BY <1>2, <1>10

\* What is known to be a fold has values of that type.
LEMMA FoldsType ==
  ASSUME NEW S, IsFiniteSet(S), NEW pick, Picks(pick, S), NEW V, NEW seed \in V,
         NEW F, Keeps(F, S, V), NEW h, Folds(F, seed, pick, h, S)
  PROVE  /\ \A T \in SUBSET S : h[T] \in V
         /\ \A T \in SUBSET S : h[T] = IF T = {} THEN seed ELSE F[pick[T]][h[T \ {pick[T]}]]
<1>1. \A T \in SUBSET S : h[T] = IF T = {} THEN seed ELSE F[pick[T]][h[T \ {pick[T]}]]
  BY Zenon DEF Folds
<1> DEFINE good == {T \in SUBSET S : h[T] \in V}
<1>2. {} \in good
  BY <1>1
<1>3. ASSUME NEW T \in SUBSET S, T # {}, T \ {pick[T]} \in good PROVE T \in good
  <2>1. F[pick[T]] \in [V -> V]
    BY <1>3 DEF Picks, Keeps
  <2> QED
    BY <1>1, <1>3, <2>1
<1>4. \A T \in SUBSET S : T \in good
  <2> HIDE DEF good
  <2> QED
    BY <1>2, <1>3, Outward
<1> QED
  BY <1>1, <1>4

-----------------------------------------------------------------------------
(* Sums and greatest members                                               *)

\* The member that the folds of a sum take out first.
Pick(T) == CHOOSE x \in T : TRUE

\* Choosing one element of each nonempty set is a pick.
LEMMA Picked == \A S : Picks([T \in SUBSET S |-> Pick(T)], S)
  BY DEF Picks, Pick

\* The greatest of finitely many integers is one of them.
LEMMA MaxIs ==
  ASSUME NEW S \in SUBSET Int, IsFiniteSet(S), S # {}
  PROVE  Max(S) \in S /\ \A y \in S : Max(S) >= y
<1> DEFINE pick == [T \in SUBSET S |-> Pick(T)]
           good == {T \in SUBSET S : T = {} \/ \E x \in T : \A y \in T : x >= y}
<1>1. {} \in good
  OBVIOUS
<1>2. ASSUME NEW T \in SUBSET S, T # {}, T \ {pick[T]} \in good PROVE T \in good
  <2>1. pick[T] \in T
    BY <1>2, Picked DEF Picks
  <2> DEFINE m == pick[T]
  <2>2. m \in T /\ T \ {m} \in good /\ m \in Int
    BY <1>2, <2>1
  <2> HIDE DEF m
  <2>3. CASE T \ {m} = {}
    <3>1. \A y \in T : y = m
      BY <2>3
    <3> QED
      BY <2>2, <3>1
  <2>4. CASE \E x \in T \ {m} : \A y \in T \ {m} : x >= y
    <3>1. PICK x \in T \ {m} : \A y \in T \ {m} : x >= y
      BY <2>4
    <3>2. x \in Int /\ \A y \in T : y = m \/ (y \in T \ {m} /\ y \in Int)
      BY <3>1
    <3>3. CASE x >= m
      <4>1. \A y \in T : x >= y
        BY <3>1, <3>2, <3>3
      <4> QED
        BY <3>1, <4>1
    <3>4. CASE ~(x >= m)
      <4>1. \A y \in T : m >= y
        BY <2>2, <3>1, <3>2, <3>4
      <4> QED
        BY <2>2, <4>1
    <3> QED
      BY <3>3, <3>4
  <2> QED
    BY <2>2, <2>3, <2>4
<1>3. \A T \in SUBSET S : T \in good
  <2> HIDE DEF good, pick
  <2>1. Picks(pick, S)
    BY Picked DEF pick
  <2> QED
    BY <1>1, <1>2, <2>1, Outward
<1>4. S \in good
  BY <1>3
<1> QED
  BY <1>4 DEF Max

\* The sums of f over the subsets of S
Sums(f, h, S) == \A T \in SUBSET S : h[T] = IF T = {} THEN 0 ELSE f[Pick(T)] + h[T \ {Pick(T)}]

\* Of numbers there is a sum over each subset.
LEMMA SumsExist ==
  ASSUME NEW S, IsFiniteSet(S), NEW f \in [S -> Int]
  PROVE  \E h \in [SUBSET S -> Int] : Sums(f, h, S)
<1> DEFINE pick == [T \in SUBSET S |-> Pick(T)]
           F == [x \in S |-> [v \in Int |-> f[x] + v]]
<1>1. Picks(pick, S)
  BY Picked
<1>2. \A x \in S : F[x] \in [Int -> Int]
  OBVIOUS
<1>3. PICK h : Folds(F, 0, pick, h, S) /\ \A T \in SUBSET S : h[T] \in Int
  <2> DEFINE V == Int
             b == 0
  <2>1. b \in V /\ Keeps(F, S, V)
    BY <1>2 DEF Keeps
  <2> HIDE DEF F, pick, V, b
  <2>2. \E h : Folds(F, b, pick, h, S) /\ \A T \in SUBSET S : h[T] \in V
    BY <1>1, <2>1, FoldsExist
  <2> QED
    BY <2>2 DEF V, b
<1>4. h \in [SUBSET S -> Int]
  <2>1. h = [T \in SUBSET S |-> h[T]]
    BY <1>3, Zenon DEF Folds
  <2> QED
    BY <1>3, <2>1
<1>5. ASSUME NEW T \in SUBSET S
      PROVE  h[T] = IF T = {} THEN 0 ELSE f[Pick(T)] + h[T \ {Pick(T)}]
  <2>1. h[T] = IF T = {} THEN 0 ELSE F[pick[T]][h[T \ {pick[T]}]]
    BY <1>3, Zenon DEF Folds
  <2>2. CASE T # {}
    <3>1. pick[T] = Pick(T) /\ Pick(T) \in S
      BY <1>1, <2>2 DEF Picks
    <3>2. h[T \ {Pick(T)}] \in Int
      BY <1>3
    <3> QED
      BY <2>1, <2>2, <3>1, <3>2
  <2> QED
    BY <2>1, <2>2
<1> QED
  BY <1>4, <1>5 DEF Sums

\* What sums over the subsets is an integer.
LEMMA SumsType ==
  ASSUME NEW S, IsFiniteSet(S), NEW f \in [S -> Int], NEW h, Sums(f, h, S)
  PROVE  \A T \in SUBSET S : h[T] \in Int
<1> DEFINE pick == [T \in SUBSET S |-> Pick(T)]
           good == {T \in SUBSET S : h[T] \in Int}
<1>1. {} \in good
  <2>1. {} \in SUBSET S
    OBVIOUS
  <2>2. h[{}] = 0
    BY <2>1 DEF Sums
  <2> QED
    BY <2>1, <2>2
<1>2. ASSUME NEW T \in SUBSET S, T # {}, T \ {pick[T]} \in good PROVE T \in good
  <2>1. pick[T] \in T /\ pick[T] = Pick(T)
    BY <1>2, Picked DEF Picks
  <2>2. f[Pick(T)] \in Int /\ h[T \ {Pick(T)}] \in Int
    BY <1>2, <2>1
  <2> QED
    <3>1. h[T] = f[Pick(T)] + h[T \ {Pick(T)}]
      BY <1>2 DEF Sums
    <3>2. h[T] \in Int
      <4> HIDE DEF pick, good
      <4> QED
        BY <2>2, <3>1
    <3> QED
      BY <3>2
<1>3. \A T \in SUBSET S : T \in good
  <2> HIDE DEF good, pick
  <2>1. Picks(pick, S)
    BY Picked DEF pick
  <2> QED
    BY <1>1, <1>2, <2>1, Outward
<1> QED
  BY <1>3

\* What sums what is not negative is not.
LEMMA SumsSign ==
  ASSUME NEW S, IsFiniteSet(S), NEW f \in [S -> Int], \A x \in S : f[x] >= 0, NEW h, Sums(f, h, S)
  PROVE  \A T \in SUBSET S : h[T] >= 0
<1> DEFINE pick == [T \in SUBSET S |-> Pick(T)]
           good == {T \in SUBSET S : h[T] >= 0}
<1>0. \A T \in SUBSET S : h[T] \in Int
  BY SumsType
<1>1. {} \in good
  <2>1. h[{}] = 0
    BY DEF Sums
  <2> QED
    BY <2>1
<1>2. ASSUME NEW T \in SUBSET S, T # {}, T \ {pick[T]} \in good PROVE T \in good
  <2>1. pick[T] \in T /\ pick[T] = Pick(T)
    BY <1>2, Picked DEF Picks
  <2> DEFINE a == f[Pick(T)]
             b == h[T \ {Pick(T)}]
  <2>2. a \in Int /\ a >= 0 /\ b \in Int /\ b >= 0
    BY <1>0, <1>2, <2>1
  <2>3. h[T] = a + b
    BY <1>2 DEF Sums
  <2> HIDE DEF a, b, pick
  <2>4. h[T] >= 0
    BY <2>2, <2>3
  <2> QED
    BY <2>4
<1>3. \A T \in SUBSET S : T \in good
  <2> HIDE DEF good, pick
  <2>1. Picks(pick, S)
    BY Picked DEF pick
  <2> QED
    BY <1>1, <1>2, <2>1, Outward
<1> QED
  BY <1>3

\* total_return, and the sums of a regression
LEMMA TotalType ==
  ASSUME NEW s \in Seq(Int)
  PROVE  Total(s) \in Int /\ ((\A k \in DOMAIN s : s[k] >= 0) => Total(s) >= 0)
<1> DEFINE S == DOMAIN s
           H(h, T) == IF T = {} THEN 0 ELSE s[Pick(T)] + h[T \ {Pick(T)}]
           i == CHOOSE h : h = [T \in SUBSET S |-> H(h, T)]
<1>1. Total(s) = i[S]
  BY DEF Total, FoldSeq, FoldFunction, FoldFunctionOnSet, MapThenFoldSet, Pick
<1>2. IsFiniteSet(S) /\ s \in [S -> Int]
  <2>1. S = 1..Len(s) /\ Len(s) \in Nat
    OBVIOUS
  <2>2. 1 \in Int /\ Len(s) \in Int
    BY <2>1
  <2>3. IsFiniteSet(S)
    BY <2>1, <2>2, FS_Interval
  <2> QED
    BY <2>1, <2>3
<1>3. PICK h \in [SUBSET S -> Int] : \A T \in SUBSET S : h[T] = H(h, T)
  <2> HIDE DEF S
  <2>1. \E h \in [SUBSET S -> Int] : Sums(s, h, S)
    BY <1>2, SumsExist
  <2> QED
    BY <2>1 DEF Sums
<1>4. h = [T \in SUBSET S |-> H(h, T)]
  <2> HIDE DEF H, S
  <2> QED
    BY <1>3
<1>5. i = [T \in SUBSET S |-> H(i, T)]
  <2> HIDE DEF H, S
  <2> QED
    BY <1>4
<1>6. \A T \in SUBSET S : i[T] = H(i, T)
  <2> HIDE DEF H, S, i
  <2> QED
    BY <1>5
<1> HIDE DEF i, S
<1>7. Sums(s, i, S)
  BY <1>6 DEF Sums
<1>8. \A T \in SUBSET S : i[T] \in Int
  BY <1>2, <1>7, SumsType
<1>9. ASSUME \A k \in S : s[k] >= 0 PROVE \A T \in SUBSET S : i[T] >= 0
  BY <1>2, <1>7, <1>9, SumsSign
<1> QED
  BY <1>1, <1>8, <1>9 DEF S

\* A sum of squares is a number.
LEMMA SquaresType == ASSUME NEW s \in Seq(Int) PROVE Squares(s) \in Int
<1> DEFINE S == DOMAIN s
           f == [k \in S |-> s[k] * s[k]]
           H(h, T) == IF T = {} THEN 0 ELSE h[T \ {Pick(T)}] + s[Pick(T)] * s[Pick(T)]
           i == CHOOSE h : h = [T \in SUBSET S |-> H(h, T)]
<1>1. Squares(s) = i[S]
  BY DEF Squares, FoldSeq, FoldFunction, FoldFunctionOnSet, MapThenFoldSet, Pick
<1>2. IsFiniteSet(S) /\ f \in [S -> Int] /\ \A k \in S : s[k] * s[k] \in Int /\ f[k] = s[k] * s[k]
  <2>1. S = 1..Len(s) /\ Len(s) \in Nat
    OBVIOUS
  <2>2. 1 \in Int /\ Len(s) \in Int
    BY <2>1
  <2>3. IsFiniteSet(S)
    BY <2>1, <2>2, FS_Interval
  <2> QED
    BY <2>1, <2>3
<1>3. PICK h \in [SUBSET S -> Int] :
          \A T \in SUBSET S : h[T] = IF T = {} THEN 0 ELSE f[Pick(T)] + h[T \ {Pick(T)}]
  <2> HIDE DEF S, f
  <2>1. \E h \in [SUBSET S -> Int] : Sums(f, h, S)
    BY <1>2, SumsExist
  <2> QED
    BY <2>1 DEF Sums
<1>4. \A T \in SUBSET S : T # {} => Pick(T) \in S
  BY DEF Pick
<1>5. \A T \in SUBSET S : h[T] = H(h, T)
  <2> SUFFICES ASSUME NEW T \in SUBSET S PROVE h[T] = H(h, T)
    OBVIOUS
  <2>1. h[T \ {Pick(T)}] \in Int
    <3>1. T \ {Pick(T)} \in SUBSET S
      OBVIOUS
    <3> HIDE DEF S
    <3> QED
      BY <1>3, <3>1
  <2>2. T # {} => f[Pick(T)] = s[Pick(T)] * s[Pick(T)] /\ f[Pick(T)] \in Int
    <3> HIDE DEF S, f
    <3> QED
      BY <1>2, <1>4
  <2> HIDE DEF S, f
  <2>3. CASE T = {}
    BY <1>3, <2>3
  <2>4. CASE T # {}
    <3>1. h[T] = f[Pick(T)] + h[T \ {Pick(T)}]
      BY <1>3, <2>4
    <3>2. \A a, b \in Int : a + b = b + a
      OBVIOUS
    <3>3. h[T] = h[T \ {Pick(T)}] + f[Pick(T)]
      BY <2>1, <2>2, <2>4, <3>1, <3>2
    <3> QED
      BY <2>2, <2>4, <3>3
  <2> QED
    BY <2>3, <2>4
<1>6. i = [T \in SUBSET S |-> H(i, T)]
  <2> HIDE DEF H, S
  <2>1. h = [T \in SUBSET S |-> H(h, T)]
    BY <1>3, <1>5
  <2> QED
    BY <2>1
<1>7. \A T \in SUBSET S : i[T] = H(i, T)
  <2> HIDE DEF H, S, i
  <2> QED
    BY <1>6
<1> DEFINE pick == [T \in SUBSET S |-> Pick(T)]
           good == {T \in SUBSET S : i[T] \in Int}
<1> HIDE DEF i
<1>8. {} \in good
  <2>1. i[{}] = 0
    BY <1>7
  <2> QED
    BY <2>1
<1>9. ASSUME NEW T \in SUBSET S, T # {}, T \ {pick[T]} \in good PROVE T \in good
  <2> HIDE DEF S
  <2>1. pick[T] = Pick(T) /\ Pick(T) \in S
    BY <1>4, <1>9
  <2>2. i[T \ {Pick(T)}] \in Int /\ s[Pick(T)] * s[Pick(T)] \in Int
    BY <1>2, <1>9, <2>1
  <2>3. i[T] = i[T \ {Pick(T)}] + s[Pick(T)] * s[Pick(T)]
    BY <1>7, <1>9
  <2> QED
    BY <2>2, <2>3
<1>10. \A T \in SUBSET S : T \in good
  <2> HIDE DEF good, pick, S
  <2>1. Picks(pick, S)
    BY Picked DEF pick
  <2>2. IsFiniteSet(S)
    BY <1>2
  <2>3. \A T \in SUBSET S : T # {} /\ T \ {pick[T]} \in good => T \in good
    BY <1>9
  <2> QED
    BY <1>8, <2>1, <2>2, <2>3, Outward
<1> QED
  BY <1>1, <1>10

-----------------------------------------------------------------------------
(* Backtest: signals and positions                                         *)

Sides == {-1, 0, 1}

\* The recursion of build_trend_signals: the signals up to each bar.
TrendBar(bars, cfg, before, i) ==
    IF i < cfg["ma_long"] + WarmUp \/ i = 0 THEN [k \in 1..i |-> 0]
    ELSE Append(before, IF i = Len(bars) THEN 0
                        ELSE NextSide(IF i = 1 THEN 0 ELSE Last(before),
                                      TrendSide(SubSeq(bars, 1, i), Adx(bars)[i], cfg), Adx(bars)[i], cfg))

TrendBars(bars, cfg, sides) ==
    \A i \in 0..Len(bars) : sides[i] \in [1..i -> Sides] /\ sides[i] = TrendBar(bars, cfg, sides[i - 1], i)

\* build_trend_signals leaves a side that is -1, 0 or 1.
LEMMA TrendSideType ==
  ASSUME NEW held \in Sides, NEW bars, NEW adx, NEW cfg
  PROVE  NextSide(held, TrendSide(bars, adx, cfg), adx, cfg) \in Sides
<1>1. TrendSide(bars, adx, cfg) \in Sides
  BY DEF TrendSide, Crossing, Sides
<1> QED
  BY <1>1 DEF NextSide, Sides

\* One bar more gives one signal more.
LEMMA TrendBarType ==
  ASSUME NEW bars, NEW cfg, NEW i \in Nat \ {0}, NEW before \in [1..(i - 1) -> Sides]
  PROVE  TrendBar(bars, cfg, before, i) \in [1..i -> Sides]
<1>1. CASE i < cfg["ma_long"] + WarmUp
  BY <1>1 DEF TrendBar, Sides
<1>2. CASE ~(i < cfg["ma_long"] + WarmUp)
  <2> DEFINE held == IF i = 1 THEN 0 ELSE Last(before)
             new == IF i = Len(bars) THEN 0
                    ELSE NextSide(held, TrendSide(SubSeq(bars, 1, i), Adx(bars)[i], cfg), Adx(bars)[i], cfg)
  <2>1. before \in Seq(Sides) /\ Len(before) = i - 1
    OBVIOUS
  <2>2. held \in Sides
    <3>1. i # 1 => i - 1 \in 1..(i - 1)
      OBVIOUS
    <3> QED
      BY <2>1, <3>1 DEF Last, Sides
  <2> HIDE DEF held
  <2>3. new \in Sides
    BY <2>2, TrendSideType DEF Sides
  <2>4. TrendBar(bars, cfg, before, i) = Append(before, new)
    BY <1>2 DEF TrendBar, held
  <2> HIDE DEF new
  <2>5. Append(before, new) \in Seq(Sides) /\ Len(Append(before, new)) = i
    BY <2>1, <2>3
  <2>6. Append(before, new) \in [1..i -> Sides]
    BY <2>5, LenProperties
  <2> QED
    BY <2>4, <2>6
<1> QED
  BY <1>1, <1>2

\* build_trend_signals has a value: the signals up to each bar exist.
LEMMA TrendHasBars ==
  ASSUME NEW S, NEW bars \in Seq(S), NEW cfg
  PROVE  \E sides : TrendBars(bars, cfg, sides) /\ TrendSignals(bars, cfg) = sides[Len(bars)]
<1> DEFINE n == Len(bars)
           C(g, i) == TrendBar(bars, cfg, g[i - 1], i)
           r == CHOOSE g : g = [i \in 0..n |-> C(g, i)]
           W == [i \in 0..n |-> [1..i -> Sides]]
           F == [i \in 1..n |-> [b \in W[i - 1] |-> TrendBar(bars, cfg, b, i)]]
           seed == [k \in 1..0 |-> 0]
<1>1. TrendSignals(bars, cfg) = r[n]
  BY DEF TrendSignals, TrendBar
<1>2. n \in Nat
  OBVIOUS
<1> HIDE DEF n
<1>3. Leads(F, W, n) /\ seed \in W[0]
  <2>1. ASSUME NEW i \in 1..n PROVE F[i] \in [W[i - 1] -> W[i]]
    <3>1. i \in Nat \ {0} /\ W[i - 1] = [1..(i - 1) -> Sides] /\ W[i] = [1..i -> Sides]
      BY <1>2
    <3> HIDE DEF W
    <3>2. \A b \in W[i - 1] : TrendBar(bars, cfg, b, i) \in W[i]
      BY <3>1, TrendBarType
    <3> QED
      BY <3>2
  <2>2. seed \in W[0]
    BY <1>2 DEF Sides
  <2> HIDE DEF F, W
  <2> QED
    BY <2>1, <2>2 DEF Leads
<1>4. PICK g : Steps(F, seed, g, n) /\ \A i \in 0..n : g[i] \in W[i]
  <2> HIDE DEF F, W, seed
  <2> QED
    BY <1>2, <1>3, StepsExist
<1>5. \A i \in 0..n : g[i] = C(g, i)
  <2> SUFFICES ASSUME NEW i \in 0..n PROVE g[i] = C(g, i)
    OBVIOUS
  <2>1. g[i] = IF i = 0 THEN seed ELSE F[i][g[i - 1]]
    <3> HIDE DEF F, seed
    <3> QED
      BY <1>4 DEF Steps
  <2>2. CASE i = 0
    BY <2>1, <2>2 DEF TrendBar
  <2>3. CASE i # 0
    <3>1. i \in 1..n /\ i - 1 \in 0..n
      BY <1>2, <2>3
    <3>2. g[i - 1] \in W[i - 1]
      <4> HIDE DEF W
      <4> QED
        BY <1>4, <3>1
    <3>3. F[i][g[i - 1]] = TrendBar(bars, cfg, g[i - 1], i)
      <4> HIDE DEF W
      <4> QED
        BY <3>1, <3>2
    <3> HIDE DEF F
    <3> QED
      BY <2>1, <2>3, <3>3
  <2> QED
    BY <2>2, <2>3
<1>6. g = [i \in 0..n |-> C(g, i)]
  <2>1. g = [i \in 0..n |-> g[i]]
    <3> HIDE DEF F, seed
    <3> QED
      BY <1>4 DEF Steps
  <2> HIDE DEF C
  <2> QED
    BY <1>5, <2>1
<1>7. r = [i \in 0..n |-> C(r, i)]
  <2> HIDE DEF C
  <2> QED
    BY <1>6
<1>8. \A i \in 0..n : r[i] = C(r, i)
  <2> HIDE DEF C, r
  <2> QED
    BY <1>7
<1> HIDE DEF r
<1> DEFINE T == {i \in 0..n : r[i] \in [1..i -> Sides]}
<1>9. 0 \in T
  <2>1. 0 \in 0..n /\ r[0] = TrendBar(bars, cfg, r[0 - 1], 0)
    BY <1>2, <1>8
  <2>2. TrendBar(bars, cfg, r[0 - 1], 0) = [k \in 1..0 |-> 0]
    BY DEF TrendBar
  <2>3. [k \in 1..0 |-> 0] \in [1..0 -> Sides]
    BY DEF Sides
  <2> QED
    BY <2>1, <2>2, <2>3
<1>10. ASSUME NEW i \in 1..n, i - 1 \in T PROVE i \in T
  <2>1. i \in Nat \ {0} /\ i \in 0..n /\ r[i - 1] \in [1..(i - 1) -> Sides]
    BY <1>2, <1>10
  <2>2. r[i] = TrendBar(bars, cfg, r[i - 1], i)
    BY <1>8, <2>1
  <2> QED
    BY <2>1, <2>2, TrendBarType
<1>11. \A i \in 0..n : i \in T
  <2> HIDE DEF T
  <2> QED
    BY <1>2, <1>9, <1>10, Upward
<1> QED
  BY <1>1, <1>8, <1>11 DEF TrendBars, n

\* The recursion of signals_to_positions: what has been held up to each bar.
HeldBar(signals, flat, before, i) ==
    IF i = 0 THEN <<0>>
    ELSE Append(before, IF flat \/ signals[i] # 0 THEN signals[i] ELSE Last(before))

HeldBars(signals, flat, held) ==
    \A i \in 0..Len(signals) : held[i] \in [1..(i + 1) -> Sides] /\ held[i] = HeldBar(signals, flat, held[i - 1], i)

\* One signal more gives one position more.
LEMMA HeldBarType ==
  ASSUME NEW signals \in Seq(Sides), NEW flat, NEW i \in 1..Len(signals), NEW before \in [1..i -> Sides]
  PROVE  HeldBar(signals, flat, before, i) \in [1..(i + 1) -> Sides]
<1> DEFINE new == IF flat \/ signals[i] # 0 THEN signals[i] ELSE Last(before)
<1>1. before \in Seq(Sides) /\ Len(before) = i /\ i \in 1..i /\ i \in Nat
  OBVIOUS
<1>2. new \in Sides
  BY <1>1 DEF Last
<1>3. HeldBar(signals, flat, before, i) = Append(before, new)
  BY <1>1 DEF HeldBar
<1> HIDE DEF new
<1>4. Append(before, new) \in Seq(Sides) /\ Len(Append(before, new)) = i + 1
  BY <1>1, <1>2
<1>5. Append(before, new) \in [1..(i + 1) -> Sides]
  BY <1>4, LenProperties
<1> QED
  BY <1>3, <1>5

\* The positions that run_backtest holds exist, bar by bar.
LEMMA HeldHasBars ==
  ASSUME NEW signals \in Seq(Sides), NEW flat
  PROVE  \E held : HeldBars(signals, flat, held) /\ HeldPositions(signals, flat) = held[Len(signals)]
<1> DEFINE n == Len(signals)
           C(g, i) == HeldBar(signals, flat, g[i - 1], i)
           r == CHOOSE g : g = [i \in 0..n |-> C(g, i)]
           W == [i \in 0..n |-> [1..(i + 1) -> Sides]]
           F == [i \in 1..n |-> [b \in W[i - 1] |-> HeldBar(signals, flat, b, i)]]
           seed == <<0>>
<1>1. HeldPositions(signals, flat) = r[n]
  BY DEF HeldPositions, HeldBar
<1>2. n \in Nat
  OBVIOUS
<1>3. \A i \in 1..n : \A b \in [1..i -> Sides] : HeldBar(signals, flat, b, i) \in [1..(i + 1) -> Sides]
  BY HeldBarType
<1>4. seed \in [1..1 -> Sides]
  BY DEF Sides
<1> HIDE DEF n
<1>5. Leads(F, W, n) /\ seed \in W[0]
  <2>1. ASSUME NEW i \in 1..n PROVE F[i] \in [W[i - 1] -> W[i]]
    <3>1. i \in Nat \ {0} /\ W[i - 1] = [1..i -> Sides] /\ W[i] = [1..(i + 1) -> Sides]
      BY <1>2
    <3> HIDE DEF W
    <3>2. \A b \in W[i - 1] : HeldBar(signals, flat, b, i) \in W[i]
      BY <1>3, <3>1
    <3> QED
      BY <3>2
  <2>2. seed \in W[0]
    <3>1. W[0] = [1..1 -> Sides]
      BY <1>2
    <3> QED
      BY <1>4, <3>1
  <2> HIDE DEF F, W, seed
  <2> QED
    BY <2>1, <2>2 DEF Leads
<1>6. PICK g : Steps(F, seed, g, n) /\ \A i \in 0..n : g[i] \in W[i]
  <2> HIDE DEF F, W, seed
  <2> QED
    BY <1>2, <1>5, StepsExist
<1>7. \A i \in 0..n : g[i] = C(g, i)
  <2> SUFFICES ASSUME NEW i \in 0..n PROVE g[i] = C(g, i)
    OBVIOUS
  <2>1. g[i] = IF i = 0 THEN seed ELSE F[i][g[i - 1]]
    <3> HIDE DEF F, seed
    <3> QED
      BY <1>6 DEF Steps
  <2>2. CASE i = 0
    BY <2>1, <2>2 DEF HeldBar
  <2>3. CASE i # 0
    <3>1. i \in 1..n /\ i - 1 \in 0..n
      BY <1>2, <2>3
    <3>2. g[i - 1] \in W[i - 1]
      <4> HIDE DEF W
      <4> QED
        BY <1>6, <3>1
    <3>3. F[i][g[i - 1]] = HeldBar(signals, flat, g[i - 1], i)
      <4> HIDE DEF W
      <4> QED
        BY <3>1, <3>2
    <3> HIDE DEF F
    <3> QED
      BY <2>1, <2>3, <3>3
  <2> QED
    BY <2>2, <2>3
<1>8. g = [i \in 0..n |-> C(g, i)]
  <2>1. g = [i \in 0..n |-> g[i]]
    <3> HIDE DEF F, seed
    <3> QED
      BY <1>6 DEF Steps
  <2> HIDE DEF C
  <2> QED
    BY <1>7, <2>1
<1>9. r = [i \in 0..n |-> C(r, i)]
  <2> HIDE DEF C
  <2> QED
    BY <1>8
<1>10. \A i \in 0..n : r[i] = C(r, i)
  <2> HIDE DEF C, r
  <2> QED
    BY <1>9
<1> HIDE DEF r
<1> DEFINE T == {i \in 0..n : r[i] \in [1..(i + 1) -> Sides]}
<1>11. 0 \in T
  <2>1. 0 \in 0..n /\ r[0] = HeldBar(signals, flat, r[0 - 1], 0)
    BY <1>2, <1>10
  <2>2. HeldBar(signals, flat, r[0 - 1], 0) = seed
    BY DEF HeldBar
  <2> HIDE DEF seed
  <2> QED
    BY <1>4, <2>1, <2>2
<1>12. ASSUME NEW i \in 1..n, i - 1 \in T PROVE i \in T
  <2>1. i \in Nat \ {0} /\ i \in 0..n /\ r[i - 1] \in [1..i -> Sides]
    <3>1. i \in Nat \ {0} /\ i \in 0..n /\ (i - 1) + 1 = i
      BY <1>2
    <3> QED
      BY <1>12, <3>1
  <2>2. r[i] = HeldBar(signals, flat, r[i - 1], i)
    BY <1>10, <2>1
  <2> QED
    BY <1>3, <2>1, <2>2
<1>13. \A i \in 0..n : i \in T
  <2> HIDE DEF T
  <2> QED
    BY <1>2, <1>11, <1>12, Upward
<1> QED
  BY <1>1, <1>10, <1>13 DEF HeldBars, n

\* A position for each bar there is a signal for, after the flat one.
LEMMA HeldType ==
  ASSUME NEW signals \in Seq(Sides), NEW flat
  PROVE  HeldPositions(signals, flat) \in [1..(Len(signals) + 1) -> Sides]
<1>1. PICK held : HeldBars(signals, flat, held) /\ HeldPositions(signals, flat) = held[Len(signals)]
  BY HeldHasBars
<1>2. Len(signals) \in 0..Len(signals)
  OBVIOUS
<1> QED
  BY <1>1, <1>2 DEF HeldBars

\* What a function makes of finitely many arguments is finite.
LEMMA ImageFinite ==
  ASSUME NEW S, IsFiniteSet(S), NEW f
  PROVE  IsFiniteSet({f[x] : x \in S})
<1> DEFINE T == {f[x] : x \in S}
           g == [x \in S |-> f[x]]
<1>1. g \in Surjection(S, T)
  BY DEF Surjection
<1> HIDE DEF g
<1> QED
  BY <1>1, FS_Surjection

\* The equity curve is in integers, and so is what it falls from a peak.
LEMMA DrawdownType == ASSUME NEW returns \in Seq(Int) PROVE MaxDrawdown(returns) \in Int
<1> DEFINE n == Len(returns)
           C(g, i) == IF i = 0 THEN 0 ELSE g[i - 1] + returns[i]
           r == CHOOSE g : g = [i \in 0..n |-> C(g, i)]
           W == [i \in 0..n |-> Int]
           F == [i \in 1..n |-> [b \in Int |-> b + returns[i]]]
           seed == 0
           Falls == {r[p[1]] - r[p[2]] : p \in {q \in (1..n) \X (1..n) : q[1] < q[2]}}
<1>1. MaxDrawdown(returns) = Max({0} \union Falls)
  BY DEF MaxDrawdown
<1>2. n \in Nat /\ \A i \in 1..n : returns[i] \in Int
  OBVIOUS
<1> HIDE DEF n
<1>3. Leads(F, W, n) /\ seed \in W[0]
  BY <1>2 DEF Leads
<1>4. PICK g : Steps(F, seed, g, n) /\ \A i \in 0..n : g[i] \in W[i]
  <2> HIDE DEF F, W, seed
  <2> QED
    BY <1>2, <1>3, StepsExist
<1>5. \A i \in 0..n : g[i] = C(g, i)
  <2> SUFFICES ASSUME NEW i \in 0..n PROVE g[i] = C(g, i)
    OBVIOUS
  <2>1. g[i] = IF i = 0 THEN seed ELSE F[i][g[i - 1]]
    <3> HIDE DEF F, seed
    <3> QED
      BY <1>4 DEF Steps
  <2>2. i # 0 => i \in 1..n /\ i - 1 \in 0..n
    BY <1>2
  <2>3. i # 0 => g[i - 1] \in Int
    <3>1. \A k \in 0..n : g[k] \in Int
      BY <1>4
    <3> QED
      BY <2>2, <3>1
  <2> QED
    BY <2>1, <2>2, <2>3
<1>6. g = [i \in 0..n |-> C(g, i)]
  <2>1. g = [i \in 0..n |-> g[i]]
    <3> HIDE DEF F, seed
    <3> QED
      BY <1>4 DEF Steps
  <2> HIDE DEF C
  <2> QED
    BY <1>5, <2>1
<1>7. r = [i \in 0..n |-> C(r, i)]
  <2> HIDE DEF C
  <2> QED
    BY <1>6
<1>8. \A i \in 0..n : r[i] = C(r, i)
  <2> HIDE DEF C, r
  <2> QED
    BY <1>7
<1> HIDE DEF r
<1> DEFINE T == {i \in 0..n : r[i] \in Int}
<1>9. 0 \in T
  BY <1>2, <1>8
<1>10. ASSUME NEW i \in 1..n, i - 1 \in T PROVE i \in T
  <2>1. i # 0 /\ i \in 0..n /\ r[i - 1] \in Int /\ returns[i] \in Int
    BY <1>2, <1>10
  <2>2. r[i] = r[i - 1] + returns[i]
    BY <1>8, <2>1
  <2> QED
    BY <2>1, <2>2
<1>11. \A i \in 0..n : i \in T
  <2> HIDE DEF T
  <2> QED
    BY <1>2, <1>9, <1>10, Upward
<1>12. \A i \in 1..n : r[i] \in Int
  BY <1>2, <1>11
<1> DEFINE D == {q \in (1..n) \X (1..n) : q[1] < q[2]}
<1>13. IsFiniteSet({0} \union Falls)
  <2>1. IsFiniteSet(1..n)
    BY <1>2, FS_Interval
  <2>2. IsFiniteSet((1..n) \X (1..n))
    BY <2>1, FS_Product
  <2>3. IsFiniteSet(D)
    BY <2>2, FS_Subset
  <2> DEFINE f == [p \in D |-> r[p[1]] - r[p[2]]]
  <2>4. Falls = {f[p] : p \in D}
    OBVIOUS
  <2> HIDE DEF D, Falls, f
  <2>5. IsFiniteSet(Falls)
    BY <2>3, <2>4, ImageFinite
  <2>6. {0} \union Falls = Falls \union {0}
    OBVIOUS
  <2> QED
    BY <2>5, <2>6, FS_AddElement
<1>14. {0} \union Falls \in SUBSET Int
  BY <1>2, <1>12
<1> HIDE DEF Falls
<1>15. Max({0} \union Falls) \in {0} \union Falls
  BY <1>13, <1>14, MaxIs
<1> QED
  BY <1>1, <1>14, <1>15

-----------------------------------------------------------------------------
(* Backtest: what a validation returns                                     *)

\* The Sharpe ratio is a number, whatever the returns are.
LEMMA SharpeType == ASSUME NEW returns \in Seq(Int) PROVE Sharpe(returns) \in Int
<1> DEFINE n == Len(returns)
           sum == Total(returns)
           spread == n * Squares(returns) - sum * sum
           S == {k \in 0..SharpeBound : k * k * n * spread <= 100 * sum * sum * (n - 1)}
<1>1. n \in Nat /\ sum \in Int /\ Squares(returns) \in Int
  BY TotalType, SquaresType
<1>2. n * Squares(returns) \in Int /\ sum * sum \in Int
  BY <1>1
<1>3. spread \in Int
  BY <1>2
<1>4. Sharpe(returns) = IF n < 2 \/ spread = 0 THEN 0 ELSE IF sum < 0 THEN -Max(S) ELSE Max(S)
  BY DEF Sharpe, SharpeOf
<1> HIDE DEF n, sum, spread
<1>5. CASE n < 2 \/ spread = 0
  BY <1>4, <1>5
<1>6. CASE ~(n < 2)
  <2>1. SharpeBound \in Nat
    BY BacktestAssumption
  <2>2. 0 <= 100 * sum * sum * (n - 1)
    <3>1. sum * sum \in Nat
      BY <1>1
    <3>2. n - 1 \in Nat /\ 100 * sum \in Int
      BY <1>1, <1>6
    <3>3. 100 * sum * sum = 100 * (sum * sum)
      BY <1>1
    <3> DEFINE a == sum * sum
    <3>4. 100 * a \in Nat
      <4> HIDE DEF a
      <4> QED
        BY <3>1 DEF a
    <3> DEFINE b == 100 * sum * sum
    <3>5. b \in Nat
      BY <3>3, <3>4
    <3> HIDE DEF b
    <3>6. b * (n - 1) \in Nat
      BY <3>2, <3>5
    <3> QED
      BY <3>6 DEF b
  <2>3. 0 * 0 * n * spread = 0
    BY <1>1, <1>3
  <2>4. 0 \in S
    BY <2>1, <2>2, <2>3
  <2>5. S \in SUBSET Int /\ S \in SUBSET (0..SharpeBound)
    BY <2>1
  <2>6. IsFiniteSet(S)
    <3>1. IsFiniteSet(0..SharpeBound)
      BY <2>1, FS_Interval
    <3> HIDE DEF S
    <3> QED
      BY <2>5, <3>1, FS_Subset
  <2> HIDE DEF S
  <2>7. Max(S) \in S
    BY <2>4, <2>5, <2>6, MaxIs
  <2>8. Max(S) \in Int
    BY <2>5, <2>7
  <2> QED
    BY <1>4, <2>8
<1> QED
  BY <1>5, <1>6

ThreeStrategies == {"trend_following", "mean_reversion", "feature_score"}

\* A signal for each bar
LEMMA SignalsType ==
  ASSUME NEW S, NEW bars \in Seq(S), NEW name \in ThreeStrategies, NEW cfg, NEW m
  PROVE  SignalsOf(bars, name, cfg, m) \in [1..Len(bars) -> Sides]
<1> DEFINE n == Len(bars)
<1>1. RawSignals(bars, name, cfg, m) \in [1..n -> Sides]
  <2>1. TrendSignals(bars, cfg) \in [1..n -> Sides]
    <3>1. PICK sides : TrendBars(bars, cfg, sides) /\ TrendSignals(bars, cfg) = sides[n]
      BY TrendHasBars
    <3>2. n \in 0..n
      OBVIOUS
    <3> QED
      BY <3>1, <3>2 DEF TrendBars
  <2>2. ReversionSignals(bars, cfg) \in [1..n -> Sides]
    BY DEF ReversionSignals, ReversionSide, Sides
  <2>3. ScoreSignals(bars, cfg, m) \in [1..n -> Sides]
    BY DEF ScoreSignals, Sides
  <2> QED
    BY <2>1, <2>2, <2>3 DEF RawSignals, ThreeStrategies
<1> DEFINE raws == RawSignals(bars, name, cfg, m)
<1> HIDE DEF raws
<1>2. \A labels, allowed : Masked(raws, labels, allowed) \in [1..n -> Sides]
  <2> SUFFICES ASSUME NEW labels, NEW allowed PROVE Masked(raws, labels, allowed) \in [1..n -> Sides]
    OBVIOUS
  <2>1. n \in Nat /\ raws \in [1..n -> Sides]
    BY <1>1 DEF raws
  <2> HIDE DEF n
  <2>2. Len(raws) = n
    BY <2>1
  <2> QED
    BY <2>1, <2>2 DEF Masked, Sides
<1> QED
  BY <1>1, <1>2 DEF SignalsOf, raws

\* The return of each bar but the first
LEMMA BacktestType ==
  ASSUME NEW bars \in Seq(Int), NEW signals \in Seq(Sides), NEW flat
  PROVE  RunBacktest(bars, signals, flat).returns \in Seq(Int)
<1>1. CASE Len(bars) < 2 \/ Len(signals) # Len(bars)
  <2>1. RunBacktest(bars, signals, flat) = Nothing
    BY <1>1 DEF RunBacktest
  <2> QED
    BY <2>1 DEF Nothing
<1>2. CASE ~(Len(bars) < 2 \/ Len(signals) # Len(bars))
  <2> DEFINE n == Len(bars)
             bar == Returns(bars)
             s == SubSeq(signals, 1, Len(signals) - 1)
             held == HeldPositions(s, flat)
  <2>1. n \in Nat /\ n >= 2 /\ Len(signals) = n
    BY <1>2
  <2>2. s \in Seq(Sides) /\ Len(s) = n - 1
    BY <2>1
  <2>3. held \in [1..n -> Sides]
    <3>1. n - 1 + 1 = n
      BY <2>1
    <3> HIDE DEF s
    <3> QED
      BY <2>2, <3>1, HeldType
  <2>4. bar \in [1..(n - 1) -> Int]
    <3>1. \A i \in 1..(n - 1) : bars[i] \in Int /\ bars[i + 1] \in Int
      OBVIOUS
    <3> QED
      BY <3>1 DEF Returns
  <2>5. RunBacktest(bars, signals, flat) = Earned(held, bar)
    BY <1>2 DEF RunBacktest
  <2> HIDE DEF n, s, held, bar
  <2>6. Len(bar) = n - 1
    BY <2>1, <2>4
  <2>7. \A i \in 1..(n - 1) : held[i + 1] \in Int /\ held[i] \in Int /\ bar[i] \in Int
    BY <2>1, <2>3, <2>4 DEF Sides
  <2> DEFINE e(i) == held[i + 1] * bar[i] - (IF held[i + 1] # held[i] THEN Cost ELSE 0)
  <2>8. ASSUME NEW i \in 1..(n - 1) PROVE e(i) \in Int
    <3>1. held[i + 1] * bar[i] \in Int /\ Cost \in Int
      BY <2>7, BacktestAssumption
    <3> QED
      BY <3>1
  <2>9. Earned(held, bar).returns = [i \in 1..(n - 1) |-> e(i)]
    BY <2>6 DEF Earned
  <2> HIDE DEF e
  <2>10. [i \in 1..(n - 1) |-> e(i)] \in Seq(Int)
    <3>1. n - 1 \in Nat
      BY <2>1
    <3> QED
      BY <2>8, <3>1, IsASeq
  <2> QED
    BY <2>5, <2>9, <2>10
<1> QED
  BY <1>1, <1>2

\* The less of two numbers.
LEMMA MinTwo == ASSUME NEW a \in Int, NEW b \in Int PROVE Min({a, b}) = IF a <= b THEN a ELSE b
<1> DEFINE m == IF a <= b THEN a ELSE b
<1>1. m \in {a, b} /\ \A y \in {a, b} : m <= y
  OBVIOUS
<1>2. \A x \in {a, b} : (\A y \in {a, b} : x <= y) => x = m
  OBVIOUS
<1> QED
  BY <1>1, <1>2, Zenon DEF Min

\* A slice of a series is one.
LEMMA SliceType ==
  ASSUME NEW S, NEW s \in Seq(S), NEW from \in Nat, NEW to \in Nat
  PROVE  Slice(s, from, to) \in Seq(S)
<1> DEFINE last0 == Min({to, Len(s)})
<1>1. Len(s) \in Nat
  OBVIOUS
<1>2. last0 \in Nat /\ last0 <= Len(s)
  BY <1>1, MinTwo
<1> HIDE DEF last0
<1>3. SubSeq(s, from + 1, last0) \in Seq(S)
  BY <1>1, <1>2
<1> QED
  BY <1>3 DEF Slice, last0

\* Each round has a test, and their mean Sharpe ratio is an integer.
LEMMA RoundsType ==
  ASSUME NEW bars \in Seq(Int), NEW signals \in Seq(Sides), NEW flat
  PROVE  Summary(WalkForward(bars, signals, flat)).sharpe \in Int
<1> DEFINE rounds == WalkForward(bars, signals, flat)
           D == Starts(Len(bars))
           n == Cardinality(D)
<1>1. DOMAIN rounds = D
  BY DEF WalkForward
<1>2. D \in SUBSET Nat /\ IsFiniteSet(D)
  <2> DEFINE J == {j \in 0..Len(bars) : j * Step + TrainWindow + TestWindow <= Len(bars)}
             f == [k \in J |-> k * Step]
  <2>1. D = {f[k] : k \in J}
    BY DEF Starts
  <2>2. J \in SUBSET (0..Len(bars)) /\ Len(bars) \in Nat
    OBVIOUS
  <2>3. IsFiniteSet(J)
    <3>1. IsFiniteSet(0..Len(bars))
      BY <2>2, FS_Interval
    <3> HIDE DEF J
    <3> QED
      BY <2>2, <3>1, FS_Subset
  <2>4. \A k \in J : f[k] \in Nat
    BY <2>2, BacktestAssumption
  <2> HIDE DEF J, f, D
  <2>5. IsFiniteSet(D)
    BY <2>1, <2>3, ImageFinite
  <2> QED
    BY <2>1, <2>4, <2>5
<1>3. \A k \in D : rounds[k] \in Seq(Int)
  <2> SUFFICES ASSUME NEW k \in D PROVE rounds[k] \in Seq(Int)
    OBVIOUS
  <2> DEFINE from == k + TrainWindow
             to == from + TestWindow
  <2>1. from \in Nat /\ to \in Nat /\ to + 1 \in Nat
    BY <1>2, BacktestAssumption
  <2> DEFINE a == Slice(bars, from, to + 1)
             b == Slice(signals, from, to)
  <2>2. rounds[k] = RunBacktest(a, b, flat).returns
    BY DEF WalkForward, TestOf
  <2> HIDE DEF from, to
  <2>3. a \in Seq(Int) /\ b \in Seq(Sides)
    BY <2>1, SliceType
  <2> HIDE DEF a, b, rounds, D
  <2> QED
    BY <2>2, <2>3, BacktestType
<1> DEFINE f == [k \in D |-> Sharpe(rounds[k])]
           H(h, T) == IF T = {} THEN 0 ELSE Sharpe(rounds[Pick(T)]) + h[T \ {Pick(T)}]
           i == CHOOSE h : h = [T \in SUBSET D |-> H(h, T)]
<1>4. Summary(rounds).sharpe = IF n = 0 THEN 0 ELSE i[D] \div n
  <2> HIDE DEF rounds, D
  <2> QED
    BY <1>1 DEF Summary, MapThenSumSet, MapThenFoldSet, Pick
<1> HIDE DEF rounds, D
<1>5. f \in [D -> Int] /\ \A k \in D : f[k] = Sharpe(rounds[k])
  BY <1>3, SharpeType
<1> HIDE DEF f
<1>6. \E h \in [SUBSET D -> Int] : Sums(f, h, D)
  BY <1>2, <1>5, SumsExist
<1>7. \A T \in SUBSET D : T # {} => Pick(T) \in D
  BY DEF Pick
<1>8. \E h : h = [T \in SUBSET D |-> H(h, T)]
  <2>1. PICK h \in [SUBSET D -> Int] : Sums(f, h, D)
    BY <1>6
  <2>2. \A T \in SUBSET D : h[T] = H(h, T)
    BY <1>5, <1>7, <2>1 DEF Sums
  <2> HIDE DEF H
  <2>3. h = [T \in SUBSET D |-> H(h, T)]
    BY <2>2
  <2> QED
    BY <2>3
<1>9. i = [T \in SUBSET D |-> H(i, T)]
  <2> HIDE DEF H
  <2> QED
    BY <1>8
<1>10. \A T \in SUBSET D : i[T] = H(i, T)
  <2> HIDE DEF H, i
  <2> QED
    BY <1>9
<1> HIDE DEF i
<1>11. Sums(f, i, D)
  BY <1>5, <1>7, <1>10 DEF Sums
<1>12. i[D] \in Int
  BY <1>2, <1>5, <1>11, SumsType
<1>13. n \in Nat
  BY <1>2, FS_CardinalityType
<1> HIDE DEF n
<1>14. n # 0 => i[D] \div n \in Int
  BY <1>12, <1>13
<1> QED
  BY <1>4, <1>14 DEF rounds

\* What a trial is judged by: the Sharpe ratio of the rounds and the greatest fall.
LEMMA ResultType ==
  ASSUME NEW bars \in Seq(Int), NEW name \in ThreeStrategies, NEW cfg, NEW m,
         NEW r \in Validations(bars, name, cfg, m)
  PROVE  r.wf \in Int /\ r.mdd \in Int
<1> DEFINE signals == SignalsOf(bars, name, cfg, m)
           flat == ZeroMeansFlat(name)
           bt == RunBacktest(bars, signals, flat)
           wf == Summary(WalkForward(bars, signals, flat))
           many == Len(bars)
           total == Total(bt.returns)
           seg == Segments(bt.returns, many)
<1>1. PICK stable, mc : r = ResultOf(bt, total, seg, wf, mc, stable, Gates(many, total, seg, wf, mc, stable))
  BY DEF Validations, Validated, Measured, Judged
<1>2. signals \in Seq(Sides)
  <2>1. signals \in [1..Len(bars) -> Sides] /\ Len(bars) \in Nat
    BY SignalsType
  <2> HIDE DEF signals
  <2> QED
    BY <2>1
<1> HIDE DEF signals, flat, total, seg, many
<1>3. bt.returns \in Seq(Int)
  BY <1>2, BacktestType
<1>4. wf.sharpe \in Int
  BY <1>2, RoundsType
<1> HIDE DEF bt, wf
<1>5. Performance(bt).mdd \in Int
  BY <1>3, DrawdownType DEF Performance
<1>6. r.wf = wf.sharpe /\ r.mdd = Performance(bt).mdd
  BY <1>1 DEF ResultOf
<1> QED
  BY <1>4, <1>5, <1>6

-----------------------------------------------------------------------------
(* Overrides on overrides                                                  *)

\* The configurations that the overrides of s give, for each subset of its positions
Layers(s, h) == \A T \in SUBSET (DOMAIN s) :
    h[T] = IF T = {} THEN BaseConfig ELSE Override(h[T \ {Max(T)}], s[Max(T)])

\* Taking the last index of each set of indices is a pick.
LEMMA MaxPicks ==
  ASSUME NEW n \in Nat
  PROVE  IsFiniteSet(1..n) /\ Picks([T \in SUBSET (1..n) |-> Max(T)], 1..n)
<1>1. 1 \in Int /\ n \in Int
  OBVIOUS
<1>2. IsFiniteSet(1..n)
  BY <1>1, FS_Interval
<1>3. ASSUME NEW T \in SUBSET (1..n), T # {} PROVE Max(T) \in T
  <2> DEFINE D == 1..n
  <2>0. D \subseteq Int /\ T \in SUBSET D /\ IsFiniteSet(D)
    BY <1>2
  <2> HIDE DEF D
  <2>1. T \in SUBSET Int /\ IsFiniteSet(T)
    BY <2>0, FS_Subset
  <2> QED
    BY <1>3, <2>1, MaxIs
<1> QED
  BY <1>2, <1>3 DEF Picks

\* Layering the moves over the base configuration has a value, move by move.
LEMMA LayersExist ==
  ASSUME NEW S, NEW s \in Seq(S)
  PROVE  \E h : Layers(s, h) /\ FoldLeft(Override, BaseConfig, s) = h[DOMAIN s]
<1> DEFINE D == DOMAIN s
           H(h, T) == IF T = {} THEN BaseConfig ELSE Override(h[T \ {Max(T)}], s[Max(T)])
           i == CHOOSE h : h = [T \in SUBSET D |-> H(h, T)]
           pick == [T \in SUBSET D |-> Max(T)]
           P == DOMAIN BaseConfig
           X == {BaseConfig[p] : p \in P} \union UNION {{s[k][p] : p \in DOMAIN s[k]} : k \in D}
           V == {BaseConfig} \union [P -> X]
           F == [k \in D |-> [c \in V |-> Override(c, s[k])]]
<1>1. FoldLeft(Override, BaseConfig, s) = i[D]
  BY DEF FoldLeft, MapThenFoldSet
<1>2. IsFiniteSet(D) /\ Picks(pick, D)
  <2>1. D = 1..Len(s) /\ Len(s) \in Nat
    OBVIOUS
  <2> HIDE DEF D
  <2> QED
    BY <2>1, MaxPicks
<1>3. ASSUME NEW k \in D, NEW c \in V PROVE Override(c, s[k]) \in V
  <2>1. DOMAIN c = P /\ \A p \in P : c[p] \in X
    OBVIOUS
  <2>2. \A p \in P : p \in DOMAIN s[k] => s[k][p] \in X
    OBVIOUS
  <2> HIDE DEF P, X
  <2>3. [p \in P |-> IF p \in DOMAIN s[k] THEN s[k][p] ELSE c[p]] \in [P -> X]
    BY <2>1, <2>2
  <2> QED
    BY <2>1, <2>3 DEF Override
<1>4. Keeps(F, D, V)
  <2> HIDE DEF V, D
  <2> QED
    BY <1>3 DEF Keeps
<1>5. BaseConfig \in V
  OBVIOUS
<1>6. PICK h : Folds(F, BaseConfig, pick, h, D) /\ \A T \in SUBSET D : h[T] \in V
  <2> HIDE DEF V, F, D, pick
  <2> QED
    BY <1>2, <1>4, <1>5, FoldsExist
<1> HIDE DEF V
<1>7. \A T \in SUBSET D : h[T] = H(h, T)
  <2> SUFFICES ASSUME NEW T \in SUBSET D PROVE h[T] = H(h, T)
    OBVIOUS
  <2>1. h[T] = IF T = {} THEN BaseConfig ELSE F[pick[T]][h[T \ {pick[T]}]]
    BY <1>6, Zenon DEF Folds
  <2>2. T # {} => Max(T) \in D /\ pick[T] = Max(T)
    BY <1>2 DEF Picks
  <2>3. h[T \ {Max(T)}] \in V
    BY <1>6
  <2> HIDE DEF D, pick
  <2> QED
    BY <2>1, <2>2, <2>3
<1>8. h = [T \in SUBSET D |-> H(h, T)]
  <2>1. h = [T \in SUBSET D |-> h[T]]
    BY <1>6, Zenon DEF Folds
  <2> HIDE DEF H, D
  <2> QED
    BY <1>7, <2>1
<1>9. i = [T \in SUBSET D |-> H(i, T)]
  <2> HIDE DEF H, D
  <2> QED
    BY <1>8
<1>10. \A T \in SUBSET D : i[T] = H(i, T)
  <2> HIDE DEF H, D, i
  <2> QED
    BY <1>9
<1> HIDE DEF i
<1> QED
  BY <1>1, <1>10 DEF Layers

\* _adopt: one more override on all before it.
LEMMA OneMoreLayer ==
  ASSUME NEW S, NEW s \in Seq(S), NEW v
  PROVE  /\ FoldLeft(Override, BaseConfig, << >>) = BaseConfig
         /\ FoldLeft(Override, BaseConfig, Append(s, v)) = Override(FoldLeft(Override, BaseConfig, s), v)
<1> DEFINE more == Append(s, v)
           n == Len(s)
           pick == [T \in SUBSET (1..n) |-> Max(T)]
<1>1. /\ n \in Nat /\ DOMAIN s = 1..n /\ DOMAIN more = 1..(n + 1) /\ more[n + 1] = v
      /\ \A k \in 1..n : more[k] = s[k]
      /\ more \in Seq(S \union {v})
  OBVIOUS
<1> HIDE DEF more, n
<1>2. PICK h : Layers(s, h) /\ FoldLeft(Override, BaseConfig, s) = h[1..n]
  BY <1>1, LayersExist
<1>3. PICK g : Layers(more, g) /\ FoldLeft(Override, BaseConfig, more) = g[1..(n + 1)]
  BY <1>1, LayersExist
<1>4. FoldLeft(Override, BaseConfig, << >>) = BaseConfig
  <2>1. PICK e : Layers(<< >>, e) /\ FoldLeft(Override, BaseConfig, << >>) = e[DOMAIN << >>]
    <3> DEFINE t == << >>
    <3>1. t \in Seq(S)
      OBVIOUS
    <3> HIDE DEF t
    <3>2. \E e : Layers(t, e) /\ FoldLeft(Override, BaseConfig, t) = e[DOMAIN t]
      BY <3>1, LayersExist
    <3> QED
      BY <3>2 DEF t
  <2>2. DOMAIN << >> = {}
    OBVIOUS
  <2> QED
    BY <2>1, <2>2 DEF Layers
<1>5. \A T \in SUBSET (1..n) : h[T] = g[T]
  <2> DEFINE good == {T \in SUBSET (1..n) : h[T] = g[T]}
  <2>1. IsFiniteSet(1..n) /\ Picks(pick, 1..n)
    BY <1>1, MaxPicks
  <2>2. \A T \in SUBSET (1..n) : /\ h[T] = IF T = {} THEN BaseConfig ELSE Override(h[T \ {Max(T)}], s[Max(T)])
                                 /\ g[T] = IF T = {} THEN BaseConfig ELSE Override(g[T \ {Max(T)}], more[Max(T)])
    <3>1. \A T \in SUBSET (1..n) : T \in SUBSET (1..(n + 1))
      BY <1>1
    <3> QED
      BY <1>1, <1>2, <1>3, <3>1 DEF Layers
  <2>3. {} \in good
    BY <2>2
  <2>4. ASSUME NEW T \in SUBSET (1..n), T # {}, T \ {pick[T]} \in good PROVE T \in good
    <3>1. Max(T) \in 1..n /\ pick[T] = Max(T)
      BY <2>1, <2>4 DEF Picks
    <3>2. more[Max(T)] = s[Max(T)] /\ h[T \ {Max(T)}] = g[T \ {Max(T)}]
      BY <1>1, <2>4, <3>1
    <3>3. h[T] = g[T]
      BY <2>2, <2>4, <3>2
    <3> QED
      BY <3>3
  <2>5. \A T \in SUBSET (1..n) : T \in good
    <3> DEFINE D == 1..n
    <3>1. IsFiniteSet(D) /\ Picks(pick, D)
      BY <2>1
    <3>2. \A T \in SUBSET D : T # {} /\ T \ {pick[T]} \in good => T \in good
      BY <2>4
    <3> HIDE DEF good, pick, D
    <3>3. \A T \in SUBSET D : T \in good
      BY <2>3, <3>1, <3>2, Outward
    <3> QED
      BY <3>3 DEF D
  <2> QED
    BY <2>5 DEF good
<1>6. Max(1..(n + 1)) = n + 1
  <2>0. n + 1 \in Nat /\ 1..(n + 1) \in SUBSET Int /\ n + 1 \in 1..(n + 1)
    BY <1>1
  <2>1. IsFiniteSet(1..(n + 1)) /\ 1..(n + 1) \in SUBSET Int /\ 1..(n + 1) # {} /\ n + 1 \in 1..(n + 1)
    BY <2>0, MaxPicks
  <2>2. Max(1..(n + 1)) \in 1..(n + 1) /\ Max(1..(n + 1)) >= n + 1
    BY <2>1, MaxIs
  <2> QED
    BY <1>1, <2>2
<1>7. g[1..(n + 1)] = Override(g[1..n], v)
  <2>1. (1..(n + 1)) \ {n + 1} = 1..n /\ 1..(n + 1) # {}
    BY <1>1
  <2> QED
    BY <1>1, <1>3, <1>6, <2>1 DEF Layers
<1>8. h[1..n] = g[1..n]
  BY <1>5
<1> QED
  BY <1>2, <1>3, <1>4, <1>7, <1>8 DEF more

-----------------------------------------------------------------------------
(* What has been adopted                                                   *)

\* The trials adopted are that many improvements ahead of the baseline.
Ahead(n, of, than) ==
    /\ of.wf \in Int /\ of.mdd \in Int /\ than.wf \in Int /\ than.mdd \in Int
    /\ of.wf >= than.wf + n * Improvement
    /\ of.mdd <= than.mdd + n * Tolerance

\* The bars are numbers and some, the strategy is one of the matrix, the parameters
\* are what the report says was adopted, nothing between two searches.
Searched ==
    /\ closes \in Seq(Int) /\ closes # << >>
    /\ strategy \in 1..Len(Strategies)
    /\ \E S : adopted \in Seq(S)
    /\ working = FoldLeft(Override, BaseConfig, adopted)
    /\ ~InSearch => adopted = << >>
    /\ InSearch => Ahead(Len(adopted), best, first)

\* No move leaves the base configuration.
LEMMA EmptyLayers == FoldLeft(Override, BaseConfig, << >>) = BaseConfig
<1>1. << >> \in Seq({})
  OBVIOUS
<1> QED
  BY <1>1, OneMoreLayer

\* Before its first trial a search has adopted nothing.
LEMMA SearchedInit == ASSUME MatrixInit PROVE Searched
<1>1. << >> \in Seq({}) /\ 1 \in 1..Len(Strategies)
  BY MatrixAssumption
<1>2. ~InSearch
  BY DEF MatrixInit, InSearch
<1> QED
  BY <1>1, <1>2, EmptyLayers, MatrixAssumption DEF MatrixInit, Searched

\* A search is of one of the three strategies.
LEMMA NameType == ASSUME strategy \in 1..Len(Strategies) PROVE Name \in ThreeStrategies
BY MatrixAssumption DEF Name, ThreeStrategies

\* What is left alone is still so.
LEMMA SearchedKept ==
  ASSUME Searched, UNCHANGED <<closes, strategy, adopted, working, best, first>>, InSearch' = InSearch
  PROVE  Searched'
BY DEF Searched

\* A strategy is left with nothing adopted.
LEMMA SearchedReset ==
  ASSUME Searched, NextStrategy, UNCHANGED data
  PROVE  Searched' /\ ~InSearch'
<1>1. ~InSearch'
  BY DEF NextStrategy, InSearch
<1>2. strategy' \in 1..Len(Strategies)
  <2>1. Len(Strategies) \in Nat
    BY MatrixAssumption
  <2> QED
    BY <2>1 DEF NextStrategy, Searched
<1>3. adopted' = << >> /\ working' = BaseConfig
  BY DEF NextStrategy, Reset
<1>4. << >> \in Seq({})
  OBVIOUS
<1>5. working' = FoldLeft(Override, BaseConfig, adopted')
  BY <1>3, EmptyLayers
<1>6. \E S : adopted' \in Seq(S)
  BY <1>3, <1>4
<1> QED
  BY <1>1, <1>2, <1>3, <1>5, <1>6 DEF Searched, data

\* What the property says of a step
AdoptedWell ==
    InSearch' /\ <<best, working>> # <<best, working>>' =>
        /\ working' = FoldLeft(Override, BaseConfig, adopted')
        /\ best' \in Validations(measured', Name, working', mode)
        /\ best'.wf >= first'.wf + Len(adopted') * Improvement
        /\ best'.mdd <= first'.mdd + Len(adopted') * Tolerance

\* The first trial runs the configuration the search begins with.
LEMMA SearchedBaseline ==
  ASSUME Searched, Baseline
  PROVE  Searched' /\ AdoptedWell
<1>1. PICK r \in Validations(closes, Name, BaseConfig, mode) : best' = r /\ first' = r
  BY DEF Baseline
<1>2. r.wf \in Int /\ r.mdd \in Int
  BY <1>1, NameType, ResultType DEF Searched
<1>3. adopted' = << >> /\ working' = BaseConfig /\ working' = FoldLeft(Override, BaseConfig, adopted')
  <2>1. adopted = << >> /\ adopted' = adopted /\ working' = working
    BY DEF Baseline, Searched, InSearch
  <2> QED
    BY <2>1, EmptyLayers DEF Searched
<1>4. Ahead(Len(adopted'), best', first')
  <2>1. Len(adopted') = 0
    BY <1>3
  <2>2. 0 * Improvement = 0 /\ 0 * Tolerance = 0
    BY MatrixAssumption
  <2> QED
    BY <1>1, <1>2, <2>1, <2>2 DEF Ahead
<1>5. InSearch' /\ UNCHANGED <<closes, strategy, mode, adopted>> /\ measured' = closes
  BY DEF Baseline, InSearch, data
<1>6. Searched'
  BY <1>3, <1>4, <1>5 DEF Searched
<1> QED
  BY <1>1, <1>3, <1>4, <1>5, <1>6 DEF AdoptedWell, Ahead

\* A later trial adopts only an improvement of its own strategy.
LEMMA SearchedTrial ==
  ASSUME Searched, Trial
  PROVE  Searched' /\ AdoptedWell
<1> DEFINE cfg == Override(working, Value)
<1>0. InSearch /\ InSearch' /\ UNCHANGED <<closes, strategy, mode, first>>
  BY DEF Trial, InSearch, Onward, data
<1>1. PICK r \in Validations(closes, Name, cfg, mode) :
         IF Adopts(Verdict(r, best)) THEN Adopt(r) ELSE Unadopted
  BY DEF Trial
<1>2. CASE ~Adopts(Verdict(r, best))
  <2>1. UNCHANGED <<best, working, adopted>>
    BY <1>1, <1>2 DEF Unadopted
  <2> QED
    BY <1>0, <2>1, SearchedKept DEF AdoptedWell
<1>3. CASE Adopts(Verdict(r, best))
  <2>1. best' = r /\ measured' = closes /\ working' = cfg /\ adopted' = Append(adopted, Value)
    BY <1>1, <1>3 DEF Adopt
  <2>2. r.wf \in Int /\ r.mdd \in Int
    BY <1>1, NameType, ResultType DEF Searched
  <2>3. TierA(r, best)
    BY <1>3 DEF Adopts, Verdict
  <2> DEFINE v == Value
  <2>4. PICK S : adopted \in Seq(S)
    BY DEF Searched
  <2>5. working' = FoldLeft(Override, BaseConfig, adopted')
    <3> HIDE DEF v
    <3>1. FoldLeft(Override, BaseConfig, Append(adopted, v)) = Override(FoldLeft(Override, BaseConfig, adopted), v)
      BY <2>4, OneMoreLayer
    <3> QED
      BY <2>1, <3>1 DEF Searched, v
  <2>6. adopted' \in Seq(S \union {v}) /\ Len(adopted') = Len(adopted) + 1 /\ Len(adopted) \in Nat
    <3> HIDE DEF v
    <3>1. adopted' = Append(adopted, v)
      BY <2>1 DEF v
    <3> QED
      BY <2>4, <3>1
  <2>7. Ahead(Len(adopted'), best', first')
    <3> DEFINE n == Len(adopted)
               a == n * Improvement
               b == n * Tolerance
    <3>1. n \in Nat /\ Improvement \in Int /\ Tolerance \in Int
      BY <2>6, MatrixAssumption
    <3>2. (n + 1) * Improvement = a + Improvement /\ (n + 1) * Tolerance = b + Tolerance /\ a \in Int /\ b \in Int
      BY <3>1
    <3>3. Ahead(n, best, first)
      BY <1>0 DEF Searched
    <3> HIDE DEF n
    <3>4. best.wf >= first.wf + a /\ best.mdd <= first.mdd + b
      BY <3>3 DEF Ahead
    <3>5. r.wf >= best.wf + Improvement /\ r.mdd <= best.mdd + Tolerance
      BY <2>3 DEF TierA
    <3>6. best.wf \in Int /\ best.mdd \in Int /\ first.wf \in Int /\ first.mdd \in Int
      BY <3>3 DEF Ahead
    <3> HIDE DEF a, b
    <3>7. r.wf >= first.wf + (a + Improvement) /\ r.mdd <= first.mdd + (b + Tolerance)
      BY <2>2, <3>1, <3>2, <3>4, <3>5, <3>6
    <3>8. Len(adopted') = n + 1 /\ first' = first
      BY <1>0, <2>6 DEF n
    <3> QED
      BY <2>1, <2>2, <3>2, <3>6, <3>7, <3>8 DEF Ahead
  <2>8. best' \in Validations(measured', Name, working', mode)
    BY <1>1, <2>1
  <2>9. \E T : adopted' \in Seq(T)
    BY <2>6
  <2>10. Searched'
    BY <1>0, <2>5, <2>7, <2>9 DEF Searched
  <2> QED
    BY <2>5, <2>7, <2>8, <2>10 DEF AdoptedWell, Ahead
<1> QED
  BY <1>2, <1>3

\* A new bar begins no trial.
LEMMA SearchedNewBar ==
  ASSUME Searched, NewBar
  PROVE  Searched'
<1>1. PICK move \in Moves : closes' = LET more == Append(closes, Last(closes) + move)
                                      IN  IF Len(more) > HistoryBars THEN Tail(more) ELSE more
  BY DEF NewBar
<1>2. Last(closes) \in Int /\ move \in Int /\ closes \in Seq(Int) /\ closes # << >>
  <2>1. closes \in Seq(Int) /\ Len(closes) \in 1..Len(closes)
    BY DEF Searched
  <2> QED
    BY <2>1, MatrixAssumption DEF Searched, Last
<1>3. closes' \in Seq(Int) /\ closes' # << >>
  <2> DEFINE more == Append(closes, Last(closes) + move)
  <2>1. more \in Seq(Int) /\ Len(more) = Len(closes) + 1 /\ Len(closes) \in Nat \ {0}
    BY <1>2
  <2>2. closes' = more \/ closes' = Tail(more)
    BY <1>1
  <2> HIDE DEF more
  <2>3. Tail(more) \in Seq(Int) /\ Len(Tail(more)) = Len(closes) /\ more # << >>
    BY <2>1
  <2> QED
    BY <2>1, <2>2, <2>3, SMTT(60)
<1>4. UNCHANGED <<phase, strategy, adopted, working, best, first>>
  BY DEF NewBar, search, report
<1> QED
  BY <1>3, <1>4 DEF Searched, InSearch

\* Every step of the matrix keeps it, and adopts well.
LEMMA SearchedStep == Searched /\ [MatrixNext]_matrixVars => Searched' /\ [AdoptedWell]_matrixVars
<1> SUFFICES ASSUME Searched, [MatrixNext]_matrixVars PROVE Searched' /\ [AdoptedWell]_matrixVars
  OBVIOUS
<1>1. CASE Matrix
  <2>1. UNCHANGED <<closes, strategy, adopted, working, best, first>> /\ ~InSearch' /\ InSearch' = InSearch
    BY <1>1 DEF Matrix, data, search, report, InSearch
  <2> QED
    BY <2>1, SearchedKept DEF AdoptedWell
<1>2. CASE BaselineRaises
  BY <1>2, SearchedReset DEF BaselineRaises, AdoptedWell
<1>3. CASE Baseline
  BY <1>3, SearchedBaseline
<1>4. CASE SkipCurrent
  <2>1. UNCHANGED <<closes, strategy, adopted, working, best, first>> /\ InSearch /\ InSearch'
    BY <1>4 DEF SkipCurrent, data, search, report, InSearch
  <2> QED
    BY <2>1, SearchedKept DEF AdoptedWell
<1>5. CASE Trial
  BY <1>5, SearchedTrial
<1>6. CASE TrialRaises
  <2>1. UNCHANGED <<closes, strategy, adopted, working, best, first>> /\ InSearch /\ InSearch'
    BY <1>6 DEF TrialRaises, data, Unadopted, Onward, InSearch
  <2> QED
    BY <2>1, SearchedKept DEF AdoptedWell
<1>7. CASE NextSpec
  <2>1. UNCHANGED <<closes, strategy, adopted, working, best, first>> /\ InSearch /\ InSearch'
    BY <1>7 DEF NextSpec, data, search, report, InSearch
  <2> QED
    BY <2>1, SearchedKept DEF AdoptedWell
<1>8. CASE Complete
  <2>1. UNCHANGED <<closes, strategy, adopted, working, best, first>> /\ InSearch /\ InSearch'
    BY <1>8 DEF Complete, data, InSearch
  <2> QED
    BY <2>1, SearchedKept DEF AdoptedWell
<1>9. CASE EndStrategy
  BY <1>9, SearchedReset DEF EndStrategy, AdoptedWell
<1>10. CASE NewBar
  <2>1. UNCHANGED <<best, working>>
    BY <1>10 DEF NewBar, search
  <2> QED
    BY <1>10, <2>1, SearchedNewBar DEF AdoptedWell
<1>11. CASE UNCHANGED matrixVars
  <2>1. UNCHANGED <<closes, strategy, adopted, working, best, first, phase>>
    BY <1>11 DEF matrixVars, data, search, report
  <2> QED
    BY <1>11, <2>1, SearchedKept DEF InSearch
<1> QED
  BY <1>1, <1>2, <1>3, <1>4, <1>5, <1>6, <1>7, <1>8, <1>9, <1>10, <1>11 DEF MatrixNext

\* It holds for good.
LEMMA AlwaysSearched == MatrixSpec => []Searched
<1>1. MatrixInit => Searched
  BY SearchedInit
<1> QED
  BY <1>1, SearchedStep, PTL DEF MatrixSpec

\* strategies/validation_loop.py: the result to beat is a result of the parameters the
\* next trial starts from, and each adoption is an improvement.
THEOREM MatrixBestIsOfWorking == MatrixSpec => BestIsOfWorking
<1>1. Searched /\ [MatrixNext]_matrixVars => [AdoptedWell]_matrixVars
  BY SearchedStep
<1>2. MatrixSpec => [][AdoptedWell]_matrixVars
  BY <1>1, AlwaysSearched, PTL DEF MatrixSpec
<1> QED
  BY <1>2 DEF BestIsOfWorking, AdoptedWell

-----------------------------------------------------------------------------
(* Recursions that append: what they have at a bar is the beginning of     *)
(* what they have at a later one.                                          *)

Growing(g, V, c, n) ==
    /\ \A i \in 0..n : g[i] \in [1..(i + c) -> V]
    /\ \A i \in 1..n : \A j \in 1..(i + c - 1) : g[i][j] = g[i - 1][j]

\* A series that grows bar by bar keeps what it held at an earlier bar.
LEMMA PrefixKept ==
  ASSUME NEW n \in Nat, NEW c \in Nat, NEW V, NEW g, Growing(g, V, c, n), NEW m \in 0..n
  PROVE  \A j \in 1..(m + c) : g[n][j] = g[m][j]
<1> DEFINE S == {d \in 0..(n - m) : \A j \in 1..(m + c) : g[m + d][j] = g[m][j]}
<1>1. 0 \in S
  <2>1. 0 \in 0..(n - m) /\ m + 0 = m
    OBVIOUS
  <2> QED
    BY <2>1
<1>2. ASSUME NEW d \in 1..(n - m), d - 1 \in S PROVE d \in S
  <2>1. m + d \in 1..n /\ (m + d) - 1 = m + (d - 1)
    OBVIOUS
  <2>2. \A j \in 1..(m + c) : j \in 1..((m + d) + c - 1)
    OBVIOUS
  <2>3. \A j \in 1..(m + c) : g[m + d][j] = g[m + (d - 1)][j]
    BY <2>1, <2>2 DEF Growing
  <2>4. \A j \in 1..(m + c) : g[m + (d - 1)][j] = g[m][j]
    BY <1>2
  <2> QED
    BY <2>3, <2>4
<1>3. \A d \in 0..(n - m) : d \in S
  <2>1. n - m \in Nat
    OBVIOUS
  <2> HIDE DEF S
  <2> QED
    BY <1>1, <1>2, <2>1, Upward
<1>4. n - m \in S /\ m + (n - m) = n
  <2>1. n - m \in 0..(n - m) /\ m + (n - m) = n
    OBVIOUS
  <2> HIDE DEF S
  <2> QED
    BY <1>3, <2>1
<1> QED
  BY <1>4

\* Two series are the same up to a bar.
Agrees(s, t, k) == k <= Len(s) /\ k <= Len(t) /\ \A i \in 1..k : s[i] = t[i]

\* Two sequences that agree up to k have the same beginnings up to k.
LEMMA SameBeginning ==
  ASSUME NEW V, NEW s \in Seq(V), NEW t \in Seq(V), NEW k \in Nat, Agrees(s, t, k), NEW i \in 0..k
  PROVE  SubSeq(s, 1, i) = SubSeq(t, 1, i)
<1>1. SubSeq(s, 1, i) = [j \in 1..i |-> s[j]] /\ SubSeq(t, 1, i) = [j \in 1..i |-> t[j]]
  BY DEF Agrees
<1>2. \A j \in 1..i : s[j] = t[j]
  BY DEF Agrees
<1> QED
  BY <1>1, <1>2

\* The greater of two numbers.
LEMMA MaxTwo == ASSUME NEW a \in Int, NEW b \in Int PROVE Max({a, b}) = IF a >= b THEN a ELSE b
<1> DEFINE m == IF a >= b THEN a ELSE b
<1>1. m \in {a, b} /\ \A y \in {a, b} : m >= y
  OBVIOUS
<1>2. \A x \in {a, b} : (\A y \in {a, b} : x >= y) => x = m
  OBVIOUS
<1> QED
  BY <1>1, <1>2, Zenon DEF Max

-----------------------------------------------------------------------------
(* Indicators: the averages of Wilder                                      *)

WilderBar(s, begin, n, before, i) ==
    IF i = 0 THEN <<MeanOf(SubSeq(s, 1, begin))>>
    ELSE Append(before, (Last(before) * (n - 1) + s[begin + i]) \div n)

WilderBars(s, begin, n, avg) ==
    \A i \in 0..(Len(s) - begin) :
        avg[i] \in [1..(i + 1) -> Int] /\ avg[i] = WilderBar(s, begin, n, avg[i - 1], i)

\* One value more gives one average more.
LEMMA WilderBarType ==
  ASSUME NEW s \in Seq(Int), NEW begin \in Nat \ {0}, NEW n \in Nat \ {0}, NEW i \in 1..(Len(s) - begin),
         NEW before \in [1..i -> Int]
  PROVE  WilderBar(s, begin, n, before, i) \in [1..(i + 1) -> Int]
<1> DEFINE new == (Last(before) * (n - 1) + s[begin + i]) \div n
<1>1. before \in Seq(Int) /\ Len(before) = i /\ i \in 1..i /\ i \in Nat
  OBVIOUS
<1>2. Last(before) \in Int /\ s[begin + i] \in Int
  <2>1. begin + i \in 1..Len(s)
    OBVIOUS
  <2> QED
    BY <1>1, <2>1 DEF Last
<1>3. new \in Int
  <2>1. Last(before) * (n - 1) \in Int
    BY <1>2
  <2> QED
    <3> DEFINE x == Last(before) * (n - 1) + s[begin + i]
    <3>1. x \in Int
      BY <1>2, <2>1
    <3> HIDE DEF x
    <3>2. x \div n \in Int
      BY <3>1
    <3> QED
      BY <3>2 DEF x
<1>4. WilderBar(s, begin, n, before, i) = Append(before, new)
  BY <1>1 DEF WilderBar
<1> HIDE DEF new
<1>5. Append(before, new) \in Seq(Int) /\ Len(Append(before, new)) = i + 1
  BY <1>1, <1>3
<1>6. Append(before, new) \in [1..(i + 1) -> Int]
  BY <1>5, LenProperties
<1> QED
  BY <1>4, <1>6

\* Wilder's smoothing has a value, average by average.
LEMMA WilderHasBars ==
  ASSUME NEW s \in Seq(Int), NEW begin \in Nat \ {0}, NEW n \in Nat \ {0}, Len(s) >= begin
  PROVE  \E avg : WilderBars(s, begin, n, avg) /\ Wilder(s, begin, n) = avg[Len(s) - begin]
<1> DEFINE e == Len(s) - begin
           C(g, i) == WilderBar(s, begin, n, g[i - 1], i)
           r == CHOOSE g : g = [i \in 0..e |-> C(g, i)]
           W == [i \in 0..e |-> [1..(i + 1) -> Int]]
           F == [i \in 1..e |-> [b \in W[i - 1] |-> WilderBar(s, begin, n, b, i)]]
           seed == <<MeanOf(SubSeq(s, 1, begin))>>
<1>1. Wilder(s, begin, n) = r[e]
  <2>1. ~(Len(s) < begin)
    OBVIOUS
  <2> QED
    BY <2>1 DEF Wilder, WilderBar
<1>2. e \in Nat
  OBVIOUS
<1>3. \A i \in 1..e : \A b \in [1..i -> Int] : WilderBar(s, begin, n, b, i) \in [1..(i + 1) -> Int]
  BY WilderBarType
<1>4. seed \in [1..1 -> Int]
  <2>1. SubSeq(s, 1, begin) \in Seq(Int) /\ Len(SubSeq(s, 1, begin)) = begin
    OBVIOUS
  <2>2. Total(SubSeq(s, 1, begin)) \in Int
    BY <2>1, TotalType
  <2>3. MeanOf(SubSeq(s, 1, begin)) \in Int
    BY <2>1, <2>2 DEF MeanOf
  <2> DEFINE x == MeanOf(SubSeq(s, 1, begin))
  <2> HIDE DEF x
  <2>4. <<x>> \in [1..1 -> Int]
    BY <2>3 DEF x
  <2> QED
    BY <2>4 DEF x
<1> HIDE DEF e, seed
<1>5. Leads(F, W, e) /\ seed \in W[0]
  <2>1. ASSUME NEW i \in 1..e PROVE F[i] \in [W[i - 1] -> W[i]]
    <3>1. i \in Nat \ {0} /\ W[i - 1] = [1..i -> Int] /\ W[i] = [1..(i + 1) -> Int]
      BY <1>2
    <3> HIDE DEF W
    <3>2. \A b \in W[i - 1] : WilderBar(s, begin, n, b, i) \in W[i]
      BY <1>3, <3>1
    <3> QED
      BY <3>2
  <2>2. seed \in W[0]
    <3>1. W[0] = [1..1 -> Int]
      BY <1>2
    <3> QED
      BY <1>4, <3>1
  <2> HIDE DEF F, W
  <2> QED
    BY <2>1, <2>2 DEF Leads
<1>6. PICK g : Steps(F, seed, g, e) /\ \A i \in 0..e : g[i] \in W[i]
  <2> HIDE DEF F, W
  <2> QED
    BY <1>2, <1>5, StepsExist
<1>7. \A i \in 0..e : g[i] = C(g, i)
  <2> SUFFICES ASSUME NEW i \in 0..e PROVE g[i] = C(g, i)
    OBVIOUS
  <2>1. g[i] = IF i = 0 THEN seed ELSE F[i][g[i - 1]]
    <3> HIDE DEF F
    <3> QED
      BY <1>6 DEF Steps
  <2>2. CASE i = 0
    BY <2>1, <2>2 DEF WilderBar, seed
  <2>3. CASE i # 0
    <3>1. i \in 1..e /\ i - 1 \in 0..e
      BY <1>2, <2>3
    <3>2. g[i - 1] \in W[i - 1]
      <4> HIDE DEF W
      <4> QED
        BY <1>6, <3>1
    <3>3. F[i][g[i - 1]] = WilderBar(s, begin, n, g[i - 1], i)
      <4> HIDE DEF W
      <4> QED
        BY <3>1, <3>2
    <3> HIDE DEF F
    <3> QED
      BY <2>1, <2>3, <3>3
  <2> QED
    BY <2>2, <2>3
<1>8. g = [i \in 0..e |-> C(g, i)]
  <2>1. g = [i \in 0..e |-> g[i]]
    <3> HIDE DEF F
    <3> QED
      BY <1>6 DEF Steps
  <2> HIDE DEF C
  <2> QED
    BY <1>7, <2>1
<1>9. r = [i \in 0..e |-> C(r, i)]
  <2> HIDE DEF C
  <2> QED
    BY <1>8
<1>10. \A i \in 0..e : r[i] = C(r, i)
  <2> HIDE DEF C, r
  <2> QED
    BY <1>9
<1> HIDE DEF r
<1> DEFINE T == {i \in 0..e : r[i] \in [1..(i + 1) -> Int]}
<1>11. 0 \in T
  <2>1. 0 \in 0..e /\ r[0] = WilderBar(s, begin, n, r[0 - 1], 0)
    BY <1>2, <1>10
  <2>2. WilderBar(s, begin, n, r[0 - 1], 0) = seed
    BY DEF WilderBar, seed
  <2> QED
    BY <1>4, <2>1, <2>2
<1>12. ASSUME NEW i \in 1..e, i - 1 \in T PROVE i \in T
  <2>1. i \in Nat \ {0} /\ i \in 0..e /\ r[i - 1] \in [1..i -> Int]
    <3>1. i \in Nat \ {0} /\ i \in 0..e /\ (i - 1) + 1 = i
      BY <1>2
    <3> QED
      BY <1>12, <3>1
  <2>2. r[i] = WilderBar(s, begin, n, r[i - 1], i)
    BY <1>10, <2>1
  <2> QED
    BY <1>3, <2>1, <2>2
<1>13. \A i \in 0..e : i \in T
  <2> HIDE DEF T
  <2> QED
    BY <1>2, <1>11, <1>12, Upward
<1> QED
  BY <1>1, <1>10, <1>13 DEF WilderBars, e

\* It only ever appends an average.
LEMMA WilderGrows ==
  ASSUME NEW s \in Seq(Int), NEW begin \in Nat \ {0}, NEW n, Len(s) >= begin, NEW avg, WilderBars(s, begin, n, avg)
  PROVE  Growing(avg, Int, 1, Len(s) - begin)
<1> DEFINE e == Len(s) - begin
<1>1. e \in Nat
  OBVIOUS
<1>2. \A i \in 0..e : avg[i] \in [1..(i + 1) -> Int]
  BY DEF WilderBars
<1>3. ASSUME NEW i \in 1..e, NEW j \in 1..(i + 1 - 1) PROVE avg[i][j] = avg[i - 1][j]
  <2>1. i \in 0..e /\ i - 1 \in 0..e /\ i # 0 /\ (i - 1) + 1 = i /\ j \in 1..i /\ i \in Nat
    BY <1>1
  <2>2. avg[i - 1] \in [1..i -> Int]
    BY <1>2, <2>1
  <2> DEFINE x == (Last(avg[i - 1]) * (n - 1) + s[begin + i]) \div n
  <2>3. avg[i] = Append(avg[i - 1], x)
    BY <2>1 DEF WilderBars, WilderBar
  <2> HIDE DEF x
  <2>4. avg[i - 1] \in Seq(Int) /\ Len(avg[i - 1]) = i
    BY <2>1, <2>2
  <2> QED
    BY <2>1, <2>3, <2>4
<1> HIDE DEF e
<1>4. \A i \in 1..e : \A j \in 1..(i + 1 - 1) : avg[i][j] = avg[i - 1][j]
  BY <1>3
<1> QED
  BY <1>2, <1>4 DEF Growing, e

\* One average for each value from the first on that has enough before it
LEMMA WilderType ==
  ASSUME NEW s \in Seq(Int), NEW begin \in Nat \ {0}, NEW n \in Nat \ {0}
  PROVE  /\ Wilder(s, begin, n) \in Seq(Int)
         /\ Len(Wilder(s, begin, n)) = IF Len(s) < begin THEN 0 ELSE Len(s) - begin + 1
<1>1. CASE Len(s) < begin
  BY <1>1 DEF Wilder
<1>2. CASE ~(Len(s) < begin)
  <2>1. PICK avg : WilderBars(s, begin, n, avg) /\ Wilder(s, begin, n) = avg[Len(s) - begin]
    <3>1. Len(s) >= begin
      BY <1>2
    <3> QED
      BY <3>1, WilderHasBars
  <2> DEFINE e == Len(s) - begin
  <2>2. e \in Nat /\ e \in 0..e
    BY <1>2
  <2>3. Wilder(s, begin, n) \in [1..(e + 1) -> Int]
    BY <2>1, <2>2 DEF WilderBars
  <2> HIDE DEF e
  <2>4. Wilder(s, begin, n) \in Seq(Int) /\ Len(Wilder(s, begin, n)) = e + 1
    BY <2>2, <2>3
  <2> QED
    BY <1>2, <2>4 DEF e
<1> QED
  BY <1>1, <1>2

\* The average at a bar is of the bars up to it.
LEMMA WilderAgrees ==
  ASSUME NEW s \in Seq(Int), NEW t \in Seq(Int), NEW begin \in Nat \ {0}, NEW n \in Nat \ {0},
         NEW k \in Nat, Agrees(s, t, k), k >= begin
  PROVE  Agrees(Wilder(s, begin, n), Wilder(t, begin, n), k - begin + 1)
<1>0. k <= Len(s) /\ k <= Len(t) /\ Len(s) \in Nat /\ Len(t) \in Nat
  BY DEF Agrees
<1>1. /\ k <= Len(s) /\ k <= Len(t) /\ Len(s) \in Nat /\ Len(t) \in Nat
      /\ Len(s) >= begin /\ Len(t) >= begin /\ ~(Len(s) < begin) /\ ~(Len(t) < begin)
  BY <1>0
<1>2. PICK a : WilderBars(s, begin, n, a) /\ Wilder(s, begin, n) = a[Len(s) - begin]
  BY <1>1, WilderHasBars
<1>3. PICK b : WilderBars(t, begin, n, b) /\ Wilder(t, begin, n) = b[Len(t) - begin]
  BY <1>1, WilderHasBars
<1> DEFINE e == k - begin
           S == {i \in 0..e : a[i] = b[i]}
<1>4. e \in Nat /\ e \in 0..(Len(s) - begin) /\ e \in 0..(Len(t) - begin)
  BY <1>1
<1>5. ASSUME NEW i \in 0..e
      PROVE  a[i] = WilderBar(s, begin, n, a[i - 1], i) /\ b[i] = WilderBar(t, begin, n, b[i - 1], i)
  <2>1. i \in 0..(Len(s) - begin) /\ i \in 0..(Len(t) - begin)
    BY <1>1
  <2> QED
    BY <1>2, <1>3, <2>1 DEF WilderBars
<1>6. SubSeq(s, 1, begin) = SubSeq(t, 1, begin)
  <2>1. begin \in 0..k
    OBVIOUS
  <2> QED
    BY <2>1, SameBeginning
<1>7. ASSUME NEW i \in 1..e PROVE s[begin + i] = t[begin + i]
  <2>1. begin + i \in 1..k
    OBVIOUS
  <2> QED
    BY <2>1 DEF Agrees
<1> HIDE DEF e
<1>8. 0 \in S
  <2>1. 0 \in 0..e
    BY <1>4
  <2> QED
    BY <1>5, <1>6, <2>1 DEF WilderBar
<1>9. ASSUME NEW i \in 1..e, i - 1 \in S PROVE i \in S
  <2>1. i \in 0..e /\ i # 0 /\ a[i - 1] = b[i - 1]
    <3>1. i \in 0..e /\ i # 0
      BY <1>4
    <3> QED
      BY <1>9, <3>1
  <2>2. s[begin + i] = t[begin + i]
    BY <1>7
  <2> QED
    BY <1>5, <2>1, <2>2 DEF WilderBar
<1>10. \A i \in 0..e : i \in S
  <2> HIDE DEF S
  <2> QED
    BY <1>4, <1>8, <1>9, Upward
<1>11. a[e] = b[e]
  BY <1>4, <1>10
<1>12. \A j \in 1..(e + 1) : a[Len(s) - begin][j] = a[e][j] /\ b[Len(t) - begin][j] = b[e][j]
  <2> DEFINE p == Len(s) - begin
             q == Len(t) - begin
  <2>1. p \in Nat /\ q \in Nat /\ e \in 0..p /\ e \in 0..q /\ 1 \in Nat
    BY <1>1, <1>4
  <2>2. Growing(a, Int, 1, p) /\ Growing(b, Int, 1, q)
    BY <1>1, <1>2, <1>3, WilderGrows
  <2> DEFINE V == Int
             c == 1
  <2>3. Growing(a, V, c, p) /\ Growing(b, V, c, q) /\ c \in Nat
    BY <2>2
  <2> HIDE DEF p, q, V, c
  <2>4. \A j \in 1..(e + c) : a[p][j] = a[e][j]
    BY <2>1, <2>3, PrefixKept
  <2>5. \A j \in 1..(e + c) : b[q][j] = b[e][j]
    BY <2>1, <2>3, PrefixKept
  <2> QED
    BY <2>4, <2>5 DEF p, q, c
<1>13. /\ Len(Wilder(s, begin, n)) = Len(s) - begin + 1
       /\ Len(Wilder(t, begin, n)) = Len(t) - begin + 1
  BY <1>1, WilderType
<1> QED
  <2>1. \A j \in 1..(e + 1) : Wilder(s, begin, n)[j] = Wilder(t, begin, n)[j]
    BY <1>2, <1>3, <1>11, <1>12
  <2>2. e + 1 = k - begin + 1 /\ e + 1 <= Len(Wilder(s, begin, n)) /\ e + 1 <= Len(Wilder(t, begin, n))
    BY <1>1, <1>13 DEF e
  <2> QED
    BY <2>1, <2>2 DEF Agrees

\* The average of what is not negative is not.
LEMMA WilderSign ==
  ASSUME NEW s \in Seq(Int), NEW begin \in Nat \ {0}, NEW n \in Nat \ {0}, \A i \in DOMAIN s : s[i] >= 0
  PROVE  \A i \in DOMAIN Wilder(s, begin, n) : Wilder(s, begin, n)[i] >= 0
<1>1. CASE Len(s) < begin
  BY <1>1 DEF Wilder
<1>2. CASE ~(Len(s) < begin)
  <2>1. PICK avg : WilderBars(s, begin, n, avg) /\ Wilder(s, begin, n) = avg[Len(s) - begin]
    BY <1>2, WilderHasBars
  <2> DEFINE e == Len(s) - begin
             S == {i \in 0..e : avg[i] \in [1..(i + 1) -> Nat]}
  <2>2. e \in Nat /\ e \in 0..e
    BY <1>2
  <2>3. \A i \in 0..e : avg[i] = WilderBar(s, begin, n, avg[i - 1], i)
    BY <2>1 DEF WilderBars
  <2>4. ASSUME NEW i \in 1..e PROVE s[begin + i] \in Nat
    <3>1. begin + i \in 1..Len(s)
      BY <1>2
    <3> QED
      BY <3>1
  <2>5. MeanOf(SubSeq(s, 1, begin)) \in Nat
    <3> DEFINE w == SubSeq(s, 1, begin)
    <3>1. w \in Seq(Int) /\ Len(w) = begin
      BY <1>2
    <3>2. \A k \in DOMAIN w : w[k] >= 0
      <4>1. w = [k \in 1..begin |-> s[k]] /\ \A k \in 1..begin : k \in DOMAIN s
        BY <1>2
      <4> HIDE DEF w
      <4> QED
        BY <4>1
    <3> HIDE DEF w
    <3>3. Total(w) \in Int /\ Total(w) >= 0
      BY <3>1, <3>2, TotalType
    <3>4. Total(w) \div begin \in Nat
      BY <3>3
    <3> QED
      BY <3>1, <3>4 DEF MeanOf, w
  <2> HIDE DEF e
  <2>6. 0 \in S
    <3> DEFINE x == MeanOf(SubSeq(s, 1, begin))
    <3>1. 0 \in 0..e /\ avg[0] = <<x>>
      BY <2>2, <2>3 DEF WilderBar
    <3>2. x \in Nat
      BY <2>5
    <3> HIDE DEF x
    <3>3. <<x>> \in [1..(0 + 1) -> Nat]
      BY <3>2
    <3> QED
      BY <3>1, <3>3
  <2>7. ASSUME NEW i \in 1..e, i - 1 \in S PROVE i \in S
    <3> DEFINE before == avg[i - 1]
               new == (Last(before) * (n - 1) + s[begin + i]) \div n
    <3>1. i \in Nat \ {0} /\ i \in 0..e /\ (i - 1) + 1 = i
      BY <2>2
    <3>2. before \in [1..i -> Nat]
      BY <2>7, <3>1
    <3>3. avg[i] = Append(before, new)
      BY <2>3, <3>1 DEF WilderBar
    <3> HIDE DEF before
    <3>4. before \in Seq(Nat) /\ Len(before) = i /\ i \in 1..i
      BY <3>1, <3>2
    <3>5. Last(before) \in Nat
      BY <3>2, <3>4 DEF Last
    <3>6. new \in Nat
      <4>1. Last(before) * (n - 1) \in Nat
        BY <3>5
      <4>2. s[begin + i] \in Nat
        BY <2>4
      <4> DEFINE a == Last(before) * (n - 1) + s[begin + i]
      <4>3. a \in Nat
        BY <4>1, <4>2
      <4> HIDE DEF a
      <4>4. a \div n \in Nat
        BY <4>3
      <4> QED
        BY <4>4 DEF a
    <3> HIDE DEF new
    <3>7. Append(before, new) \in Seq(Nat) /\ Len(Append(before, new)) = i + 1
      BY <3>4, <3>6
    <3>8. Append(before, new) \in [1..(i + 1) -> Nat]
      BY <3>7, LenProperties
    <3> QED
      BY <3>1, <3>3, <3>8
  <2>8. \A i \in 0..e : i \in S
    <3> HIDE DEF S
    <3> QED
      BY <2>2, <2>6, <2>7, Upward
  <2>9. avg[e] \in [1..(e + 1) -> Nat]
    BY <2>2, <2>8
  <2>10. \A i \in DOMAIN avg[e] : avg[e][i] >= 0
    <3> DEFINE x == avg[e]
    <3>1. x \in [1..(e + 1) -> Nat]
      BY <2>9
    <3> HIDE DEF x
    <3>2. \A i \in DOMAIN x : x[i] \in Nat
      BY <3>1
    <3>3. \A i \in DOMAIN x : x[i] >= 0
      BY <3>2
    <3> QED
      BY <3>3 DEF x
  <2> QED
    BY <2>1, <2>10 DEF e
<1> QED
  BY <1>1, <1>2

-----------------------------------------------------------------------------
(* Indicators: the ADX of a bar is of the bars up to it.                   *)

Ups(prices) == [j \in 1..(Len(prices) - 1) |-> UpMove(prices, j + 1)]
Downs(prices) == [j \in 1..(Len(prices) - 1) |-> DownMove(prices, j + 1)]
Onesided(moves, others) == [j \in 1..Len(moves) |-> IF moves[j] > Max({0, others[j]}) THEN moves[j] ELSE 0]

\* The averages of the ADX are of some bars.
LEMMA PeriodTypes == AdxPeriod \in Nat /\ AdxPeriod - 1 \in Nat \ {0} /\ AdxPeriod \in Nat \ {0}
BY PeriodsAssumption

\* High and low of a bar are numbers.
LEMMA RangeType ==
  ASSUME NEW p \in Seq(Int), NEW i \in 1..Len(p)
  PROVE  /\ Max({1, i - 1}) \in 1..i
         /\ High(p, i) \in Int /\ Low(p, i) \in Int
<1>1. i \in Nat /\ i - 1 \in Int
  OBVIOUS
<1>2. Max({1, i - 1}) \in 1..i
  BY <1>1, MaxTwo
<1>3. p[i] \in Int /\ Before(p, i) \in Int
  BY <1>2 DEF Before
<1> QED
  BY <1>2, <1>3, MaxTwo, MinTwo DEF High, Low

\* There is one move up and one move down between two bars.
LEMMA MovesType ==
  ASSUME NEW p \in Seq(Int), Len(p) >= 1
  PROVE  /\ Ups(p) \in Seq(Int) /\ Len(Ups(p)) = Len(p) - 1
         /\ Downs(p) \in Seq(Int) /\ Len(Downs(p)) = Len(p) - 1
<1> DEFINE n == Len(p) - 1
<1>1. n \in Nat
  OBVIOUS
<1>2. ASSUME NEW j \in 1..n PROVE UpMove(p, j + 1) \in Int /\ DownMove(p, j + 1) \in Int
  <2>1. j + 1 \in 1..Len(p) /\ (j + 1) - 1 \in 1..Len(p)
    OBVIOUS
  <2>2. High(p, j + 1) \in Int /\ Low(p, j + 1) \in Int /\ High(p, (j + 1) - 1) \in Int /\ Low(p, (j + 1) - 1) \in Int
    BY <2>1, RangeType
  <2> QED
    BY <2>2 DEF UpMove, DownMove
<1>3. Ups(p) \in [1..n -> Int] /\ Downs(p) \in [1..n -> Int]
  BY <1>2 DEF Ups, Downs
<1> HIDE DEF n
<1>4. Ups(p) \in Seq(Int) /\ Len(Ups(p)) = n /\ Downs(p) \in Seq(Int) /\ Len(Downs(p)) = n
  BY <1>1, <1>3
<1> QED
  BY <1>4 DEF n

\* The moves between the bars up to k are told by the bars up to k.
LEMMA MovesAgree ==
  ASSUME NEW p \in Seq(Int), NEW q \in Seq(Int), NEW k \in Nat \ {0}, Agrees(p, q, k)
  PROVE  Agrees(Ups(p), Ups(q), k - 1) /\ Agrees(Downs(p), Downs(q), k - 1)
<1>1. k <= Len(p) /\ k <= Len(q) /\ Len(p) >= 1 /\ Len(q) >= 1 /\ Len(p) \in Nat /\ Len(q) \in Nat
  BY DEF Agrees
<1>2. ASSUME NEW i \in 1..k PROVE High(p, i) = High(q, i) /\ Low(p, i) = Low(q, i)
  <2>1. i \in 1..Len(p)
    BY <1>1
  <2>2. Max({1, i - 1}) \in 1..i
    BY <2>1, RangeType
  <2>3. Max({1, i - 1}) \in 1..k
    BY <2>2
  <2>4. p[i] = q[i] /\ Before(p, i) = Before(q, i)
    BY <2>3 DEF Agrees, Before
  <2> QED
    BY <2>4 DEF High, Low
<1>3. ASSUME NEW j \in 1..(k - 1) PROVE Ups(p)[j] = Ups(q)[j] /\ Downs(p)[j] = Downs(q)[j]
  <2>1. j + 1 \in 1..k /\ (j + 1) - 1 \in 1..k /\ j \in 1..(Len(p) - 1) /\ j \in 1..(Len(q) - 1)
    BY <1>1
  <2>2. /\ High(p, j + 1) = High(q, j + 1) /\ High(p, (j + 1) - 1) = High(q, (j + 1) - 1)
        /\ Low(p, j + 1) = Low(q, j + 1) /\ Low(p, (j + 1) - 1) = Low(q, (j + 1) - 1)
    BY <1>2, <2>1
  <2>3. UpMove(p, j + 1) = UpMove(q, j + 1) /\ DownMove(p, j + 1) = DownMove(q, j + 1)
    BY <2>2 DEF UpMove, DownMove
  <2> QED
    BY <2>1, <2>3 DEF Ups, Downs
<1>4. k - 1 <= Len(Ups(p)) /\ k - 1 <= Len(Ups(q)) /\ k - 1 <= Len(Downs(p)) /\ k - 1 <= Len(Downs(q))
  <2>1. Len(Ups(p)) = Len(p) - 1 /\ Len(Downs(p)) = Len(p) - 1
    BY <1>1, MovesType
  <2>2. Len(Ups(q)) = Len(q) - 1 /\ Len(Downs(q)) = Len(q) - 1
    BY <1>1, MovesType
  <2> QED
    BY <1>1, <2>1, <2>2
<1> QED
  BY <1>3, <1>4 DEF Agrees

\* The directional movement is never negative.
LEMMA OnesidedType ==
  ASSUME NEW a \in Seq(Int), NEW b \in Seq(Int), Len(a) = Len(b)
  PROVE  /\ Onesided(a, b) \in Seq(Int) /\ Len(Onesided(a, b)) = Len(a)
         /\ \A j \in DOMAIN Onesided(a, b) : Onesided(a, b)[j] >= 0
<1> DEFINE n == Len(a)
<1>1. n \in Nat
  OBVIOUS
<1>2. ASSUME NEW j \in 1..n PROVE (IF a[j] > Max({0, b[j]}) THEN a[j] ELSE 0) \in Nat
  <2>1. a[j] \in Int /\ b[j] \in Int
    OBVIOUS
  <2>2. Max({0, b[j]}) \in Int /\ Max({0, b[j]}) >= 0
    BY <2>1, MaxTwo
  <2> QED
    BY <2>1, <2>2
<1>3. Onesided(a, b) \in [1..n -> Nat]
  BY <1>2 DEF Onesided
<1> HIDE DEF n
<1>4. Onesided(a, b) \in Seq(Nat) /\ Len(Onesided(a, b)) = n /\ DOMAIN Onesided(a, b) = 1..n
  BY <1>1, <1>3
<1> QED
  BY <1>3, <1>4 DEF n

\* It is told by the moves at its own bar.
LEMMA OnesidedAgrees ==
  ASSUME NEW a \in Seq(Int), NEW b \in Seq(Int), NEW c \in Seq(Int), NEW d \in Seq(Int), NEW k \in Nat,
         Agrees(a, c, k), Agrees(b, d, k), Len(a) = Len(b), Len(c) = Len(d)
  PROVE  Agrees(Onesided(a, b), Onesided(c, d), k)
<1>1. k <= Len(Onesided(a, b)) /\ k <= Len(Onesided(c, d))
  BY OnesidedType DEF Agrees
<1>2. ASSUME NEW j \in 1..k PROVE Onesided(a, b)[j] = Onesided(c, d)[j]
  <2>1. j \in 1..Len(a) /\ j \in 1..Len(c) /\ a[j] = c[j] /\ b[j] = d[j]
    <3>1. j \in Nat /\ k <= Len(a) /\ k <= Len(c) /\ a[j] = c[j] /\ b[j] = d[j]
      BY SMTT(60) DEF Agrees
    <3>2. Len(a) \in Nat /\ Len(c) \in Nat
      OBVIOUS
    <3> QED
      BY <3>1, <3>2
  <2> QED
    BY <2>1 DEF Onesided
<1> QED
  BY <1>1, <1>2 DEF Agrees

\* The directional indicator is a percentage that is never negative.
LEMMA DirectionalType ==
  ASSUME NEW a \in Seq(Int), NEW b \in Seq(Int), Len(a) = Len(b)
  PROVE  /\ Directional(a, b) \in Seq(Int)
         /\ Len(Directional(a, b)) = IF Len(a) < AdxPeriod - 1 THEN 0 ELSE Len(a) - AdxPeriod + 2
         /\ \A j \in DOMAIN Directional(a, b) : Directional(a, b)[j] >= 0
<1> DEFINE s == Onesided(a, b)
<1>1. s \in Seq(Int) /\ Len(s) = Len(a) /\ \A j \in DOMAIN s : s[j] >= 0
  BY OnesidedType
<1>2. Directional(a, b) = Wilder(s, AdxPeriod - 1, AdxPeriod)
  BY DEF Directional, Onesided
<1> HIDE DEF s
<1>3. \A j \in DOMAIN Wilder(s, AdxPeriod - 1, AdxPeriod) : Wilder(s, AdxPeriod - 1, AdxPeriod)[j] >= 0
  BY <1>1, PeriodTypes, WilderSign
<1>4. /\ Wilder(s, AdxPeriod - 1, AdxPeriod) \in Seq(Int)
      /\ Len(Wilder(s, AdxPeriod - 1, AdxPeriod)) = IF Len(s) < AdxPeriod - 1 THEN 0 ELSE Len(s) - (AdxPeriod - 1) + 1
  BY <1>1, PeriodTypes, WilderType
<1>5. Len(s) - (AdxPeriod - 1) + 1 = Len(s) - AdxPeriod + 2
  BY <1>1, PeriodTypes
<1> QED
  BY <1>1, <1>2, <1>3, <1>4, <1>5

\* It is told by the movements up to its own bar.
LEMMA DirectionalAgrees ==
  ASSUME NEW a \in Seq(Int), NEW b \in Seq(Int), NEW c \in Seq(Int), NEW d \in Seq(Int), NEW k \in Nat,
         Agrees(a, c, k), Agrees(b, d, k), Len(a) = Len(b), Len(c) = Len(d), k >= AdxPeriod - 1
  PROVE  Agrees(Directional(a, b), Directional(c, d), k - AdxPeriod + 2)
<1> DEFINE s == Onesided(a, b)
           t == Onesided(c, d)
           begin == AdxPeriod - 1
<1>1. s \in Seq(Int) /\ t \in Seq(Int) /\ Agrees(s, t, k)
  BY OnesidedType, OnesidedAgrees
<1>2. Directional(a, b) = Wilder(s, begin, AdxPeriod) /\ Directional(c, d) = Wilder(t, begin, AdxPeriod)
  BY DEF Directional, Onesided
<1>3. begin \in Nat \ {0} /\ AdxPeriod \in Nat \ {0} /\ k >= begin /\ k - begin + 1 = k - AdxPeriod + 2
  BY PeriodTypes
<1> HIDE DEF s, t, begin
<1>4. Agrees(Wilder(s, begin, AdxPeriod), Wilder(t, begin, AdxPeriod), k - begin + 1)
  BY <1>1, <1>3, WilderAgrees
<1> QED
  BY <1>2, <1>3, <1>4

\* The directional index is a number.
LEMMA DxType ==
  ASSUME NEW a \in Seq(Int), NEW b \in Seq(Int), Len(a) = Len(b), Len(a) >= 1,
         \A j \in DOMAIN a : a[j] >= 0, \A j \in DOMAIN b : b[j] >= 0
  PROVE  Dx(a, b) \in Seq(Int) /\ Len(Dx(a, b)) = Len(a) - 1
<1> DEFINE n == Len(a) - 1
<1>1. n \in Nat
  OBVIOUS
<1>2. ASSUME NEW j \in 1..n PROVE Spread(a[j + 1], b[j + 1]) \in Int
  <2> DEFINE x == a[j + 1]
             y == b[j + 1]
  <2>1. j + 1 \in DOMAIN a /\ j + 1 \in DOMAIN b
    OBVIOUS
  <2>2. x \in Nat /\ y \in Nat
    BY <2>1
  <2> HIDE DEF x, y
  <2>3. 100 * AbsOf(x - y) \in Int
    BY <2>2 DEF AbsOf
  <2>4. x + y # 0 => x + y \in Nat \ {0}
    BY <2>2
  <2>5. x + y # 0 => (100 * AbsOf(x - y)) \div (x + y) \in Int
    BY <2>3, <2>4
  <2>6. Spread(x, y) \in Int
    BY <2>5 DEF Spread
  <2> QED
    BY <2>6 DEF x, y
<1>3. Dx(a, b) \in [1..n -> Int]
  BY <1>2 DEF Dx
<1> HIDE DEF n
<1>4. Dx(a, b) \in Seq(Int) /\ Len(Dx(a, b)) = n
  BY <1>1, <1>3
<1> QED
  BY <1>4 DEF n

\* It is told by the indicators up to its own bar.
LEMMA DxAgrees ==
  ASSUME NEW a \in Seq(Int), NEW b \in Seq(Int), NEW c \in Seq(Int), NEW d \in Seq(Int), NEW k \in Nat \ {0},
         Agrees(a, c, k), Agrees(b, d, k), Len(a) = Len(b), Len(c) = Len(d),
         \A j \in DOMAIN a : a[j] >= 0, \A j \in DOMAIN b : b[j] >= 0,
         \A j \in DOMAIN c : c[j] >= 0, \A j \in DOMAIN d : d[j] >= 0
  PROVE  Agrees(Dx(a, b), Dx(c, d), k - 1)
<1>1. k <= Len(a) /\ k <= Len(c) /\ Len(a) >= 1 /\ Len(c) >= 1
  BY DEF Agrees
<1>2. k - 1 <= Len(Dx(a, b)) /\ k - 1 <= Len(Dx(c, d))
  <2>1. Len(Dx(a, b)) = Len(a) - 1
    BY <1>1, DxType
  <2>2. Len(Dx(c, d)) = Len(c) - 1
    BY <1>1, DxType
  <2>3. Len(a) \in Nat /\ Len(c) \in Nat
    OBVIOUS
  <2> QED
    BY <1>1, <2>1, <2>2, <2>3
<1>3. ASSUME NEW j \in 1..(k - 1) PROVE Dx(a, b)[j] = Dx(c, d)[j]
  <2>1. j + 1 \in 1..k /\ j \in 1..(Len(a) - 1) /\ j \in 1..(Len(c) - 1)
    <3>1. Len(a) \in Nat /\ Len(c) \in Nat
      OBVIOUS
    <3> QED
      BY <1>1, <3>1, SMTT(60)
  <2>2. a[j + 1] = c[j + 1] /\ b[j + 1] = d[j + 1]
    BY <2>1 DEF Agrees
  <2> QED
    BY <2>1, <2>2 DEF Dx
<1> QED
  BY <1>2, <1>3 DEF Agrees

\* compute_adx before what is missing at the beginning is filled in
PlusDi(bars) == Directional(Ups(Priced(bars)), Downs(Priced(bars)))
MinusDi(bars) == Directional(Downs(Priced(bars)), Ups(Priced(bars)))
BareAdx(bars) == Wilder(Dx(PlusDi(bars), MinusDi(bars)), AdxPeriod - 1, AdxPeriod)

\* Prices are numbers, one per bar.
LEMMA PricedType ==
  ASSUME NEW bars \in Seq(Int)
  PROVE  Priced(bars) \in Seq(Int) /\ Len(Priced(bars)) = Len(bars)
<1>1. Priced(bars) \in [1..Len(bars) -> Int] /\ Len(bars) \in Nat
  BY DEF Priced
<1> QED
  BY <1>1

\* Both directional indicators are defined once there are enough bars.
LEMMA DiType ==
  ASSUME NEW bars \in Seq(Int), Len(bars) >= AdxPeriod
  PROVE  /\ PlusDi(bars) \in Seq(Int) /\ MinusDi(bars) \in Seq(Int)
         /\ Len(PlusDi(bars)) = Len(bars) - AdxPeriod + 1 /\ Len(MinusDi(bars)) = Len(bars) - AdxPeriod + 1
         /\ \A j \in DOMAIN PlusDi(bars) : PlusDi(bars)[j] >= 0
         /\ \A j \in DOMAIN MinusDi(bars) : MinusDi(bars)[j] >= 0
<1> DEFINE p == Priced(bars)
<1>1. p \in Seq(Int) /\ Len(p) = Len(bars) /\ Len(bars) \in Nat
  BY PricedType
<1>2. Len(p) >= 1 /\ ~(Len(p) - 1 < AdxPeriod - 1)
  BY <1>1, PeriodTypes
<1> HIDE DEF p
<1> DEFINE a == Ups(p)
           b == Downs(p)
<1>3. a \in Seq(Int) /\ b \in Seq(Int) /\ Len(a) = Len(bars) - 1 /\ Len(b) = Len(bars) - 1
  BY <1>1, <1>2, MovesType
<1>4. PlusDi(bars) = Directional(a, b) /\ MinusDi(bars) = Directional(b, a)
  BY DEF PlusDi, MinusDi, p
<1>5. (Len(bars) - 1) - AdxPeriod + 2 = Len(bars) - AdxPeriod + 1 /\ ~(Len(bars) - 1 < AdxPeriod - 1)
  BY <1>1, <1>2, PeriodTypes
<1> HIDE DEF a, b
<1>6. /\ Directional(a, b) \in Seq(Int) /\ Len(Directional(a, b)) = Len(bars) - AdxPeriod + 1
      /\ \A j \in DOMAIN Directional(a, b) : Directional(a, b)[j] >= 0
  BY <1>3, <1>5, DirectionalType
<1>7. /\ Directional(b, a) \in Seq(Int) /\ Len(Directional(b, a)) = Len(bars) - AdxPeriod + 1
      /\ \A j \in DOMAIN Directional(b, a) : Directional(b, a)[j] >= 0
  BY <1>3, <1>5, DirectionalType
<1> QED
  BY <1>4, <1>6, <1>7

\* They are told by the bars up to their own.
LEMMA DiAgrees ==
  ASSUME NEW s \in Seq(Int), NEW t \in Seq(Int), NEW k \in Nat, Agrees(s, t, k), k >= AdxPeriod
  PROVE  /\ Agrees(PlusDi(s), PlusDi(t), k - AdxPeriod + 1)
         /\ Agrees(MinusDi(s), MinusDi(t), k - AdxPeriod + 1)
<1> DEFINE p == Priced(s)
           q == Priced(t)
<1>1. p \in Seq(Int) /\ q \in Seq(Int) /\ Len(p) = Len(s) /\ Len(q) = Len(t)
  BY PricedType
<1>2. Agrees(p, q, k)
  <2>1. k <= Len(s) /\ k <= Len(t)
    BY DEF Agrees
  <2>2. ASSUME NEW i \in 1..k PROVE p[i] = q[i]
    <3>1. i \in 1..Len(s) /\ i \in 1..Len(t) /\ s[i] = t[i]
      BY <2>1 DEF Agrees
    <3> QED
      BY <3>1 DEF Priced
  <2> HIDE DEF p, q
  <2> QED
    BY <1>1, <2>1, <2>2 DEF Agrees
<1>3. k \in Nat \ {0} /\ k - 1 \in Nat /\ k - 1 >= AdxPeriod - 1 /\ (k - 1) - AdxPeriod + 2 = k - AdxPeriod + 1
  BY PeriodTypes
<1>4. Len(p) >= 1 /\ Len(q) >= 1
  BY <1>2, <1>3 DEF Agrees
<1>5. PlusDi(s) = Directional(Ups(p), Downs(p)) /\ MinusDi(s) = Directional(Downs(p), Ups(p))
  BY DEF PlusDi, MinusDi
<1>6. PlusDi(t) = Directional(Ups(q), Downs(q)) /\ MinusDi(t) = Directional(Downs(q), Ups(q))
  BY DEF PlusDi, MinusDi
<1> HIDE DEF p, q
<1> DEFINE a == Ups(p)
           b == Downs(p)
           c == Ups(q)
           d == Downs(q)
           e == k - 1
<1>7. a \in Seq(Int) /\ b \in Seq(Int) /\ c \in Seq(Int) /\ d \in Seq(Int) /\ Len(a) = Len(b) /\ Len(c) = Len(d)
  BY <1>1, <1>4, MovesType
<1>8. Agrees(a, c, e) /\ Agrees(b, d, e)
  BY <1>1, <1>2, <1>3, MovesAgree
<1>9. e \in Nat /\ e >= AdxPeriod - 1 /\ e - AdxPeriod + 2 = k - AdxPeriod + 1
  BY <1>3
<1> HIDE DEF a, b, c, d, e
<1>10. Agrees(Directional(a, b), Directional(c, d), e - AdxPeriod + 2)
  BY <1>7, <1>8, <1>9, DirectionalAgrees
<1>11. Agrees(Directional(b, a), Directional(d, c), e - AdxPeriod + 2)
  BY <1>7, <1>8, <1>9, DirectionalAgrees
<1> QED
  BY <1>5, <1>6, <1>9, <1>10, <1>11 DEF a, b, c, d

\* features: compute_adx at a bar is that of the bars up to it, when there are more.
LEMMA AdxIsCausal ==
  ASSUME NEW s \in Seq(Int), NEW t \in Seq(Int), NEW k \in Nat, Agrees(s, t, k), k < Len(s), k < Len(t),
         NEW i \in 1..k
  PROVE  AdxSeries(s)[i] = AdxSeries(t)[i]
<1> DEFINE A == AdxPeriod
           Filled(bars, j) == IF Len(bars) < A + 2 \/ j <= Len(bars) - Len(BareAdx(bars)) THEN 0
                              ELSE BareAdx(bars)[j - (Len(bars) - Len(BareAdx(bars)))]
<1>1. AdxSeries(s)[i] = Filled(s, i) /\ AdxSeries(t)[i] = Filled(t, i)
  <2>1. i \in 1..Len(s) /\ i \in 1..Len(t)
    OBVIOUS
  <2> QED
    BY <2>1 DEF AdxSeries, BareAdx, PlusDi, MinusDi, Ups, Downs
<1>2. A \in Nat /\ A >= 2
  BY PeriodsAssumption
<1>3. ASSUME NEW bars \in Seq(Int), Len(bars) > k
      PROVE  /\ i <= 2 * A - 2 => Filled(bars, i) = 0
             /\ i > 2 * A - 2 => /\ Filled(bars, i) = BareAdx(bars)[i - (2 * A - 2)]
                                 /\ Len(bars) >= A
  <2> DEFINE n == Len(bars)
             dx == Dx(PlusDi(bars), MinusDi(bars))
             m == Len(BareAdx(bars))
  <2>1. n \in Nat /\ n >= i + 1 /\ i \in Nat
    BY <1>3
  <2>2. CASE n < A
    <3>1. n < A + 2 /\ ~(i > 2 * A - 2)
      BY <1>2, <2>1, <2>2
    <3>2. Filled(bars, i) = 0
      BY <3>1
    <3> QED
      BY <3>1, <3>2
  <2>3. CASE n >= A
    <3>1. /\ PlusDi(bars) \in Seq(Int) /\ MinusDi(bars) \in Seq(Int)
          /\ Len(PlusDi(bars)) = n - A + 1 /\ Len(MinusDi(bars)) = n - A + 1
          /\ \A j \in DOMAIN PlusDi(bars) : PlusDi(bars)[j] >= 0
          /\ \A j \in DOMAIN MinusDi(bars) : MinusDi(bars)[j] >= 0
      BY <1>3, <2>3, DiType
    <3>2. n - A + 1 >= 1 /\ (n - A + 1) - 1 = n - A
      BY <1>2, <2>1, <2>3
    <3>3. dx \in Seq(Int) /\ Len(dx) = n - A
      BY <3>1, <3>2, DxType
    <3>4. m = IF n - A < A - 1 THEN 0 ELSE (n - A) - (A - 1) + 1
      <4> HIDE DEF dx
      <4>1. Len(Wilder(dx, A - 1, A)) = IF Len(dx) < A - 1 THEN 0 ELSE Len(dx) - (A - 1) + 1
        BY <3>3, PeriodTypes, WilderType
      <4> QED
        BY <3>3, <4>1 DEF BareAdx, dx
    <3>5. Filled(bars, i) = IF n < A + 2 \/ i <= n - m THEN 0 ELSE BareAdx(bars)[i - (n - m)]
      OBVIOUS
    <3> HIDE DEF n, m, dx, Filled
    <3>6. CASE n - A < A - 1
      <4>1. n - m = n /\ i <= n - m /\ ~(i > 2 * A - 2)
        BY <1>2, <2>1, <3>4, <3>6
      <4> QED
        BY <3>5, <4>1
    <3>7. CASE ~(n - A < A - 1)
      <4>1. n - m = 2 * A - 2
        BY <1>2, <2>1, <3>4, <3>7
      <4>2. i > 2 * A - 2 => ~(n < A + 2)
        BY <1>2, <2>1
      <4>3. i > 2 * A - 2 => ~(i <= n - m)
        BY <1>2, <2>1, <4>1
      <4>4. i <= 2 * A - 2 => Filled(bars, i) = 0
        BY <3>5, <4>1
      <4>5. i > 2 * A - 2 => Filled(bars, i) = BareAdx(bars)[i - (2 * A - 2)]
        BY <3>5, <4>1, <4>2, <4>3
      <4> QED
        BY <2>3, <4>4, <4>5 DEF n
    <3> QED
      BY <3>6, <3>7
  <2>4. n < A \/ n >= A
    BY <1>2, <2>1
  <2> QED
    BY <2>2, <2>3, <2>4
<1>4. CASE i <= 2 * A - 2
  <2>1. Filled(s, i) = 0 /\ Filled(t, i) = 0
    BY <1>3, <1>4
  <2> QED
    BY <1>1, <2>1
<1>5. CASE i > 2 * A - 2
  <2>1. /\ Filled(s, i) = BareAdx(s)[i - (2 * A - 2)] /\ Filled(t, i) = BareAdx(t)[i - (2 * A - 2)]
        /\ Len(s) >= A /\ Len(t) >= A
    BY <1>3, <1>5
  <2> DEFINE a == PlusDi(s)
             b == MinusDi(s)
             c == PlusDi(t)
             d == MinusDi(t)
             e == k - A + 1
             f == e - 1
             begin == A - 1
             x == Dx(a, b)
             y == Dx(c, d)
  <2>2. k >= A /\ e \in Nat \ {0} /\ f \in Nat /\ f >= begin /\ f - begin + 1 = k - (2 * A - 2)
    BY <1>2, <1>5
  <2>3. /\ a \in Seq(Int) /\ b \in Seq(Int) /\ Len(a) = Len(b)
        /\ (\A j \in DOMAIN a : a[j] >= 0) /\ (\A j \in DOMAIN b : b[j] >= 0)
    BY <2>1, DiType
  <2>4. /\ c \in Seq(Int) /\ d \in Seq(Int) /\ Len(c) = Len(d)
        /\ (\A j \in DOMAIN c : c[j] >= 0) /\ (\A j \in DOMAIN d : d[j] >= 0)
    BY <2>1, DiType
  <2>5. Agrees(a, c, e) /\ Agrees(b, d, e)
    BY <2>2, DiAgrees
  <2>6. BareAdx(s) = Wilder(x, begin, A) /\ BareAdx(t) = Wilder(y, begin, A)
    BY DEF BareAdx
  <2>7. begin \in Nat \ {0} /\ A \in Nat \ {0}
    BY PeriodTypes
  <2> HIDE DEF a, b, c, d, e, begin, A
  <2>8. Len(a) >= 1 /\ Len(c) >= 1
    <3>1. e <= Len(a) /\ e <= Len(c)
      BY <2>5 DEF Agrees
    <3>2. Len(a) \in Nat /\ Len(c) \in Nat
      BY <2>3, <2>4
    <3> QED
      BY <2>2, <3>1, <3>2
  <2>9. Agrees(x, y, f)
    BY <2>2, <2>3, <2>4, <2>5, DxAgrees
  <2>10. x \in Seq(Int) /\ y \in Seq(Int)
    BY <2>3, <2>4, <2>8, DxType
  <2> HIDE DEF x, y, f
  <2>11. Agrees(Wilder(x, begin, A), Wilder(y, begin, A), f - begin + 1)
    BY <2>2, <2>7, <2>9, <2>10, WilderAgrees
  <2>12. i - (2 * A - 2) \in 1..(k - (2 * A - 2))
    BY <1>2, <1>5 DEF A
  <2>13. Wilder(x, begin, A)[i - (2 * A - 2)] = Wilder(y, begin, A)[i - (2 * A - 2)]
    BY <2>2, <2>11, <2>12 DEF Agrees
  <2> QED
    BY <1>1, <2>1, <2>6, <2>13
<1> QED
  <2>1. i <= 2 * A - 2 \/ i > 2 * A - 2
    BY <1>2
  <2> QED
    BY <1>4, <1>5, <2>1

-----------------------------------------------------------------------------
(* RegimeScores: the label of a bar is of the bars up to it.               *)

LabelBar(bars, corr, before, m) ==
    IF m <= FirstLabelled THEN [i \in 1..m |-> "uncertain"]
    ELSE Append(before, Classified(ScoresOf(SubSeq(bars, 1, m), corr),
                                   IF m = FirstLabelled + 1 THEN None ELSE Last(before)))

LabelBars(bars, corr, g) ==
    \A m \in 0..Len(bars) : g[m] \in [1..m -> Labels] /\ g[m] = LabelBar(bars, corr, g[m - 1], m)

\* The first bar that is labelled has a number.
LEMMA FirstLabelledType == FirstLabelled \in Nat
<1> DEFINE S == {MinBars, TrendLookback, ErLookback + 1, VolWindow + MinVols}
<1>1. S \in SUBSET Nat /\ S # {}
  BY ScoresAssumption
<1>2. IsFiniteSet(S)
  <2>1. IsFiniteSet({}) /\ S = ((({} \union {MinBars}) \union {TrendLookback}) \union {ErLookback + 1}) \union {VolWindow + MinVols}
    BY FS_EmptySet
  <2> DEFINE a == {} \union {MinBars}
             b == a \union {TrendLookback}
             c == b \union {ErLookback + 1}
             d == c \union {VolWindow + MinVols}
  <2>2. IsFiniteSet(a)
    BY <2>1, FS_AddElement
  <2> HIDE DEF a
  <2>3. IsFiniteSet(b)
    BY <2>2, FS_AddElement
  <2> HIDE DEF b
  <2>4. IsFiniteSet(c)
    BY <2>3, FS_AddElement
  <2> HIDE DEF c
  <2>5. IsFiniteSet(d)
    BY <2>4, FS_AddElement
  <2> QED
    BY <2>1, <2>5 DEF a, b, c, d
<1>3. FirstLabelled = Max(S)
  BY DEF FirstLabelled
<1> HIDE DEF S
<1>4. S \in SUBSET Int
  BY <1>1
<1>5. Max(S) \in S
  BY <1>1, <1>2, <1>4, MaxIs
<1> QED
  BY <1>1, <1>3, <1>5

\* A bar is always given a label.
LEMMA ClassifiedAny ==
  ASSUME NEW s, NEW previous \in Labels \union {None}
  PROVE  Classified(s, previous) \in Labels
<1> DEFINE detected == RawLabel(s)
<1>1. detected \in Labels
  BY DEF RawLabel, IsStress, IsTrending, Labels, TrendStates, RangeStates, HaltStates
<1> HIDE DEF detected
<1>2. Classified(s, previous) \in {detected, "high_vol_trend", "stable_trend", "uncertain", "stable_range", "high_vol_chop"}
  BY DEF Classified, Labels, TrendStates, RangeStates, HaltStates, None, detected
<1> QED
  BY <1>1, <1>2 DEF Labels, TrendStates, RangeStates, HaltStates

\* One bar more gives one label more.
LEMMA LabelBarType ==
  ASSUME NEW bars, NEW corr, NEW m \in Nat \ {0}, NEW before \in [1..(m - 1) -> Labels]
  PROVE  LabelBar(bars, corr, before, m) \in [1..m -> Labels]
<1>1. CASE m <= FirstLabelled
  <2>1. "uncertain" \in Labels
    BY DEF Labels, HaltStates
  <2> QED
    BY <1>1, <2>1 DEF LabelBar
<1>2. CASE ~(m <= FirstLabelled)
  <2> DEFINE previous == IF m = FirstLabelled + 1 THEN None ELSE Last(before)
             new == Classified(ScoresOf(SubSeq(bars, 1, m), corr), previous)
  <2>1. before \in Seq(Labels) /\ Len(before) = m - 1
    OBVIOUS
  <2>2. previous \in Labels \union {None}
    <3>1. m # FirstLabelled + 1 => m - 1 \in 1..(m - 1)
      BY <1>2, FirstLabelledType
    <3> QED
      BY <2>1, <3>1 DEF Last
  <2> HIDE DEF previous
  <2>3. new \in Labels
    BY <2>2, ClassifiedAny
  <2>4. LabelBar(bars, corr, before, m) = Append(before, new)
    BY <1>2 DEF LabelBar, previous
  <2> HIDE DEF new
  <2>5. Append(before, new) \in Seq(Labels) /\ Len(Append(before, new)) = m
    BY <2>1, <2>3
  <2>6. Append(before, new) \in [1..m -> Labels]
    BY <2>5, LenProperties
  <2> QED
    BY <2>4, <2>6
<1> QED
  BY <1>1, <1>2

\* The labels of the bars exist, bar by bar.
LEMMA LabelHasBars ==
  ASSUME NEW S, NEW bars \in Seq(S), NEW corr
  PROVE  \E g : LabelBars(bars, corr, g) /\ LabelSeries(bars, corr) = g[Len(bars)]
<1> DEFINE n == Len(bars)
           C(g, i) == LabelBar(bars, corr, g[i - 1], i)
           r == CHOOSE g : g = [i \in 0..n |-> C(g, i)]
           W == [i \in 0..n |-> [1..i -> Labels]]
           F == [i \in 1..n |-> [b \in W[i - 1] |-> LabelBar(bars, corr, b, i)]]
           seed == [k \in 1..0 |-> "uncertain"]
<1>1. LabelSeries(bars, corr) = r[n]
  BY DEF LabelSeries, LabelBar
<1>2. n \in Nat /\ 0 <= FirstLabelled
  BY FirstLabelledType
<1> HIDE DEF n
<1>3. seed \in [1..0 -> Labels]
  BY DEF Labels, HaltStates
<1>4. \A b : LabelBar(bars, corr, b, 0) = seed
  BY <1>2 DEF LabelBar
<1> HIDE DEF seed
<1>5. Leads(F, W, n) /\ seed \in W[0]
  <2>1. ASSUME NEW i \in 1..n PROVE F[i] \in [W[i - 1] -> W[i]]
    <3>1. i \in Nat \ {0} /\ W[i - 1] = [1..(i - 1) -> Labels] /\ W[i] = [1..i -> Labels]
      BY <1>2
    <3> HIDE DEF W
    <3>2. \A b \in W[i - 1] : LabelBar(bars, corr, b, i) \in W[i]
      BY <3>1, LabelBarType
    <3> QED
      BY <3>2
  <2>2. seed \in W[0]
    BY <1>2, <1>3
  <2> HIDE DEF F, W
  <2> QED
    BY <2>1, <2>2 DEF Leads
<1>6. PICK g : Steps(F, seed, g, n) /\ \A i \in 0..n : g[i] \in W[i]
  <2> HIDE DEF F, W
  <2> QED
    BY <1>2, <1>5, StepsExist
<1>7. \A i \in 0..n : g[i] = C(g, i)
  <2> SUFFICES ASSUME NEW i \in 0..n PROVE g[i] = C(g, i)
    OBVIOUS
  <2>1. g[i] = IF i = 0 THEN seed ELSE F[i][g[i - 1]]
    <3> HIDE DEF F
    <3> QED
      BY <1>6 DEF Steps
  <2>2. CASE i = 0
    BY <1>4, <2>1, <2>2
  <2>3. CASE i # 0
    <3>1. i \in 1..n /\ i - 1 \in 0..n
      BY <1>2, <2>3
    <3>2. g[i - 1] \in W[i - 1]
      <4> HIDE DEF W
      <4> QED
        BY <1>6, <3>1
    <3>3. F[i][g[i - 1]] = LabelBar(bars, corr, g[i - 1], i)
      <4> HIDE DEF W
      <4> QED
        BY <3>1, <3>2
    <3> HIDE DEF F
    <3> QED
      BY <2>1, <2>3, <3>3
  <2> QED
    BY <2>2, <2>3
<1>8. g = [i \in 0..n |-> C(g, i)]
  <2>1. g = [i \in 0..n |-> g[i]]
    <3> HIDE DEF F
    <3> QED
      BY <1>6 DEF Steps
  <2> HIDE DEF C
  <2> QED
    BY <1>7, <2>1
<1>9. r = [i \in 0..n |-> C(r, i)]
  <2> HIDE DEF C
  <2> QED
    BY <1>8
<1>10. \A i \in 0..n : r[i] = C(r, i)
  <2> HIDE DEF C, r
  <2> QED
    BY <1>9
<1> HIDE DEF r
<1> DEFINE T == {i \in 0..n : r[i] \in [1..i -> Labels]}
<1>11. 0 \in T
  <2>1. 0 \in 0..n /\ r[0] = LabelBar(bars, corr, r[0 - 1], 0)
    BY <1>2, <1>10
  <2> QED
    BY <1>3, <1>4, <2>1
<1>12. ASSUME NEW i \in 1..n, i - 1 \in T PROVE i \in T
  <2>1. i \in Nat \ {0} /\ i \in 0..n /\ r[i - 1] \in [1..(i - 1) -> Labels]
    BY <1>2, <1>12
  <2>2. r[i] = LabelBar(bars, corr, r[i - 1], i)
    BY <1>10, <2>1
  <2> QED
    BY <2>1, <2>2, LabelBarType
<1>13. \A i \in 0..n : i \in T
  <2> HIDE DEF T
  <2> QED
    BY <1>2, <1>11, <1>12, Upward
<1> QED
  BY <1>1, <1>10, <1>13 DEF LabelBars, n

\* Labelling only ever appends a label.
LEMMA LabelsGrow ==
  ASSUME NEW S, NEW bars \in Seq(S), NEW corr, NEW g, LabelBars(bars, corr, g)
  PROVE  Growing(g, Labels, 0, Len(bars))
<1> DEFINE n == Len(bars)
<1>1. n \in Nat /\ FirstLabelled \in Nat
  BY FirstLabelledType
<1>2. \A m \in 0..n : g[m] \in [1..m -> Labels] /\ g[m] = LabelBar(bars, corr, g[m - 1], m)
  BY DEF LabelBars
<1> HIDE DEF n
<1>3. ASSUME NEW m \in 1..n, NEW j \in 1..(m + 0 - 1) PROVE g[m][j] = g[m - 1][j]
  <2>1. m \in 0..n /\ m - 1 \in 0..n /\ j \in 1..(m - 1) /\ j \in 1..m /\ m \in Nat
    BY <1>1
  <2>2. CASE m <= FirstLabelled
    <3>1. m - 1 <= FirstLabelled
      BY <1>1, <2>1, <2>2
    <3>2. g[m] = [i \in 1..m |-> "uncertain"] /\ g[m - 1] = [i \in 1..(m - 1) |-> "uncertain"]
      <4>1. g[m - 1] = LabelBar(bars, corr, g[(m - 1) - 1], m - 1) /\ g[m] = LabelBar(bars, corr, g[m - 1], m)
        BY <1>2, <2>1
      <4> QED
        BY <2>2, <3>1, <4>1 DEF LabelBar
    <3> QED
      BY <2>1, <3>2
  <2>3. CASE ~(m <= FirstLabelled)
    <3> DEFINE x == Classified(ScoresOf(SubSeq(bars, 1, m), corr),
                               IF m = FirstLabelled + 1 THEN None ELSE Last(g[m - 1]))
               before == g[m - 1]
    <3>1. g[m] = Append(before, x)
      BY <1>2, <2>1, <2>3 DEF LabelBar
    <3>2. before \in [1..(m - 1) -> Labels]
      BY <1>2, <2>1
    <3> HIDE DEF x, before
    <3>3. before \in Seq(Labels) /\ Len(before) = m - 1
      BY <2>1, <3>2
    <3>4. g[m][j] = before[j]
      BY <2>1, <3>1, <3>3
    <3> QED
      BY <3>4 DEF before
  <2> QED
    BY <2>2, <2>3
<1>4. \A m \in 0..n : g[m] \in [1..(m + 0) -> Labels]
  <2>1. \A m \in 0..n : m + 0 = m
    BY <1>1
  <2> QED
    BY <1>2, <2>1
<1>5. \A m \in 1..n : \A j \in 1..(m + 0 - 1) : g[m][j] = g[m - 1][j]
  BY <1>3
<1> QED
  BY <1>4, <1>5 DEF Growing, n

\* strategies: _regime_labels does not look at the bars after.
LEMMA LabelsAgree ==
  ASSUME NEW S, NEW s \in Seq(S), NEW t \in Seq(S), NEW corr, NEW k \in Nat, Agrees(s, t, k), NEW i \in 1..k
  PROVE  LabelSeries(s, corr)[i] = LabelSeries(t, corr)[i]
<1> DEFINE p == Len(s)
           q == Len(t)
<1>1. p \in Nat /\ q \in Nat /\ k <= p /\ k <= q
  BY DEF Agrees
<1>2. PICK a : LabelBars(s, corr, a) /\ LabelSeries(s, corr) = a[p]
  BY LabelHasBars
<1>3. PICK b : LabelBars(t, corr, b) /\ LabelSeries(t, corr) = b[q]
  BY LabelHasBars
<1>4. ASSUME NEW m \in 0..k
      PROVE  a[m] = LabelBar(s, corr, a[m - 1], m) /\ b[m] = LabelBar(t, corr, b[m - 1], m)
  <2>1. m \in 0..p /\ m \in 0..q
    BY <1>1
  <2> QED
    BY <1>2, <1>3, <2>1 DEF LabelBars
<1>5. ASSUME NEW m \in 0..k PROVE SubSeq(s, 1, m) = SubSeq(t, 1, m)
  BY SameBeginning
<1>6. Growing(a, Labels, 0, p) /\ Growing(b, Labels, 0, q)
  BY <1>2, <1>3, LabelsGrow
<1> HIDE DEF p, q
<1> DEFINE T == {m \in 0..k : a[m] = b[m]}
<1>7. 0 \in T
  <2>1. 0 \in 0..k /\ 0 <= FirstLabelled
    BY FirstLabelledType
  <2> QED
    BY <1>4, <2>1 DEF LabelBar
<1>8. ASSUME NEW m \in 1..k, m - 1 \in T PROVE m \in T
  <2>1. m \in 0..k /\ a[m - 1] = b[m - 1]
    BY <1>8
  <2>2. SubSeq(s, 1, m) = SubSeq(t, 1, m)
    BY <1>5, <2>1
  <2> QED
    BY <1>4, <2>1, <2>2 DEF LabelBar
<1>9. \A m \in 0..k : m \in T
  <2> HIDE DEF T
  <2> QED
    BY <1>7, <1>8, Upward
<1>10. a[k] = b[k]
  BY <1>9
<1>11. a[p][i] = a[k][i] /\ b[q][i] = b[k][i]
  <2> DEFINE c == 0
  <2>1. c \in Nat /\ k \in 0..p /\ k \in 0..q /\ i \in 1..(k + c)
    BY <1>1
  <2>2. Growing(a, Labels, c, p) /\ Growing(b, Labels, c, q)
    BY <1>6
  <2> HIDE DEF c
  <2>3. \A j \in 1..(k + c) : a[p][j] = a[k][j]
    BY <1>1, <2>1, <2>2, PrefixKept
  <2>4. \A j \in 1..(k + c) : b[q][j] = b[k][j]
    BY <1>1, <2>1, <2>2, PrefixKept
  <2> QED
    BY <2>1, <2>3, <2>4
<1> QED
  BY <1>2, <1>3, <1>10, <1>11

-----------------------------------------------------------------------------
(* Backtest: the position of a bar is of the bars before it.               *)

\* The ADX a backtest reads is the indicator of the features.
AdxIsComputed == \A bars \in Seq(Int) : Adx(bars) = AdxSeries(bars)

\* build_trend_signals only ever appends a signal.
LEMMA TrendGrows ==
  ASSUME NEW S, NEW bars \in Seq(S), NEW cfg, cfg["ma_long"] \in Nat, NEW g, TrendBars(bars, cfg, g)
  PROVE  Growing(g, Sides, 0, Len(bars))
<1> DEFINE n == Len(bars)
           warm == cfg["ma_long"] + WarmUp
<1>1. n \in Nat /\ warm \in Nat
  BY BacktestAssumption
<1>2. \A m \in 0..n : g[m] \in [1..m -> Sides] /\ g[m] = TrendBar(bars, cfg, g[m - 1], m)
  BY DEF TrendBars
<1> HIDE DEF n
<1>3. ASSUME NEW m \in 1..n, NEW j \in 1..(m + 0 - 1) PROVE g[m][j] = g[m - 1][j]
  <2>1. m \in 0..n /\ m - 1 \in 0..n /\ j \in 1..(m - 1) /\ j \in 1..m /\ m \in Nat /\ m # 0
    BY <1>1
  <2>2. CASE m < warm
    <3>1. m - 1 < warm
      BY <1>1, <2>1, <2>2
    <3>2. g[m] = [i \in 1..m |-> 0] /\ g[m - 1] = [i \in 1..(m - 1) |-> 0]
      <4>1. g[m - 1] = TrendBar(bars, cfg, g[(m - 1) - 1], m - 1) /\ g[m] = TrendBar(bars, cfg, g[m - 1], m)
        BY <1>2, <2>1
      <4> QED
        BY <2>2, <3>1, <4>1 DEF TrendBar
    <3> QED
      BY <2>1, <3>2
  <2>3. CASE ~(m < warm)
    <3> DEFINE x == IF m = Len(bars) THEN 0
                    ELSE NextSide(IF m = 1 THEN 0 ELSE Last(g[m - 1]),
                                  TrendSide(SubSeq(bars, 1, m), Adx(bars)[m], cfg), Adx(bars)[m], cfg)
               before == g[m - 1]
    <3>1. g[m] = Append(before, x)
      BY <1>2, <2>1, <2>3 DEF TrendBar
    <3>2. before \in [1..(m - 1) -> Sides]
      BY <1>2, <2>1
    <3> HIDE DEF x, before
    <3>3. before \in Seq(Sides) /\ Len(before) = m - 1
      BY <2>1, <3>2
    <3>4. g[m][j] = before[j]
      BY <2>1, <3>1, <3>3
    <3> QED
      BY <3>4 DEF before
  <2> QED
    BY <2>2, <2>3
<1>4. \A m \in 0..n : g[m] \in [1..(m + 0) -> Sides]
  <2>1. \A m \in 0..n : m + 0 = m
    BY <1>1
  <2> QED
    BY <1>2, <2>1
<1>5. \A m \in 1..n : \A j \in 1..(m + 0 - 1) : g[m][j] = g[m - 1][j]
  BY <1>3
<1> QED
  BY <1>4, <1>5 DEF Growing, n

\* build_trend_signals up to a bar, when there are more
LEMMA TrendAgrees ==
  ASSUME AdxIsComputed, NEW s \in Seq(Int), NEW t \in Seq(Int), NEW cfg, cfg["ma_long"] \in Nat,
         NEW k \in Nat, Agrees(s, t, k), k < Len(s), k < Len(t), NEW i \in 1..k
  PROVE  TrendSignals(s, cfg)[i] = TrendSignals(t, cfg)[i]
<1> DEFINE p == Len(s)
           q == Len(t)
<1>1. p \in Nat /\ q \in Nat /\ k < p /\ k < q
  OBVIOUS
<1>2. PICK a : TrendBars(s, cfg, a) /\ TrendSignals(s, cfg) = a[p]
  BY TrendHasBars
<1>3. PICK b : TrendBars(t, cfg, b) /\ TrendSignals(t, cfg) = b[q]
  BY TrendHasBars
<1>4. ASSUME NEW m \in 0..k
      PROVE  a[m] = TrendBar(s, cfg, a[m - 1], m) /\ b[m] = TrendBar(t, cfg, b[m - 1], m) /\ m # p /\ m # q
  <2>1. m \in 0..p /\ m \in 0..q /\ m # p /\ m # q
    BY <1>1
  <2> QED
    BY <1>2, <1>3, <2>1 DEF TrendBars
<1>5. ASSUME NEW m \in 0..k PROVE SubSeq(s, 1, m) = SubSeq(t, 1, m)
  BY SameBeginning
<1>6. ASSUME NEW m \in 1..k PROVE Adx(s)[m] = Adx(t)[m]
  BY AdxIsCausal DEF AdxIsComputed
<1>7. Growing(a, Sides, 0, p) /\ Growing(b, Sides, 0, q)
  BY <1>2, <1>3, TrendGrows
<1> DEFINE T == {m \in 0..k : a[m] = b[m]}
<1>8. 0 \in T
  <2>1. 0 \in 0..k
    OBVIOUS
  <2> QED
    BY <1>4, <2>1 DEF TrendBar
<1>9. ASSUME NEW m \in 1..k, m - 1 \in T PROVE m \in T
  <2>1. m \in 0..k /\ a[m - 1] = b[m - 1]
    BY <1>9
  <2>2. SubSeq(s, 1, m) = SubSeq(t, 1, m) /\ Adx(s)[m] = Adx(t)[m]
    BY <1>5, <1>6, <2>1
  <2>3. m # Len(s) /\ m # Len(t)
    BY <1>4, <2>1
  <2>4. TrendBar(s, cfg, a[m - 1], m) = TrendBar(t, cfg, b[m - 1], m)
    BY <2>1, <2>2, <2>3 DEF TrendBar
  <2> QED
    BY <1>4, <2>1, <2>4
<1> HIDE DEF p, q
<1>10. \A m \in 0..k : m \in T
  <2> HIDE DEF T
  <2> QED
    BY <1>8, <1>9, Upward
<1>11. a[k] = b[k]
  BY <1>10
<1>12. a[p][i] = a[k][i] /\ b[q][i] = b[k][i]
  <2> DEFINE c == 0
  <2>1. c \in Nat /\ k \in 0..p /\ k \in 0..q /\ i \in 1..(k + c)
    BY <1>1
  <2>2. Growing(a, Sides, c, p) /\ Growing(b, Sides, c, q)
    BY <1>7
  <2> HIDE DEF c
  <2>3. \A j \in 1..(k + c) : a[p][j] = a[k][j]
    BY <1>1, <2>1, <2>2, PrefixKept
  <2>4. \A j \in 1..(k + c) : b[q][j] = b[k][j]
    BY <1>1, <2>1, <2>2, PrefixKept
  <2> QED
    BY <2>1, <2>3, <2>4
<1> QED
  BY <1>2, <1>3, <1>11, <1>12

\* The signals of every strategy, masked or not
LEMMA SignalsAgree ==
  ASSUME AdxIsComputed, NEW s \in Seq(Int), NEW t \in Seq(Int), NEW cfg, cfg["ma_long"] \in Nat,
         NEW name \in ThreeStrategies, NEW m,
         NEW k \in Nat, Agrees(s, t, k), k < Len(s), k < Len(t), NEW i \in 1..k
  PROVE  SignalsOf(s, name, cfg, m)[i] = SignalsOf(t, name, cfg, m)[i]
<1>1. i \in 1..Len(s) /\ i \in 1..Len(t) /\ i # Len(s) /\ i # Len(t) /\ i \in 0..k
  OBVIOUS
<1>2. SubSeq(s, 1, i) = SubSeq(t, 1, i)
  <2> DEFINE V == Int
  <2>1. s \in Seq(V) /\ t \in Seq(V)
    OBVIOUS
  <2>2. k \in Nat /\ Agrees(s, t, k) /\ i \in 0..k
    BY <1>1
  <2> HIDE DEF V
  <2> QED
    BY ONLY <2>1, <2>2, SameBeginning, Zenon
<1>3. RawSignals(s, name, cfg, m)[i] = RawSignals(t, name, cfg, m)[i]
  <2>1. CASE name = "trend_following"
    BY <2>1, TrendAgrees DEF RawSignals
  <2>2. CASE name = "mean_reversion"
    <3>1. ReversionSignals(s, cfg)[i] = ReversionSignals(t, cfg)[i]
      BY <1>1, <1>2 DEF ReversionSignals
    <3> QED
      BY <2>2, <3>1 DEF RawSignals
  <2>3. CASE name = "feature_score"
    <3>1. ScoreSignals(s, cfg, m)[i] = ScoreSignals(t, cfg, m)[i]
      BY <1>1, <1>2 DEF ScoreSignals
    <3> QED
      BY <2>3, <3>1 DEF RawSignals
  <2> QED
    BY <2>1, <2>2, <2>3 DEF ThreeStrategies
<1>4. RegimeLabels(s)[i] = RegimeLabels(t)[i]
  BY LabelsAgree DEF RegimeLabels
<1> DEFINE a == RawSignals(s, name, cfg, m)
           b == RawSignals(t, name, cfg, m)
<1>5. Conditioned /\ name # "feature_score" => i \in 1..Len(a) /\ i \in 1..Len(b)
  <2> SUFFICES ASSUME Conditioned, name # "feature_score" PROVE i \in 1..Len(a) /\ i \in 1..Len(b)
    OBVIOUS
  <2>1. TrendSignals(s, cfg) \in [1..Len(s) -> Sides] /\ TrendSignals(t, cfg) \in [1..Len(t) -> Sides]
    <3>1. PICK g : TrendBars(s, cfg, g) /\ TrendSignals(s, cfg) = g[Len(s)]
      BY TrendHasBars
    <3>2. PICK h : TrendBars(t, cfg, h) /\ TrendSignals(t, cfg) = h[Len(t)]
      BY TrendHasBars
    <3>3. Len(s) \in 0..Len(s) /\ Len(t) \in 0..Len(t)
      OBVIOUS
    <3> QED
      BY <3>1, <3>2, <3>3 DEF TrendBars
  <2>2. DOMAIN ReversionSignals(s, cfg) = 1..Len(s) /\ DOMAIN ReversionSignals(t, cfg) = 1..Len(t)
    BY DEF ReversionSignals
  <2>3. a \in [1..Len(s) -> Sides] /\ b \in [1..Len(t) -> Sides]
    <3>1. ReversionSignals(s, cfg) \in [1..Len(s) -> Sides] /\ ReversionSignals(t, cfg) \in [1..Len(t) -> Sides]
      BY DEF ReversionSignals, ReversionSide, Sides
    <3> QED
      BY <2>1, <3>1 DEF RawSignals, ThreeStrategies
  <2>4. Len(s) \in Nat /\ Len(t) \in Nat
    OBVIOUS
  <2> HIDE DEF a, b
  <2>5. Len(a) = Len(s) /\ Len(b) = Len(t)
    BY <2>3, <2>4
  <2> QED
    BY <1>1, <2>5
<1> HIDE DEF a, b
<1>6. \A labels, others, allowed :
         labels[i] = others[i] /\ a[i] = b[i] /\ i \in 1..Len(a) /\ i \in 1..Len(b)
           => Masked(a, labels, allowed)[i] = Masked(b, others, allowed)[i]
  BY DEF Masked
<1>7. CASE Conditioned /\ name # "feature_score"
  <2> DEFINE allowed == IF name = "trend_following" THEN TrendStates ELSE RangeStates
             l == RegimeLabels(s)
             o == RegimeLabels(t)
  <2>1. SignalsOf(s, name, cfg, m) = Masked(a, l, allowed) /\ SignalsOf(t, name, cfg, m) = Masked(b, o, allowed)
    BY <1>7 DEF SignalsOf, a, b
  <2>2. l[i] = o[i] /\ a[i] = b[i]
    BY <1>3, <1>4 DEF a, b
  <2> HIDE DEF allowed, l, o
  <2> QED
    BY <1>5, <1>6, <1>7, <2>1, <2>2
<1>8. CASE ~(Conditioned /\ name # "feature_score")
  BY <1>3, <1>8 DEF SignalsOf
<1> QED
  BY <1>7, <1>8

\* The backtest only ever appends a position.
LEMMA HeldGrows ==
  ASSUME NEW signals \in Seq(Sides), NEW flat, NEW g, HeldBars(signals, flat, g)
  PROVE  Growing(g, Sides, 1, Len(signals))
<1> DEFINE n == Len(signals)
<1>1. n \in Nat
  OBVIOUS
<1>2. \A i \in 0..n : g[i] \in [1..(i + 1) -> Sides] /\ g[i] = HeldBar(signals, flat, g[i - 1], i)
  BY DEF HeldBars
<1> HIDE DEF n
<1>3. ASSUME NEW i \in 1..n, NEW j \in 1..(i + 1 - 1) PROVE g[i][j] = g[i - 1][j]
  <2>1. i \in 0..n /\ i - 1 \in 0..n /\ i # 0 /\ (i - 1) + 1 = i /\ j \in 1..i /\ i \in Nat
    BY <1>1
  <2> DEFINE before == g[i - 1]
             x == IF flat \/ signals[i] # 0 THEN signals[i] ELSE Last(before)
  <2>2. before \in [1..i -> Sides]
    BY <1>2, <2>1
  <2>3. g[i] = Append(before, x)
    BY <1>2, <2>1 DEF HeldBar
  <2> HIDE DEF x, before
  <2>4. before \in Seq(Sides) /\ Len(before) = i
    BY <2>1, <2>2
  <2>5. g[i][j] = before[j]
    BY <2>1, <2>3, <2>4
  <2> QED
    BY <2>5 DEF before
<1>4. \A i \in 1..n : \A j \in 1..(i + 1 - 1) : g[i][j] = g[i - 1][j]
  BY <1>3
<1> QED
  BY <1>2, <1>4 DEF Growing, n

\* signals_to_positions of fewer signals is the beginning of that of more.
LEMMA HeldBegins ==
  ASSUME NEW s \in Seq(Sides), NEW t \in Seq(Sides), NEW flat, NEW k \in Nat, k = Len(t), Agrees(s, t, k)
  PROVE  HeldPositions(t, flat) = SubSeq(HeldPositions(s, flat), 1, k + 1)
<1> DEFINE n == Len(s)
<1>1. n \in Nat /\ k <= n /\ k \in 0..n /\ k \in 0..k
  BY DEF Agrees
<1>2. PICK a : HeldBars(s, flat, a) /\ HeldPositions(s, flat) = a[n]
  BY HeldHasBars
<1>3. PICK b : HeldBars(t, flat, b) /\ HeldPositions(t, flat) = b[k]
  BY HeldHasBars
<1>4. ASSUME NEW i \in 0..k
      PROVE  a[i] = HeldBar(s, flat, a[i - 1], i) /\ b[i] = HeldBar(t, flat, b[i - 1], i)
  <2>1. i \in 0..n
    BY <1>1
  <2> QED
    BY <1>2, <1>3, <2>1 DEF HeldBars
<1>5. Growing(a, Sides, 1, n)
  BY <1>2, HeldGrows
<1>6. b[k] \in [1..(k + 1) -> Sides] /\ a[n] \in [1..(n + 1) -> Sides]
  <2>1. n \in 0..n
    BY <1>1
  <2> QED
    BY <1>1, <1>2, <1>3, <2>1 DEF HeldBars
<1> HIDE DEF n
<1> DEFINE T == {i \in 0..k : a[i] = b[i]}
<1>7. 0 \in T
  <2>1. 0 \in 0..k
    OBVIOUS
  <2> QED
    BY <1>4, <2>1 DEF HeldBar
<1>8. ASSUME NEW i \in 1..k, i - 1 \in T PROVE i \in T
  <2>1. i \in 0..k /\ a[i - 1] = b[i - 1] /\ s[i] = t[i]
    BY <1>8 DEF Agrees
  <2>2. HeldBar(s, flat, a[i - 1], i) = HeldBar(t, flat, b[i - 1], i)
    BY <2>1 DEF HeldBar
  <2> QED
    BY <1>4, <2>1, <2>2
<1>9. \A i \in 0..k : i \in T
  <2> HIDE DEF T
  <2> QED
    BY <1>7, <1>8, Upward
<1>10. a[k] = b[k]
  BY <1>1, <1>9
<1>11. \A j \in 1..(k + 1) : a[n][j] = b[k][j]
  <2> DEFINE c == 1
  <2>1. c \in Nat /\ Growing(a, Sides, c, n)
    BY <1>5
  <2> HIDE DEF c
  <2>2. \A j \in 1..(k + c) : a[n][j] = a[k][j]
    BY <1>1, <2>1, PrefixKept
  <2> QED
    BY <1>10, <2>2 DEF c
<1> DEFINE u == a[n]
           v == b[k]
<1>12. u \in Seq(Sides) /\ Len(u) = n + 1
  <2>1. u \in [1..(n + 1) -> Sides]
    BY <1>6
  <2> HIDE DEF u
  <2> QED
    BY <1>1, <2>1
<1>13. SubSeq(u, 1, k + 1) = [j \in 1..(k + 1) |-> u[j]]
  <2> HIDE DEF u
  <2> QED
    BY <1>1, <1>12
<1>14. v = [j \in 1..(k + 1) |-> v[j]] /\ \A j \in 1..(k + 1) : u[j] = v[j]
  BY <1>6, <1>11
<1>15. v = SubSeq(u, 1, k + 1)
  <2> HIDE DEF u, v
  <2> QED
    BY <1>13, <1>14
<1> QED
  BY <1>2, <1>3, <1>15

\* What a backtest holds at a bar is told by the bars before it, for each of the strategies.
LEMMA HoldsPast ==
  ASSUME AdxIsComputed, NEW bars \in Seq(Int), NEW name \in ThreeStrategies, NEW cfg, cfg["ma_long"] \in Nat, NEW m,
         NEW moves \in SUBSET Int
  PROVE  HoldsFromPast(bars, name, cfg, m, moves)
<1> DEFINE flat == ZeroMeansFlat(name)
           sig(s) == SignalsOf(s, name, cfg, m)
           read(s) == SubSeq(sig(s), 1, Len(s) - 1)
<1> SUFFICES ASSUME NEW k \in 1..(Len(bars) - 1), NEW move \in moves
             PROVE  HeldPositions(read(Append(SubSeq(bars, 1, k), bars[k] + move)), flat)
                      = SubSeq(HeldPositions(read(bars), flat), 1, k + 1)
  BY DEF HoldsFromPast
<1> DEFINE n == Len(bars)
           w == SubSeq(bars, 1, k)
           more == Append(w, bars[k] + move)
<1>1. n \in Nat /\ k \in Nat /\ k < n /\ bars[k] + move \in Int
  OBVIOUS
<1>2. w \in Seq(Int) /\ Len(w) = k /\ \A i \in 1..k : w[i] = bars[i]
  BY <1>1
<1> HIDE DEF w
<1>3. more \in Seq(Int) /\ Len(more) = k + 1 /\ \A i \in 1..k : more[i] = bars[i]
  BY <1>1, <1>2
<1> HIDE DEF more
<1>4. Agrees(bars, more, k) /\ k < Len(more) /\ k < Len(bars)
  BY <1>1, <1>3 DEF Agrees
<1> DEFINE a == sig(bars)
           b == sig(more)
<1>5. a \in [1..n -> Sides] /\ b \in [1..(k + 1) -> Sides]
  <2>1. a \in [1..n -> Sides]
    BY SignalsType
  <2>2. b \in [1..Len(more) -> Sides]
    BY <1>3, SignalsType
  <2> QED
    BY <1>3, <2>1, <2>2
<1>6. \A i \in 1..k : a[i] = b[i]
  <2> HIDE DEF n
  <2>1. bars \in Seq(Int) /\ more \in Seq(Int) /\ cfg["ma_long"] \in Nat /\ k \in Nat
    BY <1>1, <1>3
  <2>2. \A i \in 1..k : SignalsOf(bars, name, cfg, m)[i] = SignalsOf(more, name, cfg, m)[i]
    BY <1>4, <2>1, SignalsAgree
  <2> QED
    BY <2>2
<1> DEFINE s == SubSeq(a, 1, n - 1)
           t == SubSeq(b, 1, k)
<1>7. read(bars) = s /\ read(more) = t
  BY <1>1, <1>3
<1> HIDE DEF a, b, read
<1>8. a \in Seq(Sides) /\ b \in Seq(Sides) /\ Len(a) = n /\ Len(b) = k + 1
  <2>1. n \in Nat /\ k + 1 \in Nat
    BY <1>1
  <2> HIDE DEF n
  <2> QED
    BY <1>5, <2>1
<1>9. /\ s \in Seq(Sides) /\ t \in Seq(Sides) /\ Len(s) = n - 1 /\ Len(t) = k
      /\ (\A i \in 1..(n - 1) : s[i] = a[i]) /\ (\A i \in 1..k : t[i] = b[i])
  BY <1>1, <1>8
<1> HIDE DEF s, t, n
<1>10. Agrees(s, t, k)
  <2>1. k <= Len(s) /\ k <= Len(t)
    BY <1>1, <1>9
  <2>2. \A i \in 1..k : i \in 1..(n - 1)
    BY <1>1
  <2> QED
    BY <1>6, <1>9, <2>1, <2>2 DEF Agrees
<1>11. HeldPositions(t, flat) = SubSeq(HeldPositions(s, flat), 1, k + 1)
  BY <1>1, <1>9, <1>10, HeldBegins
<1> QED
  BY <1>7, <1>11 DEF more, w

\* backtest/engine.py: no look-ahead, for histories of any length and any parameters; the
\* indicators of the last bar are of the bars they are given, and the ADX of a bar is
\* the one the features compute.
THEOREM MatrixNoLookAhead ==
  ASSUME AdxIsComputed
  PROVE  MatrixSpec => []NoLookAhead
<1>1. Searched => NoLookAhead
  <2> SUFFICES ASSUME Searched, phase = "matrix", NEW name \in ToSet(Strategies),
                      NEW m \in {"momentum", "mean_reversion"}
               PROVE  HoldsFromPast(closes, name, BaseConfig, m, Moves)
    BY DEF NoLookAhead
  <2>1. name \in ThreeStrategies
    BY MatrixAssumption DEF ToSet, ThreeStrategies
  <2> QED
    BY <2>1, MatrixAssumption, HoldsPast DEF Searched
<1> QED
  BY <1>1, AlwaysSearched, PTL
=============================================================================
