--------------------------- MODULE DataSyncProofs ---------------------------
(***************************************************************************)
(* Proofs about DataSync: type correctness, that what the store holds of a *)
(* series is what the broker had, and that a completed run left every      *)
(* series current, for any number of series, any depth of history, any     *)
(* number of retries and any faults.                                       *)
(***************************************************************************)
EXTENDS DataSync, FiniteSetTheorems, SequenceTheorems, WellFoundedInduction, TLAPS

\* A run lasts at most one bar, and nothing is newer than the forming bar.
Clock ==
    /\ begun <= now
    /\ stage # "idle" => now <= begun + 1
    /\ \A s \in Series : bars[s] \subseteq 0..now
    /\ got \subseteq 0..now

\* No bar is newer.
Top(B, m) == \A b \in B : b <= m

\* What a series' batch is good for, stage by stage.
Batch ==
    /\ stage \in {"idle", "resolve", "deep", "finish"} => got = {} /\ tip = -1 /\ ~thinned
    /\ stage = "tip" => tip = -1 /\ Stored # {}
    /\ stage \in {"range", "fallback"} => tip # -1 /\ Stored # {}
    /\ stage = "store" => got # {} /\ (tip = -1 => Stored = {})
    /\ tip # -1 => /\ begun <= tip /\ tip <= now /\ Stored \subseteq 0..tip /\ tip \in got
                   /\ ~thinned => \A b \in 0..tip : b > tip - TipCount => b \in got
    /\ got # {} => \E m \in soft : begun <= m /\ Top(got, m)
    /\ \A b \in soft : begun <= b
    /\ ~thinned => Contiguous(got)
    /\ stage = "store" /\ ~thinned /\ Stored # {} /\ NeedRange(tip) => Max(Stored) \in got

\* A series without a hole: its newest bar was read while it was forming, and
\* unless a tip missed them no other than the bar before was.
Sound(s) ==
    /\ Contiguous(bars[s])
    /\ bars[s] # {} => \E m \in forming[s] : /\ Top(bars[s], m)
                                             /\ s \notin outdated => \A f \in forming[s] : f >= m - 1

SeriesSound ==
    \A s \in Series : forming[s] \subseteq bars[s] /\ (s \notin holed => Sound(s))

Reached(s) == \E b \in bars[s] : b >= begun

\* While nothing has failed the run leaves every series behind it current.
Progress ==
    /\ stage # "idle" => status = "running"
    /\ stage # "idle" /\ ~errors /\ ~rejected =>
         \A i \in 1..Len(SeriesSeq) : stage = "finish" \/ i < cursor => Reached(SeriesSeq[i])
    /\ status = "completed" /\ ~rejected => \A s \in Series : Reached(s)

IInv == TypeOK /\ Clock /\ Batch /\ SeriesSound /\ Progress

-----------------------------------------------------------------------------
(* Sets of bars                                                            *)

LEMMA Constants ==
  /\ History \in Nat /\ Tip \in Nat /\ TipCap \in Nat /\ MaxRetries \in Nat /\ MaxBar \in Nat
  /\ Tip > 1 /\ FaultBound \in Nat
  /\ History > 0 /\ TipCap > 0 /\ MaxRetries > 0 /\ MaxBar > 0 /\ StoredAtStart \subseteq -1..MaxBar - 1
  BY DataSyncAssumption

LEMMA Count == Len(SeriesSeq) \in Nat /\ Len(SeriesSeq) > 0
  BY DataSyncAssumption, LenProperties

\* A set of bars that is not empty has a newest one: it is the bar with the fewest
\* newer bars, and sets of newer bars are well-founded.
LEMMA HasMax ==
  ASSUME NEW n \in Nat, NEW S, S \subseteq 0..n, S # {}
  PROVE  Max(S) \in S /\ \A x \in S : x <= Max(S)
  <1> DEFINE Newer(x) == {y \in S : y > x}
             Sets == {Newer(x) : x \in S}
             R == StrictSubsetOrdering(S)
  <1>1. IsFiniteSet(S)
    BY FS_Interval, FS_Subset, 0 \in Int, n \in Int
  <1>2. IsWellFoundedOn(R, FiniteSubsetsOf(S))
    BY FS_StrictSubsetOrderingWellFounded
  <1>3. Sets \subseteq FiniteSubsetsOf(S) /\ Sets # {}
    <2>1. \A x \in S : Newer(x) \subseteq S /\ IsFiniteSet(Newer(x))
      BY <1>1, FS_Subset
    <2>2. QED
      BY <2>1 DEF FiniteSubsetsOf
  <1>4. PICK N \in Sets : \A M \in Sets : ~(<<M, N>> \in R)
    <2> HIDE DEF Sets, R
    <2>1. QED
      BY <1>2, <1>3, WFMin
  <1>5. PICK x \in S : N = Newer(x)
    BY <1>4
  <1>6. \A y \in S : y <= x
    <2> SUFFICES ASSUME NEW y \in S, y > x PROVE FALSE
      BY SMT
    <2>1. y \in Newer(x) /\ y \notin Newer(y)
      BY SMT
    <2>2. \A z \in Newer(y) : z \in Newer(x)
      BY SMT
    <2>3. Newer(y) \subseteq Newer(x) /\ Newer(y) # Newer(x) /\ Newer(x) \subseteq S
      BY <2>1, <2>2
    <2>4. <<Newer(y), Newer(x)>> \in R
      <3> HIDE DEF Newer
      <3>1. QED
        BY <2>3 DEF StrictSubsetOrdering
    <2>5. QED
      BY <1>4, <1>5, <2>4
  <1>7. \A y \in S : x >= y
    BY <1>6, SMT
  <1>8. Max(S) \in S /\ \A y \in S : Max(S) >= y
    BY <1>5, <1>7 DEF Max
  <1>9. QED
    BY <1>8, SMT

LEMMA SmallerOf ==
  ASSUME NEW x \in Nat, NEW y \in Nat
  PROVE  Min({x, y}) \in {x, y}
  <1>1. \E m \in {x, y} : \A z \in {x, y} : m <= z
    BY SMT
  <1>2. QED
    BY <1>1 DEF Min

\* Two sets without a hole that touch have no hole together.
LEMMA Join ==
  ASSUME NEW A, NEW B, A \subseteq Nat, B \subseteq Nat, Contiguous(A), Contiguous(B),
         NEW a \in A, NEW b \in B, a <= b + 1, b <= a + 1
  PROVE  Contiguous(A \cup B)
  <1> SUFFICES ASSUME NEW x \in A \cup B, NEW y \in A \cup B, NEW z \in x..y
               PROVE  z \in A \cup B
    BY DEF Contiguous
  <1>0. x \in Nat /\ y \in Nat /\ z \in Int /\ a \in Nat /\ b \in Nat /\ x <= z /\ z <= y
    BY SMT
  <1>1. CASE x \in A /\ y \in A
    BY <1>1 DEF Contiguous
  <1>2. CASE x \in B /\ y \in B
    BY <1>2 DEF Contiguous
  <1>3. CASE x \in A /\ y \in B
    <2>1. z \in x..a \/ z \in b..y
      BY <1>0, SMT
    <2>2. QED
      BY <1>3, <2>1 DEF Contiguous
  <1>4. CASE x \in B /\ y \in A
    <2>1. z \in x..b \/ z \in a..y
      BY <1>0, SMT
    <2>2. QED
      BY <1>4, <2>1 DEF Contiguous
  <1>5. QED
    BY <1>1, <1>2, <1>3, <1>4

\* What a fetch asks for ends with the forming bar and has no hole.
LEMMA NewestBars ==
  ASSUME now \in Nat, NEW n \in Nat, n > 0
  PROVE  now \in Newest(n) /\ Newest(n) \subseteq 0..now /\ Contiguous(Newest(n))
  <1>1. now \in Newest(n) /\ Newest(n) \subseteq 0..now
    BY SMT DEF Newest
  <1>2. \A x, y \in Newest(n) : \A z \in x..y : z \in Newest(n)
    BY SMT DEF Newest
  <1>3. QED
    BY <1>1, <1>2 DEF Contiguous

LEMMA Tips == TypeOK => /\ TipCount \in Nat /\ TipCount > 0
                        /\ Current \in Series /\ Stored \subseteq 0..MaxBar
                        /\ (Stored = {} => Short) /\ (~Short => TipCount = Tip)
  <1> SUFFICES ASSUME TypeOK
               PROVE  /\ TipCount \in Nat /\ TipCount > 0
                      /\ Current \in Series /\ Stored \subseteq 0..MaxBar
                      /\ (Stored = {} => Short) /\ (~Short => TipCount = Tip)
    OBVIOUS
  <1>1. Min({History, TipCap}) \in Nat /\ Min({History, TipCap}) > 0
    <2>1. Min({History, TipCap}) \in {History, TipCap}
      BY Constants, SmallerOf
    <2>2. QED
      BY <2>1, Constants
  <1>2. Current \in Series /\ Stored \subseteq 0..MaxBar
    BY DEF TypeOK, Current, Series, Stored
  <1>3. Stored = {} => Short
    BY Constants, FS_EmptySet DEF Short
  <1>4. QED
    BY <1>1, <1>2, <1>3, Constants DEF TipCount

-----------------------------------------------------------------------------
(* Type correctness                                                        *)

LEMMA Bars == TypeOK => /\ now \in Nat /\ begun \in Nat /\ now <= MaxBar /\ tip \in Int /\ tip >= -1
                        /\ got \subseteq Nat /\ \A s \in Series : bars[s] \subseteq Nat
  BY Constants DEF TypeOK

LEMMA NoTip == -1 \in -1..MaxBar
  BY Constants

LEMMA First == 1 \in 1..Len(SeriesSeq)
  BY Count

LEMMA FaultTypes ==
  ASSUME TypeOK, NEW kind
  PROVE  Fault(kind) => faults' \in 0..FaultBound
  BY Constants DEF TypeOK, Fault

LEMMA CallFailsTypes == TypeOK /\ CallFails => faults' \in 0..FaultBound
  BY FaultTypes DEF CallFails, TypeOK

LEMMA LinkTypes ==
  ASSUME TypeOK
  PROVE  /\ Connect \/ Disconnect \/ AsFailed => session' \in BOOLEAN /\ connected' \in BOOLEAN
  <1>1. session \in BOOLEAN /\ connected \in BOOLEAN /\ terminal \in BOOLEAN
    BY DEF TypeOK
  <1>2. ASSUME AsFailed PROVE session' \in BOOLEAN /\ connected' \in BOOLEAN
    <2>1. connected' \in BOOLEAN
      BY <1>1, <1>2, Zenon DEF AsFailed
    <2>2. session' \in BOOLEAN
      BY <1>1, <1>2 DEF AsFailed
    <2>3. QED
      BY <2>1, <2>2
  <1>3. QED
    BY <1>2 DEF Connect, Disconnect

\* The loop over the series goes on with an empty batch.
LEMMA NextSeriesTypes ==
  ASSUME TypeOK, NextSeries
  PROVE  /\ stage' \in {"resolve", "finish"} /\ cursor' \in 1..Len(SeriesSeq)
         /\ (cursor' = cursor + 1 /\ stage' = "resolve") \/ (cursor = Len(SeriesSeq) /\ stage' = "finish")
         /\ attempt' = 0 /\ inner' = 0 /\ got' = {} /\ soft' = {} /\ tip' = -1 /\ thinned' = FALSE
  <1>1. CASE cursor < Len(SeriesSeq)
    BY <1>1, Count DEF TypeOK, NextSeries, ClearBatch
  <1>2. CASE ~(cursor < Len(SeriesSeq))
    BY <1>2, Count DEF TypeOK, NextSeries, ClearBatch
  <1>3. QED
    BY <1>1, <1>2

\* Merging bars up to the forming one.
LEMMA MergeTypes ==
  ASSUME TypeOK, NEW new, new \subseteq 0..now, Merge(new)
  PROVE  got' \subseteq 0..MaxBar /\ soft' \subseteq got'
  <1>1. 0..now \subseteq 0..MaxBar
    BY Constants DEF TypeOK
  <1>2. got' = got \cup new /\ soft' = soft \cup ({now} \cap (new \ got))
    BY DEF Merge
  <1>3. QED
    BY <1>1, <1>2 DEF TypeOK

LEMMA AttemptTypes == 0 \in 0..MaxRetries - 1
  BY Constants

\* What a fetch is asked for.
LEMMA Asked ==
  ASSUME TypeOK
  PROVE  /\ now \in Newest(History) /\ Newest(History) \subseteq 0..now
         /\ now \in Newest(TipCount) /\ Newest(TipCount) \subseteq 0..now
         /\ Stored # {} /\ Stored \subseteq 0..now =>
               now \in Max(Stored)..now /\ Max(Stored)..now \subseteq 0..now
  <1>1. now \in Newest(History) /\ Newest(History) \subseteq 0..now
    BY Constants, Bars, NewestBars
  <1>2. now \in Newest(TipCount) /\ Newest(TipCount) \subseteq 0..now
    BY Tips, Bars, NewestBars
  <1>3. ASSUME Stored # {}, Stored \subseteq 0..now
        PROVE  now \in Max(Stored)..now /\ Max(Stored)..now \subseteq 0..now
    <2>1. Max(Stored) \in 0..now
      BY <1>3, HasMax, Bars
    <2>2. QED
      BY <2>1, Bars
  <1>4. QED
    BY <1>1, <1>2, <1>3

\* What it is answered: the newest bar is always there.
LEMMA AnswerTypes ==
  ASSUME NEW asked, now \in asked, asked \subseteq 0..now, NEW answer \in Answers(asked)
  PROVE  now \in answer /\ answer \subseteq 0..now
  <1>1. PICK lost \in SUBSET (asked \ {now}) : answer = asked \ lost
    BY DEF Answers
  <1>2. QED
    BY <1>1

LEMMA Accepts == \A B : Accepted(B) \subseteq B
  BY DEF Accepted

LEMMA TypeInit == Init => TypeOK
  <1> SUFFICES ASSUME Init PROVE TypeOK
    OBVIOUS
  <1>1. PICK newest \in [Series -> StoredAtStart] :
          /\ bars = [s \in Series |-> 0..newest[s]]
          /\ forming = [s \in Series |-> {newest[s]} \cap Nat]
    BY DEF Init
  <1>2. \A s \in Series : newest[s] \in -1..MaxBar - 1
    BY Constants
  <1>3. ASSUME NEW s \in Series
        PROVE  0..newest[s] \subseteq 0..MaxBar /\ {newest[s]} \cap Nat \subseteq 0..MaxBar
    BY <1>2, <1>3, Constants
  <1>4. bars \in [Series -> SUBSET (0..MaxBar)] /\ forming \in [Series -> SUBSET (0..MaxBar)]
    BY <1>1, <1>3
  <1>5. now \in 0..MaxBar /\ begun \in 0..MaxBar /\ faults \in 0..FaultBound
    BY Constants DEF Init
  <1>6. /\ terminal \in BOOLEAN /\ session \in BOOLEAN /\ connected \in BOOLEAN
        /\ thinned \in BOOLEAN /\ errors \in BOOLEAN /\ rejected \in BOOLEAN
        /\ unknown \subseteq Series /\ holed \subseteq Series /\ outdated \subseteq Series
        /\ shifted \subseteq 0..MaxBar /\ got \subseteq 0..MaxBar /\ soft \subseteq got
    BY DEF Init
  <1>7. /\ cursor \in 1..Len(SeriesSeq) /\ attempt \in 0..MaxRetries - 1 /\ inner \in 0..MaxRetries - 1
        /\ tip \in -1..MaxBar
    BY AttemptTypes, NoTip, First DEF Init
  <1>8. stage = "idle" /\ status = "none"
    BY DEF Init
  <1>9. QED
    BY <1>4, <1>5, <1>6, <1>7, <1>8 DEF TypeOK

LEMMA TypeStep == TypeOK /\ Clock /\ Batch /\ [Next]_vars => TypeOK'
  <1> SUFFICES ASSUME TypeOK, Clock, Batch, [Next]_vars PROVE TypeOK'
    OBVIOUS
  <1> USE AttemptTypes, NoTip, First
  <1>1. CASE Poll
    <2>1. session' \in BOOLEAN /\ connected' \in BOOLEAN
      BY <1>1 DEF Poll, Connect, link, TypeOK
    <2>2. QED
      BY <1>1, <2>1 DEF Poll, TypeOK, world, store, batch
  <1>2. CASE ResolveSymbol
    BY <1>2 DEF ResolveSymbol, NextStage, TypeOK, world, link, store, run
  <1>3. CASE ResolveFails
    <2>1. faults' \in 0..FaultBound
      BY <1>3, FaultTypes DEF ResolveFails, TypeOK
    <2>2. QED
      BY <1>3, <2>1, NextSeriesTypes, Constants DEF ResolveFails, TypeOK, world, link, store
  <1>4. CASE FetchDeep
    <2>1. got' \subseteq 0..MaxBar /\ soft' \subseteq got' /\ thinned' \in BOOLEAN /\ faults' \in 0..FaultBound
      <3>1. PICK answer \in Answers(Newest(History)) :
            /\ IF answer = Newest(History) THEN UNCHANGED faults ELSE Fault("thin")
            /\ Merge(answer) /\ thinned' = (thinned \/ answer # Newest(History))
        BY <1>4 DEF FetchDeep, Receive
      <3>2. now \in answer /\ answer \subseteq 0..now
        BY Asked, AnswerTypes
      <3>3. QED
        BY <3>1, <3>2, FaultTypes, MergeTypes DEF TypeOK
    <2>2. session' = TRUE /\ connected' = TRUE /\ attempt' = 0 /\ inner' = 0 /\ stage' \in {"store", "tip"}
          /\ UNCHANGED <<world, store, cursor, tip, run>>
      BY <1>4 DEF FetchDeep, Connect, NextStage
    <2>3. QED
      BY <2>1, <2>2 DEF TypeOK, world, store, run
  <1>5. CASE FetchTip
    <2>1. got' \subseteq 0..MaxBar /\ soft' \subseteq got' /\ thinned' \in BOOLEAN /\ faults' \in 0..FaultBound
      <3>1. PICK answer \in Answers(Newest(TipCount)) :
            /\ IF answer = Newest(TipCount) THEN UNCHANGED faults ELSE Fault("thin")
            /\ Merge(answer) /\ thinned' = (thinned \/ answer # Newest(TipCount))
        BY <1>5 DEF FetchTip, Receive
      <3>2. now \in answer /\ answer \subseteq 0..now
        BY Asked, AnswerTypes
      <3>3. QED
        BY <3>1, <3>2, FaultTypes, MergeTypes DEF TypeOK
    <2>2. session' = TRUE /\ connected' = TRUE /\ attempt' = 0 /\ inner' = 0 /\ stage' \in {"range", "store"}
          /\ tip' = now /\ UNCHANGED <<world, store, cursor, run>>
      BY <1>5 DEF FetchTip, Connect, NextStage
    <2>3. tip' \in -1..MaxBar
      BY <2>2, Constants DEF TypeOK
    <2>4. QED
      BY <2>1, <2>2, <2>3 DEF TypeOK, world, store, run
  <1>6. CASE FetchRange
    <2>1. Stored # {} /\ Stored \subseteq 0..now
      BY <1>6, Tips DEF FetchRange, Batch, Clock, Stored
    <2>2. got' \subseteq 0..MaxBar /\ soft' \subseteq got' /\ thinned' \in BOOLEAN /\ faults' \in 0..FaultBound
      <3>1. PICK answer \in Answers(Max(Stored)..now) :
            /\ IF answer = Max(Stored)..now THEN UNCHANGED faults ELSE Fault("thin")
            /\ Merge(answer) /\ thinned' = (thinned \/ answer # Max(Stored)..now)
        BY <1>6 DEF FetchRange, Receive
      <3>2. now \in answer /\ answer \subseteq 0..now
        BY <2>1, Asked, AnswerTypes
      <3>3. QED
        BY <3>1, <3>2, FaultTypes, MergeTypes DEF TypeOK
    <2>3. session' = TRUE /\ connected' = TRUE /\ attempt' = 0 /\ inner' = 0 /\ stage' = "store"
          /\ UNCHANGED <<world, store, cursor, tip, run>>
      BY <1>6 DEF FetchRange, Connect, NextStage
    <2>4. QED
      BY <2>2, <2>3 DEF TypeOK, world, store, run
  <1>7. CASE RangeFallsBack
    <2>1. faults' \in 0..FaultBound
      BY <1>7, FaultTypes DEF RangeFallsBack
    <2>2. QED
      BY <1>7, <2>1 DEF RangeFallsBack, Connect, TypeOK, world, store, run
  <1>8. CASE FetchFallback
    <2>1. got' \subseteq 0..MaxBar /\ soft' \subseteq got' /\ thinned' \in BOOLEAN /\ faults' \in 0..FaultBound
      <3>1. PICK answer \in Answers(Newest(TipCount)) :
            /\ IF answer = Newest(TipCount) THEN UNCHANGED faults ELSE Fault("thin")
            /\ Merge(answer) /\ thinned' = (TRUE \/ answer # Newest(TipCount))
        BY <1>8 DEF FetchFallback, Receive
      <3>2. now \in answer /\ answer \subseteq 0..now
        BY Asked, AnswerTypes
      <3>3. QED
        BY <3>1, <3>2, FaultTypes, MergeTypes DEF TypeOK
    <2>2. session' = TRUE /\ connected' = TRUE /\ attempt' = 0 /\ inner' = 0 /\ stage' = "store"
          /\ UNCHANGED <<world, store, cursor, tip, run>>
      BY <1>8 DEF FetchFallback, Connect, NextStage
    <2>3. QED
      BY <2>1, <2>2 DEF TypeOK, world, store, run
  <1>9. CASE FetchAgain
    <2>1. faults' \in 0..FaultBound /\ session' \in BOOLEAN /\ connected' \in BOOLEAN
      BY <1>9, CallFailsTypes, LinkTypes DEF FetchAgain
    <2>2. attempt' \in 0..MaxRetries - 1 /\ inner' \in 0..MaxRetries - 1
      BY <1>9, Constants DEF FetchAgain, TypeOK
    <2>3. stage' \in {"deep", "tip", "range", "fallback"}
      BY <1>9 DEF FetchAgain
    <2>4. UNCHANGED <<world, store, cursor, got, soft, tip, thinned, run>>
      BY <1>9 DEF FetchAgain
    <2>5. QED
      BY <2>1, <2>2, <2>3, <2>4 DEF TypeOK, world, store, run
  <1>10. CASE FetchFails
    <2>1. faults' \in 0..FaultBound /\ session' \in BOOLEAN /\ connected' \in BOOLEAN
      BY <1>10, CallFailsTypes, LinkTypes DEF FetchFails
    <2>2. errors' = TRUE /\ NextSeries /\ UNCHANGED <<world, store, rejected, status, begun>>
      BY <1>10 DEF FetchFails
    <2>3. QED
      BY <2>1, <2>2, NextSeriesTypes, Constants DEF TypeOK, world, store
  <1>11. CASE KeepTip
    <2>1. faults' \in 0..FaultBound /\ session' \in BOOLEAN /\ connected' \in BOOLEAN
      BY <1>11, CallFailsTypes, LinkTypes DEF KeepTip
    <2>2. QED
      BY <1>11, <2>1 DEF KeepTip, NextStage, TypeOK, world, store, run
  <1>12. CASE StoreBars
    <2> DEFINE valid == Accepted(got)
    <2>1. /\ bars' = [bars EXCEPT ![Current] = @ \cup valid]
          /\ forming' = [forming EXCEPT ![Current] = (@ \ valid) \cup (soft \cap valid)]
          /\ rejected' = (rejected \/ valid # got)
          /\ holed' = IF thinned \/ valid # got THEN holed \cup {Current} ELSE holed
          /\ outdated' = IF MissesRefresh THEN outdated \cup {Current} ELSE outdated
          /\ NextSeries /\ UNCHANGED <<world, link, errors, status, begun, faults>>
      BY <1>12 DEF StoreBars
    <2>2. valid \subseteq 0..MaxBar
      BY Accepts DEF TypeOK
    <2> HIDE DEF valid
    <2>3. bars' \in [Series -> SUBSET (0..MaxBar)] /\ forming' \in [Series -> SUBSET (0..MaxBar)]
      <3>1. bars \in [Series -> SUBSET (0..MaxBar)] /\ forming \in [Series -> SUBSET (0..MaxBar)]
        BY DEF TypeOK
      <3>2. QED
        BY <2>1, <2>2, <3>1
    <2>4. holed' \in SUBSET Series /\ outdated' \in SUBSET Series
      BY <2>1, Tips DEF TypeOK
    <2>5. rejected' \in BOOLEAN
      BY <2>1
    <2>6. QED
      BY <2>1, <2>3, <2>4, <2>5, NextSeriesTypes, Constants DEF TypeOK, world, link
  <1>13. CASE FinishRun
    BY <1>13 DEF FinishRun, TypeOK, world, link, store, batch
  <1>14. CASE OpenBar
    <2>1. faults' \in 0..FaultBound
      BY <1>14, FaultTypes DEF OpenBar, TypeOK
    <2>2. now' = now + 1 /\ now' \in 0..MaxBar
      BY <1>14, Constants DEF OpenBar, TypeOK
    <2>3. shifted' \subseteq 0..MaxBar
      <3>1. shifted' \in {shifted, shifted \cup {now + 1}}
        BY <1>14 DEF OpenBar
      <3>2. QED
        BY <2>2, <3>1 DEF TypeOK
    <2>4. UNCHANGED <<unknown, terminal, link, store, stage, cursor, batch, run>>
      BY <1>14 DEF OpenBar
    <2>5. QED
      BY <2>1, <2>2, <2>3, <2>4 DEF TypeOK, link, store, batch, run
  <1>15. CASE TerminalStops
    <2>1. faults' \in 0..FaultBound /\ session' \in BOOLEAN
      BY <1>15, FaultTypes DEF TerminalStops, TypeOK
    <2>2. QED
      BY <1>15, <2>1 DEF TerminalStops, TypeOK, store, batch, run
  <1>16. CASE TerminalReturns
    BY <1>16 DEF TerminalReturns, TypeOK, link, store, batch, run
  <1>17. CASE Kill
    <2>1. faults' \in 0..FaultBound
      BY <1>17, FaultTypes DEF Kill
    <2>2. QED
      BY <1>17, <2>1, Constants DEF Kill, Disconnect, ClearBatch, TypeOK, world, store, run
  <1>18. CASE UNCHANGED vars
    BY <1>18 DEF vars, world, link, store, batch, run, TypeOK
  <1>19. QED
    BY <1>1, <1>2, <1>3, <1>4, <1>5, <1>6, <1>7, <1>8, <1>9, <1>10, <1>11, <1>12, <1>13, <1>14,
       <1>15, <1>16, <1>17, <1>18 DEF Next, Sync

-----------------------------------------------------------------------------
(* The batch of a series                                                   *)

\* Merging an answer that ends with the forming bar.
LEMMA Merged ==
  ASSUME TypeOK, Clock, Batch, NEW new, new \subseteq 0..now, now \in new, Merge(new)
  PROVE  /\ got' = got \cup new /\ got' \subseteq 0..now /\ soft' \subseteq got'
         /\ now \in soft' /\ \A b \in soft' : begun <= b
         /\ Top(got', now)
  <1>1. got' = got \cup new /\ soft' = soft \cup ({now} \cap (new \ got))
    BY DEF Merge
  <1>2. got' \subseteq 0..now /\ soft' \subseteq got' /\ Top(got', now)
    BY <1>1 DEF Clock, TypeOK, Top
  <1>3. now \in soft'
    <2>1. CASE now \in got
      <3>1. PICK m \in soft : Top(got, m)
        BY <2>1 DEF Batch
      <3>2. m <= now /\ now <= m /\ m \in Nat
        BY <2>1, <3>1, Bars DEF Top, Clock, TypeOK
      <3>3. m = now
        BY <3>2, Bars
      <3>4. QED
        BY <1>1, <3>3
    <2>2. CASE now \notin got
      BY <1>1, <2>2
    <2>3. QED
      BY <2>1, <2>2
  <1>4. \A b \in soft' : begun <= b
    BY <1>1 DEF Batch, Clock
  <1>5. QED
    BY <1>1, <1>2, <1>3, <1>4

\* What each fetch merges.
LEMMA Merges ==
  ASSUME TypeOK, Clock, Batch
  PROVE  /\ FetchDeep \/ FetchTip \/ FetchRange \/ FetchFallback =>
               \E answer : Merge(answer) /\ now \in answer /\ answer \subseteq 0..now
         /\ FetchDeep => \/ thinned'
                         \/ Merge(Newest(History))
         /\ FetchTip => \/ thinned'
                        \/ ~thinned /\ Merge(Newest(TipCount))
         /\ FetchRange => \/ thinned'
                          \/ ~thinned /\ Merge(Max(Stored)..now)
         /\ FetchFallback => thinned'
  <1>1. ASSUME FetchRange PROVE Stored # {} /\ Stored \subseteq 0..now
    BY <1>1, Tips DEF FetchRange, Batch, Clock, Stored
  <1>3. CASE FetchDeep
    <2>1. PICK answer \in Answers(Newest(History)) :
          /\ IF answer = Newest(History) THEN UNCHANGED faults ELSE Fault("thin")
          /\ Merge(answer) /\ thinned' = (thinned \/ answer # Newest(History))
      BY <1>3 DEF FetchDeep, Receive
    <2>2. now \in answer /\ answer \subseteq 0..now
      BY <2>1, Asked, AnswerTypes
    <2>3. stage = "deep"
      BY <1>3 DEF FetchDeep
    <2>4. QED
      BY <2>1, <2>2, <2>3 DEF FetchTip, FetchRange, FetchFallback
  <1>4. CASE FetchTip
    <2>1. PICK answer \in Answers(Newest(TipCount)) :
          /\ IF answer = Newest(TipCount) THEN UNCHANGED faults ELSE Fault("thin")
          /\ Merge(answer) /\ thinned' = (thinned \/ answer # Newest(TipCount))
      BY <1>4 DEF FetchTip, Receive
    <2>2. now \in answer /\ answer \subseteq 0..now
      BY <2>1, Asked, AnswerTypes
    <2>3. stage = "tip"
      BY <1>4 DEF FetchTip
    <2>4. QED
      BY <2>1, <2>2, <2>3 DEF FetchDeep, FetchRange, FetchFallback
  <1>5. CASE FetchRange
    <2>1. PICK answer \in Answers(Max(Stored)..now) :
          /\ IF answer = Max(Stored)..now THEN UNCHANGED faults ELSE Fault("thin")
          /\ Merge(answer) /\ thinned' = (thinned \/ answer # Max(Stored)..now)
      BY <1>5 DEF FetchRange, Receive
    <2>2. now \in answer /\ answer \subseteq 0..now
      BY <1>1, <1>5, <2>1, Asked, AnswerTypes
    <2>3. stage = "range"
      BY <1>5 DEF FetchRange
    <2>4. QED
      BY <2>1, <2>2, <2>3 DEF FetchDeep, FetchTip, FetchFallback
  <1>6. CASE FetchFallback
    <2>1. PICK answer \in Answers(Newest(TipCount)) :
          /\ IF answer = Newest(TipCount) THEN UNCHANGED faults ELSE Fault("thin")
          /\ Merge(answer) /\ thinned' = (TRUE \/ answer # Newest(TipCount))
      BY <1>6 DEF FetchFallback, Receive
    <2>2. now \in answer /\ answer \subseteq 0..now
      BY <2>1, Asked, AnswerTypes
    <2>3. stage = "fallback"
      BY <1>6 DEF FetchFallback
    <2>4. QED
      BY <2>1, <2>2, <2>3 DEF FetchDeep, FetchTip, FetchRange
  <1>7. QED
    BY <1>3, <1>4, <1>5, <1>6

LEMMA ClockStep == TypeOK /\ Clock /\ Batch /\ [Next]_vars => Clock'
  <1> SUFFICES ASSUME TypeOK, Clock, Batch, [Next]_vars PROVE Clock'
    OBVIOUS
  <1>0. now \in Nat /\ begun \in Nat /\ bars \in [Series -> SUBSET (0..MaxBar)] /\ 0..now \subseteq 0..(now + 1)
    BY Bars DEF TypeOK
  <1>1. CASE FetchDeep \/ FetchTip \/ FetchRange \/ FetchFallback
    <2>1. got' \subseteq 0..now
      <3>1. PICK answer : Merge(answer) /\ now \in answer /\ answer \subseteq 0..now
        BY <1>1, Merges
      <3>2. QED
        BY <3>1, Merged
    <2>2. UNCHANGED <<now, begun, bars>> /\ stage # "idle"
      BY <1>1 DEF FetchDeep, FetchTip, FetchRange, FetchFallback, world, run, store
    <2>3. QED
      BY <2>1, <2>2 DEF Clock
  <1>2. CASE StoreBars
    <2>1. /\ bars' = [bars EXCEPT ![Current] = @ \cup Accepted(got)] /\ got' = {} /\ stage = "store"
          /\ UNCHANGED <<now, begun>>
      BY <1>2 DEF StoreBars, NextSeries, ClearBatch, world
    <2>2. \A s \in Series : bars'[s] \subseteq 0..now
      BY <1>0, <2>1, Accepts DEF Clock
    <2>3. QED
      BY <2>1, <2>2 DEF Clock
  <1>3. CASE OpenBar
    <2>1. /\ now' = now + 1 /\ (stage = "idle" \/ now = begun)
          /\ UNCHANGED <<begun, bars, stage, got>>
      BY <1>3 DEF OpenBar, store, batch, run
    <2>2. \A s \in Series : bars[s] \subseteq 0..(now + 1)
      BY <1>0 DEF Clock
    <2>3. QED
      BY <1>0, <2>1, <2>2 DEF Clock
  <1>4. CASE Poll
    BY <1>0, <1>4 DEF Poll, world, store, batch, Clock
  <1>5. CASE Kill
    BY <1>5 DEF Kill, ClearBatch, world, store, run, Clock
  <1>6. CASE ResolveSymbol \/ RangeFallsBack \/ FetchAgain \/ KeepTip
    BY <1>6 DEF ResolveSymbol, RangeFallsBack, FetchAgain, KeepTip, world, store, run, Clock
  <1>7. CASE ResolveFails \/ FetchFails
    <2>1. got' = {} /\ UNCHANGED <<now, begun, bars>> /\ stage # "idle"
      BY <1>7 DEF ResolveFails, FetchFails, NextSeries, ClearBatch, world, store
    <2>2. QED
      BY <2>1 DEF Clock
  <1>8. CASE FinishRun
    BY <1>8 DEF FinishRun, world, store, batch, Clock
  <1>9. CASE TerminalStops \/ TerminalReturns
    BY <1>9 DEF TerminalStops, TerminalReturns, store, batch, run, Clock
  <1>10. CASE UNCHANGED vars
    BY <1>10 DEF vars, world, store, batch, run, Clock
  <1>11. QED
    BY <1>1, <1>2, <1>3, <1>4, <1>5, <1>6, <1>7, <1>8, <1>9, <1>10 DEF Next, Sync

LEMMA NoHole == Contiguous({})
  BY DEF Contiguous

\* Between two series, and between two runs, the batch is empty.
LEMMA BatchReset ==
  ASSUME got' = {}, soft' = {}, tip' = -1, thinned' = FALSE,
         stage' \in {"idle", "resolve", "deep", "finish"}
  PROVE  Batch'
  BY DEF Batch, Contiguous

LEMMA EmptyBatch ==
  ASSUME TypeOK, Batch, stage \in {"idle", "resolve", "deep", "finish"}
  PROVE  got = {} /\ soft = {} /\ tip = -1 /\ thinned = FALSE
  BY DEF Batch, TypeOK

\* What the series and its tip are asked for depends on what is stored.
LEMMA SameStore ==
  ASSUME UNCHANGED <<bars, cursor>>
  PROVE  Current' = Current /\ Stored' = Stored /\ Short' = Short /\ TipCount' = TipCount
  BY DEF Current, Stored, Short, TipCount

\* A step that leaves batch and store alone, while bars open.
LEMMA BatchKept ==
  ASSUME TypeOK, Batch, UNCHANGED <<bars, cursor, got, soft, tip, begun>>,
         now' \in Nat, now' >= now,
         \/ stage' = stage /\ thinned' = thinned
         \/ stage \in {"range", "fallback"} /\ stage' \in {"range", "fallback"} /\ thinned' = thinned
         \/ stage \in {"range", "fallback"} /\ stage' = "store" /\ thinned' = TRUE
  PROVE  Batch'
  <1>1. Stored' = Stored /\ Short' = Short /\ TipCount' = TipCount
    BY SameStore
  <1>2. NeedRange(tip)' <=> NeedRange(tip)
    BY <1>1 DEF NeedRange, Gap
  <1>3. tip # -1 => tip <= now'
    BY Bars DEF Batch
  <1>4. stage \in {"range", "fallback"} => got # {} /\ tip # -1
    BY DEF Batch
  <1>5. QED
    BY <1>1, <1>2, <1>3, <1>4 DEF Batch, Top, Contiguous

\* A deep fetch that is complete has no hole.
LEMMA BatchDeep == TypeOK /\ Clock /\ Batch /\ FetchDeep => Batch'
  <1> SUFFICES ASSUME TypeOK, Clock, Batch, FetchDeep PROVE Batch'
    OBVIOUS
  <1>1. PICK answer : Merge(answer) /\ now \in answer /\ answer \subseteq 0..now
    BY Merges
  <1>2. /\ got = {} /\ tip = -1 /\ stage = "deep" /\ tip' = -1 /\ UNCHANGED <<bars, cursor, begun, now>>
        /\ stage' = (IF Stored = {} THEN "store" ELSE "tip")
    BY EmptyBatch DEF FetchDeep, NextStage, store, run, world
  <1>3. Stored' = Stored
    BY <1>2, SameStore
  <1>4. /\ got' = answer /\ now \in soft' /\ (\A b \in soft' : begun <= b) /\ Top(got', now) /\ now \in answer
    BY <1>1, <1>2, Merged
  <1>5. ~thinned' => Contiguous(got')
    <2>1. ~thinned' => got' = Newest(History)
      BY <1>2, Merges, Asked, Merged
    <2>2. QED
      BY <2>1, Bars, Constants, NewestBars
  <1>6. \E m \in soft' : begun <= m /\ Top(got', m)
    BY <1>4 DEF Clock
  <1>7. QED
    BY <1>2, <1>3, <1>4, <1>5, <1>6 DEF Batch, Top, Contiguous

\* The tip joins what the deep fetch brought, at most one bar ago.
LEMMA BatchTip == TypeOK /\ Clock /\ Batch /\ FetchTip => Batch'
  <1> SUFFICES ASSUME TypeOK, Clock, Batch, FetchTip PROVE Batch'
    OBVIOUS
  <1>1. /\ stage = "tip" /\ tip' = now
        /\ stage' = (IF NeedRange(now) THEN "range" ELSE "store")
        /\ UNCHANGED <<bars, cursor, begun, now>>
    BY DEF FetchTip, NextStage, store, run, world
  <1>2. Stored' = Stored /\ Short' = Short /\ TipCount' = TipCount /\ Stored # {} /\ now' = now
    BY <1>1, SameStore DEF Batch
  <1>3. /\ got' \subseteq 0..now /\ now \in got'
        /\ now \in soft' /\ (\A b \in soft' : begun <= b) /\ Top(got', now)
        /\ ~thinned' => ~thinned /\ got' = got \cup Newest(TipCount)
    <2>1. PICK answer : Merge(answer) /\ now \in answer /\ answer \subseteq 0..now
      BY Merges
    <2>2. ~thinned' => ~thinned /\ Merge(Newest(TipCount))
      BY Merges
    <2>3. got' = got \cup answer /\ (Merge(Newest(TipCount)) => got' = got \cup Newest(TipCount))
      BY <2>1 DEF Merge
    <2>4. QED
      BY <2>1, <2>2, <2>3, Merged
  <1>4. now \in Newest(TipCount) /\ Contiguous(Newest(TipCount)) /\ Newest(TipCount) \subseteq 0..now
    BY Tips, Bars, NewestBars
  <1>5. ~thinned' => Contiguous(got')
    <2> SUFFICES ASSUME ~thinned' PROVE Contiguous(got')
      OBVIOUS
    <2>1. CASE got = {}
      BY <1>3, <1>4, <2>1
    <2>2. CASE got # {}
      <3>1. PICK m \in soft : begun <= m
        BY <2>2 DEF Batch
      <3>2. m \in got /\ m <= now /\ now <= m + 1 /\ m \in Nat
        BY <1>1, <3>1, Bars DEF Clock, TypeOK
      <3>3. Contiguous(got) /\ got \subseteq Nat /\ Newest(TipCount) \subseteq Nat /\ m <= now + 1
        BY <1>3, <1>4, <3>2, Bars DEF Batch
      <3>4. QED
        BY <1>3, <1>4, <3>2, <3>3, Join
    <2>3. QED
      BY <2>1, <2>2
  <1>6. ~thinned' => \A b \in 0..now : b > now - TipCount => b \in got'
    BY <1>3 DEF Newest
  <1>7. NeedRange(tip)' <=> NeedRange(now)
    BY <1>1, <1>2 DEF NeedRange, Gap
  <1>8. (\E m \in soft' : begun <= m /\ Top(got', m)) /\ Stored \subseteq 0..now /\ got' # {} /\ now # -1
    BY <1>3, <1>4, Tips, Bars DEF Clock, Stored
  <1>9. /\ (\E m \in soft : begun <= m /\ Top(got, m))' /\ (\A b \in soft : begun <= b)'
        /\ (~thinned => Contiguous(got))'
    BY <1>1, <1>3, <1>5, <1>8 DEF Top, Contiguous
  <1>10. (tip # -1 => /\ begun <= tip /\ tip <= now /\ Stored \subseteq 0..tip /\ tip \in got
                      /\ ~thinned => \A b \in 0..tip : b > tip - TipCount => b \in got)'
    BY <1>1, <1>2, <1>3, <1>6, <1>8, Bars DEF Clock
  <1>11. stage' \in {"range", "store"} /\ (stage' = "store" => ~NeedRange(tip)')
    BY <1>1, <1>7
  <1>12. QED
    BY <1>1, <1>2, <1>8, <1>9, <1>10, <1>11 DEF Batch

\* A later answer keeps what the tip has covered.
LEMMA Coverage ==
  ASSUME TypeOK, Clock, Batch, stage \in {"range", "fallback"}
  PROVE  /\ tip # -1 /\ Stored # {} /\ begun <= tip /\ tip <= now /\ Stored \subseteq 0..tip /\ tip \in got
         /\ Max(Stored) \in Stored /\ Max(Stored) <= tip /\ tip \in Nat
  <1>1. tip # -1 /\ Stored # {} /\ begun <= tip /\ tip <= now /\ Stored \subseteq 0..tip
    BY DEF Batch
  <1>2. tip \in Nat
    BY <1>1, Bars
  <1>3. tip \in got
    BY <1>1 DEF Batch
  <1>4. Max(Stored) \in Stored
    BY <1>1, <1>2, HasMax
  <1>5. Max(Stored) \in 0..tip
    BY <1>1, <1>4
  <1>6. QED
    BY <1>1, <1>2, <1>3, <1>4, <1>5

LEMMA BatchRange == TypeOK /\ Clock /\ Batch /\ FetchRange => Batch'
  <1> SUFFICES ASSUME TypeOK, Clock, Batch, FetchRange PROVE Batch'
    OBVIOUS
  <1>1. /\ stage = "range" /\ tip' = tip /\ stage' = "store"
        /\ UNCHANGED <<bars, cursor, begun, now>>
    BY DEF FetchRange, NextStage, store, run, world
  <1>2. Stored' = Stored /\ Short' = Short /\ TipCount' = TipCount /\ now' = now
    BY <1>1, SameStore
  <1>3. /\ tip # -1 /\ Stored # {} /\ begun <= tip /\ tip <= now /\ Stored \subseteq 0..tip /\ tip \in got
        /\ Max(Stored) \in Stored /\ Max(Stored) <= tip /\ tip \in Nat
    BY <1>1, Coverage
  <1>4. /\ got' \subseteq 0..now /\ got \subseteq got'
        /\ now \in soft' /\ (\A b \in soft' : begun <= b) /\ Top(got', now)
        /\ ~thinned' => ~thinned /\ got' = got \cup (Max(Stored)..now)
    <2>1. PICK answer : Merge(answer) /\ now \in answer /\ answer \subseteq 0..now
      BY Merges
    <2>2. ~thinned' => ~thinned /\ Merge(Max(Stored)..now)
      BY Merges
    <2>3. got' = got \cup answer /\ (Merge(Max(Stored)..now) => got' = got \cup (Max(Stored)..now))
      BY <2>1 DEF Merge
    <2>4. QED
      BY <2>1, <2>2, <2>3, Merged
  <1>5. ~thinned' => Contiguous(got')
    <2>0. Max(Stored) \in 0..tip /\ now \in Nat
      BY <1>3, Bars
    <2>1. tip \in Max(Stored)..now /\ Contiguous(Max(Stored)..now) /\ Max(Stored)..now \subseteq Nat /\ tip <= tip + 1
      BY <1>3, <2>0 DEF Contiguous
    <2>2. ~thinned => Contiguous(got)
      BY DEF Batch
    <2> HIDE DEF Contiguous
    <2>3. QED
      BY <1>3, <1>4, <2>1, <2>2, Bars, Join
  <1>6. (~thinned' => Max(Stored) \in got') /\ Max(Stored)' = Max(Stored)
    <2>1. Max(Stored) \in 0..tip /\ now \in Nat
      BY <1>3, Bars
    <2>2. Max(Stored) \in Max(Stored)..now
      BY <1>3, <2>1
    <2>3. QED
      BY <1>2, <1>4, <2>2 DEF Max
  <1>7. tip \in got' /\ (~thinned' => \A b \in 0..tip : b > tip - TipCount => b \in got')
    BY <1>3, <1>4 DEF Batch
  <1>8. \E m \in soft' : begun <= m /\ Top(got', m)
    BY <1>4 DEF Clock
  <1>9. QED
    BY <1>1, <1>2, <1>3, <1>4, <1>5, <1>6, <1>7, <1>8 DEF Batch, Top, Contiguous

LEMMA BatchFallback == TypeOK /\ Clock /\ Batch /\ FetchFallback => Batch'
  <1> SUFFICES ASSUME TypeOK, Clock, Batch, FetchFallback PROVE Batch'
    OBVIOUS
  <1>1. /\ stage = "fallback" /\ tip' = tip /\ thinned' /\ stage' = "store"
        /\ UNCHANGED <<bars, cursor, begun, now>>
    BY Merges DEF FetchFallback, NextStage, store, run, world
  <1>2. Stored' = Stored /\ Short' = Short /\ TipCount' = TipCount /\ now' = now
    BY <1>1, SameStore
  <1>3. tip # -1 /\ Stored # {} /\ begun <= tip /\ tip <= now /\ Stored \subseteq 0..tip /\ tip \in got
    BY <1>1, Coverage
  <1>4. /\ got' # {} /\ tip \in got'
        /\ now \in soft' /\ (\A b \in soft' : begun <= b) /\ Top(got', now)
    <2>1. PICK answer : Merge(answer) /\ now \in answer /\ answer \subseteq 0..now
      BY Merges
    <2>2. got' = got \cup answer
      BY <2>1 DEF Merge
    <2>3. QED
      BY <1>3, <2>1, <2>2, Merged
  <1>6. \E m \in soft' : begun <= m /\ Top(got', m)
    BY <1>4 DEF Clock
  <1>7. QED
    BY <1>1, <1>2, <1>3, <1>4, <1>6 DEF Batch, Top

LEMMA BatchStep == TypeOK /\ Clock /\ Batch /\ [Next]_vars => Batch'
  <1> SUFFICES ASSUME TypeOK, Clock, Batch, [Next]_vars PROVE Batch'
    OBVIOUS
  <1>1. CASE Poll
    <2>1. UNCHANGED <<got, soft, tip, thinned>> /\ stage = "idle" /\ stage' = "resolve"
      BY <1>1 DEF Poll, batch
    <2>2. QED
      BY <2>1, EmptyBatch, BatchReset
  <1>2. CASE ResolveSymbol
    <2>1. /\ UNCHANGED <<got, soft, tip, thinned, bars, cursor>> /\ stage = "resolve"
          /\ stage' = (IF Short THEN "deep" ELSE "tip")
      BY <1>2 DEF ResolveSymbol, NextStage, store
    <2>2. got = {} /\ soft = {} /\ tip = -1 /\ thinned = FALSE
      BY <2>1, EmptyBatch
    <2>3. CASE Short
      BY <2>1, <2>2, <2>3, BatchReset
    <2>4. CASE ~Short
      <3>1. Stored' = Stored /\ Stored # {}
        BY <2>1, <2>4, Tips, SameStore
      <3>2. QED
        BY <2>1, <2>2, <2>4, <3>1 DEF Batch, Contiguous
    <2>5. QED
      BY <2>3, <2>4
  <1>3. CASE ResolveFails \/ FetchFails \/ StoreBars
    <2>1. NextSeries
      BY <1>3 DEF ResolveFails, FetchFails, StoreBars
    <2>2. QED
      BY <2>1, NextSeriesTypes, BatchReset
  <1>4. CASE FetchDeep \/ FetchTip \/ FetchRange \/ FetchFallback
    BY <1>4, BatchDeep, BatchTip, BatchRange, BatchFallback
  <1>5. CASE RangeFallsBack
    BY <1>5, BatchKept, Bars DEF RangeFallsBack, store, run, world
  <1>6. CASE FetchAgain
    <2>1. UNCHANGED <<bars, cursor, got, soft, tip, begun, now, thinned>>
      BY <1>6 DEF FetchAgain, store, run, world
    <2>2. stage' = stage \/ (stage \in {"range", "fallback"} /\ stage' \in {"range", "fallback"})
      BY <1>6 DEF FetchAgain
    <2>3. now' \in Nat /\ now' >= now
      BY <2>1, Bars
    <2>4. QED
      BY <2>1, <2>2, <2>3, BatchKept
  <1>7. CASE KeepTip
    <2>1. /\ stage \in {"range", "fallback"} /\ stage' = "store" /\ thinned' = TRUE
          /\ UNCHANGED <<bars, cursor, got, soft, tip, begun, now>>
      BY <1>7 DEF KeepTip, NextStage, store, run, world
    <2>2. now' \in Nat /\ now' >= now
      BY <2>1, Bars
    <2>3. QED
      BY <2>1, <2>2, BatchKept
  <1>8. CASE FinishRun
    <2>1. UNCHANGED <<got, soft, tip, thinned>> /\ stage = "finish" /\ stage' = "idle"
      BY <1>8 DEF FinishRun, batch
    <2>2. QED
      BY <2>1, EmptyBatch, BatchReset
  <1>9. CASE OpenBar
    BY <1>9, BatchKept, Bars DEF OpenBar, store, batch, run
  <1>10. CASE TerminalStops \/ TerminalReturns
    <2>1. UNCHANGED <<bars, cursor, got, soft, tip, begun, now, thinned, stage>>
      BY <1>10 DEF TerminalStops, TerminalReturns, store, batch, run, world
    <2>2. now' \in Nat /\ now' >= now
      BY <2>1, Bars
    <2>3. QED
      BY <2>1, <2>2, BatchKept
  <1>11. CASE Kill
    BY <1>11, BatchReset DEF Kill, ClearBatch
  <1>12. CASE UNCHANGED vars
    BY <1>12, BatchKept, Bars DEF vars, world, store, batch, run
  <1>13. QED
    BY <1>1, <1>2, <1>3, <1>4, <1>5, <1>6, <1>7, <1>8, <1>9, <1>10, <1>11, <1>12 DEF Next, Sync

-----------------------------------------------------------------------------
(* The store                                                               *)

LEMMA TwoMembers ==
  ASSUME NEW S, IsFiniteSet(S), NEW x \in S, NEW y \in S, x # y
  PROVE  Cardinality(S) > 1
  <1>1. IsFiniteSet({x}) /\ Cardinality({x}) = 1
    BY FS_Singleton
  <1>2. Cardinality({x} \cup {y}) = 2
    BY <1>1, FS_AddElement
  <1>3. {x} \cup {y} \in SUBSET S
    OBVIOUS
  <1>4. Cardinality({x} \cup {y}) <= Cardinality(S) /\ Cardinality(S) \in Nat
    BY <1>3, FS_Subset, FS_CardinalityType
  <1>5. QED
    BY <1>2, <1>4

\* Where the tip of a batch stands to the store when the batch is stored.
LEMMA TipOverStore ==
  ASSUME TypeOK, Clock, Batch, stage = "store", Stored # {}
  PROVE  /\ tip \in Nat /\ tip \in got /\ Max(Stored) \in Stored /\ Max(Stored) \in 0..tip
         /\ \A b \in Stored : b \in 0..tip /\ b <= Max(Stored)
         /\ ~thinned => \A b \in 0..tip : b > tip - TipCount => b \in got
         /\ TipCount \in Nat /\ TipCount > 0
  <1>1. /\ tip # -1 /\ Stored \subseteq 0..tip /\ tip \in got
        /\ ~thinned => \A b \in 0..tip : b > tip - TipCount => b \in got
    BY DEF Batch
  <1>2. tip \in Nat /\ TipCount \in Nat /\ TipCount > 0
    BY <1>1, Bars, Tips
  <1>3. tip \in got
    BY <1>1
  <1>4. Max(Stored) \in Stored /\ \A b \in Stored : b <= Max(Stored)
    BY <1>1, <1>2, HasMax
  <1>5. QED
    BY <1>1, <1>2, <1>3, <1>4

\* A batch without a hole joins a store without a hole.
LEMMA Touches ==
  ASSUME TypeOK, Clock, Batch, stage = "store", ~thinned, Contiguous(Stored)
  PROVE  Contiguous(Stored \cup got)
  <1>1. Contiguous(got) /\ got \subseteq Nat /\ Stored \subseteq Nat
    BY Bars, Tips, Constants DEF Batch
  <1>2. CASE Stored = {}
    BY <1>1, <1>2
  <1>3. CASE Stored # {} /\ NeedRange(tip)
    <2>1. Max(Stored) \in got /\ Max(Stored) \in Stored /\ Max(Stored) \in Nat
      BY <1>1, <1>3, TipOverStore DEF Batch
    <2>2. Max(Stored) <= Max(Stored) + 1
      BY <2>1
    <2>3. QED
      BY <1>1, <2>1, <2>2, Join
  <1>4. CASE Stored # {} /\ ~NeedRange(tip)
    <2>1. /\ tip \in Nat /\ tip \in got /\ Max(Stored) \in Stored /\ Max(Stored) \in 0..tip
          /\ \A b \in 0..tip : b > tip - TipCount => b \in got
          /\ TipCount \in Nat
      BY <1>4, TipOverStore
    <2>2. ~(tip - Max(Stored) > TipCount)
      BY <1>4 DEF NeedRange, Gap
    <2>3. CASE Max(Stored) = tip
      <3>1. tip <= Max(Stored) + 1 /\ Max(Stored) <= tip + 1
        BY <2>1, <2>3
      <3>2. QED
        BY <1>1, <2>1, <3>1, Join
    <2>4. CASE Max(Stored) # tip
      <3>1. Max(Stored) + 1 \in 0..tip /\ Max(Stored) + 1 > tip - TipCount
        BY <2>1, <2>2, <2>4
      <3>2. Max(Stored) + 1 \in got
        BY <2>1, <3>1
      <3>3. Max(Stored) + 1 <= Max(Stored) + 1 /\ Max(Stored) <= (Max(Stored) + 1) + 1
        BY <2>1
      <3>4. QED
        BY <1>1, <2>1, <3>2, <3>3, Join
    <2>5. QED
      BY <2>3, <2>4
  <1>5. QED
    BY <1>2, <1>3, <1>4

\* Unless the tip just missed it, a copy of a forming bar is replaced.
LEMMA Refreshed ==
  ASSUME TypeOK, Clock, Batch, SeriesSound, stage = "store", ~thinned, ~MissesRefresh,
         Current \notin holed, Current \notin outdated, NEW f \in forming[Current]
  PROVE  f \in got
  <1>1. Current \in Series /\ f \in Stored /\ Stored # {} /\ Sound(Current)
    BY Tips DEF SeriesSound, Stored
  <1>2. /\ tip \in Nat /\ tip \in got /\ Max(Stored) \in Stored /\ Max(Stored) \in 0..tip
        /\ \A b \in Stored : b \in 0..tip /\ b <= Max(Stored)
        /\ \A b \in 0..tip : b > tip - TipCount => b \in got
        /\ TipCount \in Nat
    BY <1>1, TipOverStore
  <1>3. PICK m \in forming[Current] : Top(Stored, m) /\ \A g \in forming[Current] : g >= m - 1
    BY <1>1 DEF Sound, Stored
  <1>4. m = Max(Stored)
    <2>1. m \in Stored
      BY <1>1, <1>3 DEF SeriesSound, Stored
    <2>2. m \in 0..tip /\ m <= Max(Stored) /\ Max(Stored) <= m
      BY <1>2, <1>3, <2>1 DEF Top
    <2>3. QED
      BY <1>2, <2>2
  <1>5. f \in 0..tip /\ f <= Max(Stored) /\ f >= Max(Stored) - 1
    BY <1>1, <1>2, <1>3, <1>4
  <1>6. tip # -1
    BY <1>2
  <1>7. CASE f = Max(Stored)
    <2>1. CASE NeedRange(tip)
      BY <1>1, <1>7, <2>1 DEF Batch
    <2>2. CASE ~NeedRange(tip)
      <3>1. ~(tip - Max(Stored) > TipCount) /\ tip - Max(Stored) # TipCount
        BY <1>6, <2>2 DEF NeedRange, Gap, MissesRefresh
      <3>2. f > tip - TipCount
        BY <1>2, <1>7, <3>1
      <3>3. QED
        BY <1>2, <1>5, <3>2
    <2>3. QED
      BY <2>1, <2>2
  <1>8. CASE f # Max(Stored)
    <2>1. IsFiniteSet(forming[Current])
      <3>1. forming[Current] \in SUBSET (0..MaxBar)
        BY <1>1 DEF TypeOK
      <3>2. IsFiniteSet(0..MaxBar)
        BY Constants, FS_Interval, 0 \in Int, MaxBar \in Int
      <3>3. QED
        BY <3>1, <3>2, FS_Subset
    <2>2. Cardinality(forming[Current]) > 1
      BY <1>3, <1>4, <1>8, <2>1, TwoMembers
    <2>3. ~(tip - Max(Stored) >= TipCount - 1)
      BY <1>6, <2>2 DEF MissesRefresh, Gap
    <2>4. f > tip - TipCount
      BY <1>2, <1>5, <2>3
    <2>5. QED
      BY <1>2, <1>5, <2>4
  <1>9. QED
    BY <1>7, <1>8

\* The series that is stored has no hole, and its copies of forming bars are its newest.
LEMMA StoredSound ==
  ASSUME TypeOK, Clock, Batch, SeriesSound, StoreBars, Current \notin holed'
  PROVE  \A s \in Series : s = Current => Sound(s)'
  <1>1. /\ stage = "store"
        /\ bars' = [bars EXCEPT ![Current] = @ \cup Accepted(got)]
        /\ forming' = [forming EXCEPT ![Current] = (@ \ Accepted(got)) \cup (soft \cap Accepted(got))]
        /\ holed' = IF thinned \/ Accepted(got) # got THEN holed \cup {Current} ELSE holed
        /\ outdated' = IF MissesRefresh THEN outdated \cup {Current} ELSE outdated
    BY DEF StoreBars
  <1>2. ~thinned /\ Accepted(got) = got /\ Current \notin holed
    BY <1>1
  <1>3. Current \in Series /\ soft \subseteq got
        /\ bars \in [Series -> SUBSET (0..MaxBar)] /\ forming \in [Series -> SUBSET (0..MaxBar)]
    BY Tips DEF TypeOK
  <1>4. bars'[Current] = Stored \cup got /\ forming'[Current] = (forming[Current] \ got) \cup soft
    BY <1>1, <1>2, <1>3 DEF Stored
  <1>5. Sound(Current)
    BY <1>2, <1>3 DEF SeriesSound
  <1>6. Contiguous(Stored \cup got)
    BY <1>1, <1>2, <1>5, Touches DEF Sound, Stored
  <1>7. PICK m \in soft : begun <= m /\ Top(got, m)
    BY <1>1 DEF Batch
  <1>8. m \in got /\ m \in Nat /\ m <= begun + 1
    BY <1>1, <1>3, <1>7, Bars DEF Clock
  <1>9. Top(Stored \cup got, m)
    <2> SUFFICES ASSUME NEW b \in Stored PROVE b <= m
      BY <1>7 DEF Top
    <2>1. tip \in got /\ tip \in Nat /\ b \in 0..tip
      BY <1>1, TipOverStore
    <2>2. tip <= m
      BY <1>7, <2>1 DEF Top
    <2>3. QED
      BY <1>8, <2>1, <2>2
  <1>10. ASSUME Current \notin outdated', NEW f \in forming'[Current] PROVE f >= m - 1
    <2>1. ~MissesRefresh /\ Current \notin outdated
      BY <1>1, <1>10
    <2>2. f \in soft
      BY <1>1, <1>2, <1>4, <1>10, <2>1, Refreshed
    <2>3. begun <= f /\ f \in Nat
      BY <1>3, <2>2, Bars DEF Batch
    <2>4. QED
      BY <1>8, <2>3, Bars
  <1>11. ASSUME NEW s \in Series, s = Current PROVE Sound(s)'
    <2>1. bars'[s] = Stored \cup got /\ forming'[s] = (forming[s] \ got) \cup soft
      BY <1>4, <1>11
    <2>2. Contiguous(bars'[s]) /\ m \in forming'[s] /\ Top(bars'[s], m)
          /\ (s \notin outdated' => \A f \in forming'[s] : f >= m - 1)
      BY <1>6, <1>7, <1>9, <1>10, <1>11, <2>1
    <2>3. QED
      BY <2>2 DEF Sound, Contiguous, Top
  <1>12. QED
    BY <1>11

LEMMA SoundStep == TypeOK /\ Clock /\ Batch /\ SeriesSound /\ [Next]_vars => SeriesSound'
  <1> SUFFICES ASSUME TypeOK, Clock, Batch, SeriesSound, [Next]_vars PROVE SeriesSound'
    OBVIOUS
  <1>1. CASE UNCHANGED store
    BY <1>1 DEF store, SeriesSound, Sound, Contiguous, Top
  <1>2. CASE StoreBars
    <2>1. /\ bars' = [bars EXCEPT ![Current] = @ \cup Accepted(got)]
          /\ forming' = [forming EXCEPT ![Current] = (@ \ Accepted(got)) \cup (soft \cap Accepted(got))]
          /\ (holed' = holed \/ holed' = holed \cup {Current})
          /\ (outdated' = outdated \/ outdated' = outdated \cup {Current})
      BY <1>2 DEF StoreBars
    <2>2. bars \in [Series -> SUBSET (0..MaxBar)] /\ forming \in [Series -> SUBSET (0..MaxBar)]
      BY DEF TypeOK
    <2>3. SUFFICES ASSUME NEW s \in Series
                   PROVE  (forming[s] \subseteq bars[s])' /\ (s \notin holed' => Sound(s)')
      BY DEF SeriesSound
    <2>4. CASE s # Current
      <3>1. bars'[s] = bars[s] /\ forming'[s] = forming[s]
        BY <2>1, <2>2, <2>4
      <3>2. (s \in holed' <=> s \in holed) /\ (s \in outdated' <=> s \in outdated)
        BY <2>1, <2>4
      <3>3. QED
        BY <3>1, <3>2 DEF SeriesSound, Sound, Contiguous, Top
    <2>5. CASE s = Current
      <3>1. bars'[s] = bars[s] \cup Accepted(got)
            /\ forming'[s] = (forming[s] \ Accepted(got)) \cup (soft \cap Accepted(got))
        BY <2>1, <2>2, <2>5
      <3>2. forming[s] \subseteq bars[s]
        BY DEF SeriesSound
      <3>3. QED
        BY <1>2, <2>5, <3>1, <3>2, StoredSound
    <2>6. QED
      BY <2>4, <2>5
  <1>3. CASE ~StoreBars /\ ~(UNCHANGED vars)
    <2>1. UNCHANGED store
      BY <1>3 DEF Next, Sync, Poll, ResolveSymbol, ResolveFails, FetchDeep, FetchTip, FetchRange, RangeFallsBack,
         FetchFallback, FetchAgain, FetchFails, KeepTip, FinishRun, OpenBar, TerminalStops, TerminalReturns, Kill
    <2>2. QED
      BY <1>1, <2>1
  <1>4. QED
    BY <1>1, <1>2, <1>3 DEF vars

-----------------------------------------------------------------------------
(* The row of the run                                                      *)

\* Steps inside a series, of the terminal and of the clock do not move the run.
LEMMA ProgressKept ==
  ASSUME Progress, UNCHANGED <<bars, begun, errors, rejected, status, cursor>>,
         stage' # "idle" => stage # "idle", stage' = "finish" => stage = "finish"
  PROVE  Progress'
  BY DEF Progress, Reached

\* A series that is given up is an error of the run.
LEMMA ProgressFails ==
  ASSUME Progress, UNCHANGED <<begun, bars, rejected, status>>, errors' = TRUE, stage # "idle"
  PROVE  Progress'
  BY DEF Progress, Reached

\* A series that is stored, with nothing rejected, is current.
LEMMA StoredCurrent ==
  ASSUME TypeOK, Clock, Batch, Progress, StoreBars
  PROVE  Progress'
  <1>1. /\ stage = "store" /\ NextSeries /\ UNCHANGED <<errors, status, begun>>
        /\ bars' = [bars EXCEPT ![Current] = @ \cup Accepted(got)]
        /\ rejected' = (rejected \/ Accepted(got) # got)
    BY DEF StoreBars
  <1>2. /\ Current \in Series /\ bars \in [Series -> SUBSET (0..MaxBar)] /\ soft \subseteq got
        /\ cursor \in 1..Len(SeriesSeq)
    BY Tips DEF TypeOK
  <1>3. /\ (cursor' = cursor + 1 /\ stage' = "resolve") \/ (cursor = Len(SeriesSeq) /\ stage' = "finish")
    BY <1>1, NextSeriesTypes
  <1>4. \A s \in Series : Reached(s) => Reached(s)'
    <2>1. \A s \in Series : bars[s] \subseteq bars'[s]
      BY <1>1, <1>2
    <2>2. QED
      BY <1>1, <2>1 DEF Reached
  <1>5. ASSUME ~rejected' PROVE \A s \in Series : s = Current => Reached(s)'
    <2>1. Accepted(got) = got
      BY <1>1, <1>5
    <2>2. PICK m \in soft : begun <= m
      BY <1>1 DEF Batch
    <2>3. m \in bars'[Current] /\ m >= begun
      <3>1. m \in bars'[Current]
        BY <1>1, <1>2, <2>1, <2>2
      <3>2. m \in Nat
        BY <1>2, <2>2, Bars
      <3>3. QED
        BY <2>2, <3>1, <3>2, Bars
    <2>4. QED
      BY <1>1, <2>3 DEF Reached
  <1>6. ASSUME ~errors', ~rejected', NEW i \in 1..Len(SeriesSeq), stage' = "finish" \/ i < cursor'
        PROVE  Reached(SeriesSeq[i])'
    <2>1. i < cursor \/ i = cursor
      BY <1>2, <1>3, <1>6, Count
    <2>2. SeriesSeq[i] \in Series
      BY DEF Series
    <2>3. CASE i < cursor
      <3>1. ~errors /\ ~rejected
        BY <1>1, <1>6
      <3>2. Reached(SeriesSeq[i])
        BY <1>1, <1>6, <2>3, <3>1 DEF Progress
      <3>3. QED
        BY <1>4, <2>2, <3>2
    <2>4. CASE i = cursor
      BY <1>5, <1>6, <2>2, <2>4 DEF Current
    <2>5. QED
      BY <2>1, <2>3, <2>4
  <1>7. status' = "running"
    BY <1>1 DEF Progress
  <1>8. QED
    BY <1>6, <1>7 DEF Progress

LEMMA ProgressStep == TypeOK /\ Clock /\ Batch /\ Progress /\ [Next]_vars => Progress'
  <1> SUFFICES ASSUME TypeOK, Clock, Batch, Progress, [Next]_vars PROVE Progress'
    OBVIOUS
  <1>1. CASE Poll
    <2>1. stage' = "resolve" /\ cursor' = 1 /\ status' = "running"
      BY <1>1 DEF Poll
    <2>2. \A i \in 1..Len(SeriesSeq) : ~(i < 1)
      BY Count
    <2>3. QED
      BY <2>1, <2>2 DEF Progress
  <1>2. CASE ResolveFails \/ FetchFails
    <2>1. UNCHANGED <<begun, bars, rejected, status>> /\ errors' = TRUE /\ stage # "idle"
      BY <1>2 DEF ResolveFails, FetchFails, store
    <2>2. QED
      BY <2>1, ProgressFails
  <1>3. CASE StoreBars
    BY <1>3, StoredCurrent
  <1>4. CASE FinishRun
    <2>1. /\ stage = "finish" /\ stage' = "idle" /\ UNCHANGED <<bars, errors, rejected, begun>>
          /\ status' = IF errors THEN "completed_with_errors" ELSE "completed"
      BY <1>4 DEF FinishRun, store
    <2>2. ASSUME status' = "completed", ~rejected, NEW s \in Series PROVE Reached(s)'
      <3>1. ~errors
        BY <2>1, <2>2
      <3>2. PICK i \in 1..Len(SeriesSeq) : s = SeriesSeq[i]
        BY DEF Series
      <3>3. Reached(s)
        BY <2>1, <2>2, <3>1, <3>2 DEF Progress
      <3>4. QED
        BY <2>1, <3>3 DEF Reached
    <2>3. QED
      BY <2>1, <2>2 DEF Progress
  <1>5. CASE Kill
    <2>1. stage' = "idle" /\ UNCHANGED <<bars, begun, status, rejected>>
      BY <1>5 DEF Kill, store, run
    <2>2. QED
      BY <2>1 DEF Progress, Reached
  <1>6. CASE ResolveSymbol \/ FetchDeep \/ FetchTip \/ FetchRange \/ RangeFallsBack \/ FetchFallback \/ KeepTip
    <2>1. UNCHANGED <<bars, begun, errors, rejected, status, cursor>>
      BY <1>6 DEF ResolveSymbol, FetchDeep, FetchTip, FetchRange, RangeFallsBack, FetchFallback, KeepTip, store, run
    <2>2. stage # "idle" /\ stage' # "finish"
      BY <1>6 DEF ResolveSymbol, FetchDeep, FetchTip, FetchRange, RangeFallsBack, FetchFallback, KeepTip, NextStage
    <2>3. QED
      BY <2>1, <2>2, ProgressKept
  <1>7. CASE FetchAgain
    <2>1. UNCHANGED <<bars, begun, errors, rejected, status, cursor>>
      BY <1>7 DEF FetchAgain, store, run
    <2>2. stage # "idle" /\ stage' # "finish"
      BY <1>7 DEF FetchAgain
    <2>3. QED
      BY <2>1, <2>2, ProgressKept
  <1>8. CASE OpenBar \/ TerminalStops \/ TerminalReturns \/ UNCHANGED vars
    <2>1. UNCHANGED <<bars, begun, errors, rejected, status, cursor, stage>>
      BY <1>8 DEF OpenBar, TerminalStops, TerminalReturns, vars, store, run
    <2>2. QED
      BY <2>1, ProgressKept
  <1>9. QED
    BY <1>1, <1>2, <1>3, <1>4, <1>5, <1>6, <1>7, <1>8 DEF Next, Sync

-----------------------------------------------------------------------------
(* The theorems                                                            *)

LEMMA InvariantInit == Init => IInv
  <1> SUFFICES ASSUME Init PROVE IInv
    OBVIOUS
  <1>1. TypeOK
    BY TypeInit
  <1>2. /\ got = {} /\ soft = {} /\ tip = -1 /\ ~thinned /\ stage = "idle" /\ status = "none" /\ begun = now
    BY DEF Init
  <1>3. Clock
    <2>1. ASSUME NEW s \in Series, NEW b \in bars[s] PROVE b \in 0..now
      BY <1>1, <2>1, Bars DEF Init
    <2>2. QED
      BY <1>1, <1>2, <2>1, Bars DEF Clock
  <1>4. Batch
    BY <1>2, NoHole DEF Batch
  <1>5. PICK newest \in [Series -> StoredAtStart] :
          /\ bars = [s \in Series |-> 0..newest[s]]
          /\ forming = [s \in Series |-> {newest[s]} \cap Nat]
    BY DEF Init
  <1>6. ASSUME NEW s \in Series PROVE forming[s] \subseteq bars[s] /\ Sound(s)
    <2> DEFINE n == newest[s]
    <2>1. n \in Int /\ bars[s] = 0..n /\ forming[s] = {n} \cap Nat
      <3>1. newest[s] \in -1..MaxBar - 1
        BY <1>5, <1>6, DataSyncAssumption
      <3>2. newest[s] \in Int
        BY <3>1, Constants
      <3>3. bars[s] = 0..newest[s] /\ forming[s] = {newest[s]} \cap Nat
        BY <1>5, <1>6
      <3>4. QED
        BY <3>2, <3>3
    <2> HIDE DEF n
    <2>2. Contiguous(0..n)
      BY <2>1 DEF Contiguous
    <2>3. ASSUME bars[s] # {} PROVE n \in forming[s] /\ Top(bars[s], n) /\ \A f \in forming[s] : f >= n - 1
      BY <2>1, <2>3 DEF Top
    <2>4. QED
      BY <2>1, <2>2, <2>3 DEF Sound
  <1>7. SeriesSound
    BY <1>6 DEF SeriesSound
  <1>8. Progress
    BY <1>2 DEF Progress
  <1>9. QED
    BY <1>1, <1>3, <1>4, <1>7, <1>8 DEF IInv

LEMMA InvariantStep == IInv /\ [Next]_vars => IInv'
  BY TypeStep, ClockStep, BatchStep, SoundStep, ProgressStep DEF IInv

LEMMA Invariance == Spec => []IInv
  BY InvariantInit, InvariantStep, PTL DEF Spec

\* Every variable of the synchronisation keeps its type, for any number of series,
\* bars, retries and faults.
THEOREM DataSyncTypes == Spec => []TypeOK
  <1>1. IInv => TypeOK
    BY DEF IInv
  <1>2. QED
    BY <1>1, Invariance, PTL

\* Whatever fails and whenever a bar opens: a series that never got a batch with a
\* hole has no hole, and copies of forming bars are among its two newest bars.
THEOREM DataSyncStoreIsSound == Spec => []StoreIsSound
  <1>1. IInv => StoreIsSound
    <2> SUFFICES ASSUME IInv, NEW s \in Series \ holed
                 PROVE  Contiguous(bars[s]) /\ (s \notin outdated => forming[s] \subseteq NewestTwo(bars[s]))
      BY DEF StoreIsSound
    <2>1. Sound(s) /\ forming[s] \subseteq bars[s] /\ bars[s] \subseteq Nat
      BY Bars DEF IInv, SeriesSound
    <2>2. ASSUME s \notin outdated, NEW f \in forming[s] PROVE f \in NewestTwo(bars[s])
      <3>1. PICK m \in forming[s] : Top(bars[s], m) /\ \A g \in forming[s] : g >= m - 1
        BY <2>1, <2>2 DEF Sound
      <3>2. \A c, d \in bars[s] : ~(f < c /\ c < d)
        BY <2>1, <2>2, <3>1 DEF Top
      <3>3. QED
        BY <2>1, <2>2, <3>2 DEF NewestTwo
    <2>3. QED
      BY <2>1, <2>2 DEF Sound
  <1>2. QED
    BY <1>1, Invariance, PTL

\* A run that is recorded as completed and rejected no bar has left every series
\* with a bar at least as new as the one that was forming when it began.
THEOREM DataSyncCompletedMeansCurrent == Spec => []CompletedMeansCurrent
  <1>1. IInv => CompletedMeansCurrent
    <2> SUFFICES ASSUME IInv, status = "completed", ~rejected, NEW s \in Series
                 PROVE  bars[s] # {} /\ Max(bars[s]) >= begun
      BY DEF CompletedMeansCurrent
    <2>1. PICK b \in bars[s] : b >= begun
      BY DEF IInv, Progress, Reached
    <2>2. bars[s] \subseteq 0..MaxBar /\ begun \in Nat
      BY Bars DEF IInv, TypeOK
    <2>3. Max(bars[s]) \in bars[s] /\ b <= Max(bars[s])
      BY <2>1, <2>2, HasMax, Constants
    <2>4. Max(bars[s]) \in Nat /\ b \in Nat
      BY <2>1, <2>2, <2>3
    <2>5. QED
      BY <2>1, <2>2, <2>3, <2>4
  <1>2. QED
    BY <1>1, Invariance, PTL
=============================================================================
