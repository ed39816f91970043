-------------------------- MODULE RiskControlProofs --------------------------
(***************************************************************************)
(* Proofs about RiskControl, for any agents, symbols, caps and equities:   *)
(* type correctness, that neither the drawdown nor an open circuit is      *)
(* forgotten from one run to the next, and that no order exceeds a cap when *)
(* it is filled, for which the sums of exposure are shown to be sums.      *)
(***************************************************************************)
EXTENDS RiskControl, FiniteSetTheorems, SequenceTheorems, WellFoundedInduction, TLAPS

Live(a) == pc[a] # "off"

Vias == {"single", "symbol", "sector", "total", "none", "guess"}

\* Until two agents overlap there is only one.
Alone == ~overlapped => \A a, b \in Agents : Live(a) /\ Live(b) => a = b

\* The database and the agent that lives know the highest equity ever read.
Remembered == Sound => disk.peak = top /\ \A a \in Agents : Live(a) => mem[a].peak = top

\* While a cooldown lasts, the database and the agent that lives know it.
Cooling == Sound /\ running # {} => /\ disk.active /\ running = {disk.until}
                                    /\ \A a \in Agents : Live(a) => mem[a] = disk

Invariant == TypeOK /\ Alone /\ Remembered /\ Cooling

-----------------------------------------------------------------------------
(* The operators                                                           *)

\* A row stays a row when the peak is refreshed or a cooldown is over.
LEMMA RowTypes ==
  ASSUME NEW m \in Rows, NEW e \in Equities
  PROVE  /\ Refreshed(m, e) \in Rows /\ Cooled(m) \in Rows /\ NoRow \in Rows
         /\ Refreshed(m, e).active = m.active /\ Refreshed(m, e).until = m.until
         /\ Refreshed(m, e).peak = IF m.peak = 0 \/ e > m.peak THEN e ELSE m.peak
         /\ Cooled(m).peak = m.peak
         /\ Cooled(m).active => Cooled(m) = m
         /\ NoRow.active = FALSE
  BY SMT DEF Refreshed, Cooled, NoRow, Row, Rows

\* A sequence that is not empty has a head and a tail.
LEMMA SeqFacts ==
  ASSUME NEW S, NEW q \in Seq(S)
  PROVE  /\ q # << >> => Head(q) \in S /\ Tail(q) \in Seq(S) /\ (Len(q) # 1 => Tail(q) # << >>)
         /\ \A x \in S : Append(q, x) \in Seq(S) /\ Append(q, x) # << >>
         /\ << >> \in Seq(S)
<1>1. \A x \in S : Append(q, x) \in Seq(S) /\ Append(q, x) # << >>
  BY AppendProperties
<1>2. ASSUME q # << >>
      PROVE  Head(q) \in S /\ Tail(q) \in Seq(S) /\ Len(Tail(q)) = Len(q) - 1
  BY <1>2, HeadTailProperties
<1>3. q # << >> => Len(q) \in Nat \ {0}
  BY EmptySeq
<1>4. ASSUME q # << >>, Len(q) # 1
      PROVE  Tail(q) # << >>
  <2>1. Len(Tail(q)) # 0
    BY <1>2, <1>3, <1>4, SMT
  <2>2. Len(<< >>) = 0
    BY EmptySeq
  <2> QED
    BY <2>1, <2>2
<1> QED
  BY <1>1, <1>2, <1>4, EmptySeq

\* Faults are only added.
LEMMA FaultTypes ==
  ASSUME TypeOK, NEW f, Happens(f)
  PROVE  faults' \subseteq AllFaults /\ faultCount' \in 0..FaultBound /\ faults \subseteq faults' /\ f \in faults'
  BY RiskAssumption, SMT DEF TypeOK, Happens

-----------------------------------------------------------------------------
(* Sums over a finite set.  SumFunctionOnSet is a recursive function over   *)
(* its subsets; what holds of each of them is proved of a least one of      *)
(* which it would not hold.                                                 *)

\* The one that a sum takes out first, and what makes a function the sums of f.
Pick(T) == CHOOSE x \in T : TRUE
Sums(f, h, S) == h = [T \in SUBSET S |-> IF T = {} THEN 0 ELSE f[Pick(T)] + h[T \ {Pick(T)}]]

\* Some subsets of a finite set, if there are any, have a least one among them.
LEMMA LeastSubset ==
  ASSUME NEW S, IsFiniteSet(S), NEW bad, bad \subseteq SUBSET S, bad # {}
  PROVE  \E T \in bad : \A U \in bad : U \subseteq T => U = T
<1>1. IsWellFoundedOn(StrictSubsetOrdering(S), SUBSET S)
  BY FS_StrictSubsetOrderingWellFounded, FS_FiniteSubsetsOfFinite
<1>2. PICK T \in bad : \A U \in bad : ~(<<U, T>> \in StrictSubsetOrdering(S))
  BY <1>1, WFMin
<1>3. ASSUME NEW U \in bad, U \subseteq T, U # T PROVE FALSE
  <2>1. <<U, T>> \in StrictSubsetOrdering(S)
    BY <1>3 DEF StrictSubsetOrdering
  <2> QED
    BY <1>2, <1>3, <2>1
<1> QED
  BY <1>2, <1>3

\* A set without one of its members is smaller.
LEMMA Smaller ==
  ASSUME NEW T, T # {}
  PROVE  Pick(T) \in T /\ T \ {Pick(T)} \subseteq T /\ T \ {Pick(T)} # T
  BY DEF Pick

\* The sums of f over the same sets are the same.
LEMMA SumsAgree ==
  ASSUME NEW S, IsFiniteSet(S), NEW f, NEW h, NEW g, NEW A, NEW B, S \subseteq A, S \subseteq B,
         Sums(f, h, A), Sums(f, g, B)
  PROVE  \A T \in SUBSET S : h[T] = g[T]
<1> DEFINE bad == {T \in SUBSET S : h[T] # g[T]}
<1> SUFFICES ASSUME bad # {} PROVE FALSE
  OBVIOUS
<1>0. bad \in SUBSET SUBSET S
  OBVIOUS
<1>1. PICK T \in bad : \A U \in bad : U \subseteq T => U = T
  <2> HIDE DEF bad
  <2> QED
    BY <1>0, LeastSubset
<1>2. /\ T \in SUBSET S /\ h[T] # g[T]
      /\ \A U \in SUBSET S : U \subseteq T /\ U # T => h[U] = g[U]
  BY <1>1
<1>3. /\ h[T] = IF T = {} THEN 0 ELSE f[Pick(T)] + h[T \ {Pick(T)}]
      /\ g[T] = IF T = {} THEN 0 ELSE f[Pick(T)] + g[T \ {Pick(T)}]
  <2>1. T \in SUBSET A /\ T \in SUBSET B
    BY <1>2
  <2> QED
    BY <2>1, Zenon DEF Sums
<1>4. CASE T = {}
  BY <1>2, <1>3, <1>4
<1>5. CASE T # {}
  <2>1. T \ {Pick(T)} \in SUBSET S /\ h[T \ {Pick(T)}] = g[T \ {Pick(T)}]
    BY <1>2, <1>5, Smaller
  <2> QED
    BY <1>2, <1>3, <1>5, <2>1
<1> QED
  BY <1>4, <1>5

\* A finite set has the sums of f.
LEMMA SumsExist ==
  ASSUME NEW S, IsFiniteSet(S), NEW f
  PROVE  \E h : Sums(f, h, S)
<1> DEFINE bad == {T \in SUBSET S : ~\E h : Sums(f, h, T)}
<1> SUFFICES ASSUME bad # {} PROVE FALSE
  OBVIOUS
<1>0. bad \in SUBSET SUBSET S
  OBVIOUS
<1>1. PICK B \in bad : \A U \in bad : U \subseteq B => U = B
  <2> HIDE DEF bad
  <2> QED
    BY <1>0, LeastSubset
<1>2. /\ B \in SUBSET S /\ ~\E h : Sums(f, h, B)
      /\ \A U \in SUBSET B : U # B => \E h : Sums(f, h, U)
  BY <1>1
<1> DEFINE k == [U \in SUBSET B |-> CHOOSE h : Sums(f, h, U)]
           g == [T \in SUBSET B |-> IF T = {} THEN 0 ELSE f[Pick(T)] + k[T \ {Pick(T)}][T \ {Pick(T)}]]
<1>3. \A U \in SUBSET B : U # B => Sums(f, k[U], U)
  BY <1>2
<1>4. \A T \in SUBSET B : T # B => g[T] = k[T][T]
  <2> SUFFICES ASSUME NEW T \in SUBSET B, T # B PROVE g[T] = k[T][T]
    OBVIOUS
  <2>1. Sums(f, k[T], T)
    BY <1>3
  <2>2. k[T][T] = IF T = {} THEN 0 ELSE f[Pick(T)] + k[T][T \ {Pick(T)}]
    <3> HIDE DEF k
    <3>1. T \in SUBSET T
      OBVIOUS
    <3> QED
      BY <2>1, <3>1, Zenon DEF Sums
  <2>3. g[T] = IF T = {} THEN 0 ELSE f[Pick(T)] + k[T \ {Pick(T)}][T \ {Pick(T)}]
    BY Zenon
  <2>4. CASE T # {}
    <3> DEFINE U == T \ {Pick(T)}
    <3>1. U \subseteq T /\ U # T
      BY <2>4, Smaller
    <3> HIDE DEF U
    <3>2. U \in SUBSET B /\ U # B /\ IsFiniteSet(U)
      BY <1>2, <3>1, FS_Subset
    <3>3. Sums(f, k[U], U)
      BY <1>3, <3>2
    <3> HIDE DEF k
    <3>4. \A V \in SUBSET U : k[T][V] = k[U][V]
      BY <2>1, <3>1, <3>2, <3>3, SumsAgree
    <3>5. k[T][U] = k[U][U]
      BY <3>4
    <3> QED
      BY <2>2, <2>3, <2>4, <3>5 DEF U
  <2> HIDE DEF k, g
  <2> QED
    BY <2>2, <2>3, <2>4
<1>5. Sums(f, g, B)
  <2>1. \A T \in SUBSET B : T # {} => T \ {Pick(T)} \in SUBSET B /\ T \ {Pick(T)} # B
    BY Smaller
  <2>2. \A T \in SUBSET B : T # {} => k[T \ {Pick(T)}][T \ {Pick(T)}] = g[T \ {Pick(T)}]
    <3> HIDE DEF k, g
    <3> QED
      BY <1>4, <2>1
  <2>3. g = [T \in SUBSET B |-> IF T = {} THEN 0 ELSE f[Pick(T)] + g[T \ {Pick(T)}]]
    <3> DEFINE G(T) == IF T = {} THEN 0 ELSE f[Pick(T)] + k[T \ {Pick(T)}][T \ {Pick(T)}]
               H(T) == IF T = {} THEN 0 ELSE f[Pick(T)] + g[T \ {Pick(T)}]
    <3>1. \A T \in SUBSET B : G(T) = H(T)
      <4> HIDE DEF k, g
      <4> QED
        BY <2>2
    <3>2. g = [T \in SUBSET B |-> G(T)]
      OBVIOUS
    <3> HIDE DEF G, H, g
    <3>3. g = [T \in SUBSET B |-> H(T)]
      BY <3>1, <3>2
    <3> QED
      BY <3>3 DEF H
  <2> HIDE DEF g
  <2> QED
    BY <2>3 DEF Sums
<1> QED
  BY <1>2, <1>5

\* SumFunctionOnSet is one of the sums of f.
LEMMA SumIsSums ==
  ASSUME NEW S, IsFiniteSet(S), NEW f
  PROVE  \E h : Sums(f, h, S) /\ \A T \in SUBSET S : Fun!SumFunctionOnSet(f, T) = h[T]
<1>1. PICK h : Sums(f, h, S)
  BY SumsExist
<1>2. ASSUME NEW T \in SUBSET S PROVE Fun!SumFunctionOnSet(f, T) = h[T]
  <2> DEFINE i == CHOOSE g : Sums(f, g, T)
  <2>1. Fun!SumFunctionOnSet(f, T) = i[T]
    BY DEF Fun!SumFunctionOnSet, Fun!FoldFunctionOnSet, Fun!MapThenFoldSet, Sums, Pick
  <2>2. Sums(f, i, T) /\ IsFiniteSet(T)
    BY SumsExist, FS_Subset
  <2> HIDE DEF i
  <2>3. i[T] = h[T]
    BY <1>1, <2>2, SumsAgree
  <2> QED
    BY <2>1, <2>3
<1> QED
  BY <1>1, <1>2

\* A sum of numbers is a number, and any of them may be taken out first.
LEMMA SumFacts ==
  ASSUME NEW S, IsFiniteSet(S), NEW f, \A x \in S : f[x] \in Nat
  PROVE  /\ Fun!SumFunctionOnSet(f, {}) = 0
         /\ \A T \in SUBSET S : Fun!SumFunctionOnSet(f, T) \in Nat
         /\ \A T \in SUBSET S : \A x \in T :
               Fun!SumFunctionOnSet(f, T) = f[x] + Fun!SumFunctionOnSet(f, T \ {x})
<1>1. PICK h : Sums(f, h, S) /\ \A T \in SUBSET S : Fun!SumFunctionOnSet(f, T) = h[T]
  BY SumIsSums
<1>2. \A T \in SUBSET S : h[T] = IF T = {} THEN 0 ELSE f[Pick(T)] + h[T \ {Pick(T)}]
  BY <1>1, Zenon DEF Sums
<1> DEFINE bad == {T \in SUBSET S : ~(h[T] \in Nat /\ \A x \in T : h[T] = f[x] + h[T \ {x}])}
<1>3. bad = {}
  <2> SUFFICES ASSUME bad # {} PROVE FALSE
    OBVIOUS
  <2>0. bad \in SUBSET SUBSET S
    OBVIOUS
  <2>1. PICK T \in bad : \A U \in bad : U \subseteq T => U = T
    <3> HIDE DEF bad
    <3> QED
      BY <2>0, LeastSubset
  <2>2. /\ T \in SUBSET S /\ ~(h[T] \in Nat /\ \A x \in T : h[T] = f[x] + h[T \ {x}])
        /\ \A U \in SUBSET T : U # T => h[U] \in Nat /\ \A x \in U : h[U] = f[x] + h[U \ {x}]
    <3>1. \A U \in SUBSET T : U \in SUBSET S /\ (U # T => U \notin bad)
      BY <2>0, <2>1
    <3> QED
      BY <2>1, <3>1
  <2>3. T # {}
    <3>1. h[{}] = 0
      BY <1>2
    <3>2. ASSUME T = {} PROVE FALSE
      BY <2>2, <3>1, <3>2
    <3> QED
      BY <3>2
  <2> DEFINE y == Pick(T)
  <2>4. y \in T /\ T \ {y} \subseteq T /\ T \ {y} # T
    BY <2>3, Smaller
  <2>5. h[T] = f[y] + h[T \ {y}]
    BY <1>2, <2>2, <2>3
  <2> HIDE DEF y
  <2>6. h[T \ {y}] \in Nat /\ f[y] \in Nat /\ h[T] \in Nat
    BY <2>2, <2>4, <2>5
  <2>7. ASSUME NEW x \in T PROVE h[T] = f[x] + h[T \ {x}]
    <3>1. CASE x = y
      BY <2>5, <3>1
    <3>2. CASE x # y
      <4>1. x \in T \ {y} /\ y \in T \ {x} /\ T \ {x} \subseteq T /\ T \ {x} # T
        BY <2>4, <3>2
      <4> DEFINE U == (T \ {y}) \ {x}
      <4>2. (T \ {x}) \ {y} = U
        OBVIOUS
      <4>3. h[T \ {y}] = f[x] + h[U]
        BY <2>2, <2>4, <4>1
      <4>4. h[T \ {x}] = f[y] + h[U]
        BY <2>2, <4>1, <4>2
      <4>5. h[U] \in Nat /\ f[x] \in Nat
        <5>1. U \in SUBSET T /\ U # T
          BY <2>4
        <5> QED
          BY <2>2, <5>1
      <4> HIDE DEF U
      <4> QED
        BY <2>5, <2>6, <4>3, <4>4, <4>5, SMT
    <3> QED
      BY <3>1, <3>2
  <2> QED
    BY <2>2, <2>6, <2>7
<1>4. \A T \in SUBSET S : h[T] \in Nat /\ \A x \in T : h[T] = f[x] + h[T \ {x}]
  BY <1>3
<1>5. h[{}] = 0
  BY <1>2
<1> QED
  BY <1>1, <1>4, <1>5

\* A sum of greater numbers is not smaller.
LEMMA SumGrows ==
  ASSUME NEW S, IsFiniteSet(S), NEW f, NEW g, \A x \in S : f[x] \in Nat /\ g[x] \in Nat /\ f[x] <= g[x]
  PROVE  Fun!SumFunctionOnSet(f, S) <= Fun!SumFunctionOnSet(g, S)
<1> DEFINE F(T) == Fun!SumFunctionOnSet(f, T)
           G(T) == Fun!SumFunctionOnSet(g, T)
           bad == {T \in SUBSET S : ~(F(T) <= G(T))}
<1>1. /\ F({}) = 0 /\ G({}) = 0
      /\ \A T \in SUBSET S : F(T) \in Nat /\ G(T) \in Nat
      /\ \A T \in SUBSET S : \A x \in T : F(T) = f[x] + F(T \ {x}) /\ G(T) = g[x] + G(T \ {x})
  <2>1. (\A x \in S : f[x] \in Nat) /\ \A x \in S : g[x] \in Nat
    OBVIOUS
  <2>2. /\ F({}) = 0 /\ \A T \in SUBSET S : F(T) \in Nat
        /\ \A T \in SUBSET S : \A x \in T : F(T) = f[x] + F(T \ {x})
    <3>1. Fun!SumFunctionOnSet(f, {}) = 0
      BY <2>1, SumFacts
    <3>2. \A T \in SUBSET S : Fun!SumFunctionOnSet(f, T) \in Nat
      BY <2>1, SumFacts
    <3>3. ASSUME NEW T \in SUBSET S, NEW x \in T
          PROVE  Fun!SumFunctionOnSet(f, T) = f[x] + Fun!SumFunctionOnSet(f, T \ {x})
      BY <2>1, SumFacts
    <3> QED
      BY <3>1, <3>2, <3>3
  <2>3. /\ G({}) = 0 /\ \A T \in SUBSET S : G(T) \in Nat
        /\ \A T \in SUBSET S : \A x \in T : G(T) = g[x] + G(T \ {x})
    <3>1. Fun!SumFunctionOnSet(g, {}) = 0
      BY <2>1, SumFacts
    <3>2. \A T \in SUBSET S : Fun!SumFunctionOnSet(g, T) \in Nat
      BY <2>1, SumFacts
    <3>3. ASSUME NEW T \in SUBSET S, NEW x \in T
          PROVE  Fun!SumFunctionOnSet(g, T) = g[x] + Fun!SumFunctionOnSet(g, T \ {x})
      BY <2>1, SumFacts
    <3> QED
      BY <3>1, <3>2, <3>3
  <2> HIDE DEF F, G
  <2> QED
    BY <2>2, <2>3
<1> HIDE DEF F, G
<1>2. bad = {}
  <2> SUFFICES ASSUME bad # {} PROVE FALSE
    OBVIOUS
  <2>0. bad \in SUBSET SUBSET S
    OBVIOUS
  <2>1. PICK T \in bad : \A U \in bad : U \subseteq T => U = T
    <3> HIDE DEF bad
    <3> QED
      BY <2>0, LeastSubset
  <2>2. T \in SUBSET S /\ ~(F(T) <= G(T)) /\ \A U \in SUBSET T : U # T => F(U) <= G(U)
    <3>1. \A U \in SUBSET T : U \in SUBSET S /\ (U # T => U \notin bad)
      BY <2>0, <2>1
    <3> QED
      BY <2>1, <3>1
  <2>3. T # {}
    <3>1. ASSUME T = {} PROVE F(T) = 0 /\ G(T) = 0
      BY <1>1, <3>1
    <3> QED
      BY <2>2, <3>1, SMT
  <2>4. PICK x \in T : T \ {x} \in SUBSET T /\ T \ {x} # T
    BY <2>3
  <2>5. F(T \ {x}) <= G(T \ {x}) /\ F(T \ {x}) \in Nat /\ G(T \ {x}) \in Nat
    BY <1>1, <2>2, <2>4
  <2>6. F(T) = f[x] + F(T \ {x}) /\ G(T) = g[x] + G(T \ {x}) /\ f[x] \in Nat /\ g[x] \in Nat /\ f[x] <= g[x]
    BY <1>1, <2>2, <2>4
  <2> QED
    BY <2>2, <2>5, <2>6
<1> QED
  BY <1>2 DEF F, G

-----------------------------------------------------------------------------
(* What is used                                                            *)

\* What an order of some lots counts for.
Worth(s, lots) == lots * (100 * Price[s])

\* The worth of lots is a number and grows with them.
LEMMA WorthFacts ==
  ASSUME NEW s \in Symbols, NEW n \in Nat, NEW m \in Nat
  PROVE  /\ Worth(s, n) \in Nat /\ Worth(s, n + m) = Worth(s, n) + Worth(s, m)
         /\ n <= m => Worth(s, n) <= Worth(s, m)
         /\ \A e : Weight(s, e, {}) = 100 * Price[s]
<1>1. Price[s] \in Nat
  BY RiskAssumption
<1> DEFINE w == 100 * Price[s]
<1>2. w \in Nat
  BY <1>1
<1> HIDE DEF w
<1>3. n * w \in Nat /\ m * w \in Nat /\ (n + m) * w = n * w + m * w
  BY <1>2, SMT
<1>4. ASSUME n <= m PROVE n * w <= m * w
  <2>1. m - n \in Nat /\ m = n + (m - n)
    BY <1>4, SMT
  <2>2. m * w = n * w + (m - n) * w /\ (m - n) * w \in Nat
    BY <1>2, <2>1, SMT
  <2> QED
    BY <1>3, <2>2, SMT
<1> QED
  BY <1>3, <1>4 DEF Worth, Weight, w

\* What is used is the sum of what the lots are worth.
LEMMA UsedFacts ==
  ASSUME NEW lots \in [Symbols -> Nat], NEW S \in SUBSET Symbols, NEW e
  PROVE  /\ Used(lots, S, e, {}) = Fun!SumFunctionOnSet([s \in Symbols |-> Worth(s, lots[s])], S)
         /\ Used(lots, S, e, {}) \in Nat /\ IsFiniteSet(S)
         /\ Used(lots, {}, e, {}) = 0
<1> DEFINE f == [s \in Symbols |-> Worth(s, lots[s])]
<1>1. IsFiniteSet(S)
  BY RiskAssumption, FS_Subset
<1>2. \A s \in Symbols : Worth(s, lots[s]) \in Nat /\ lots[s] * Weight(s, e, {}) = Worth(s, lots[s])
  BY WorthFacts DEF Worth
<1>3. f = [s \in Symbols |-> lots[s] * Weight(s, e, {})]
  BY <1>2
<1>4. \A s \in S : f[s] \in Nat
  BY <1>2
<1>5. Used(lots, S, e, {}) = Fun!SumFunctionOnSet(f, S) /\ Used(lots, {}, e, {}) = Fun!SumFunctionOnSet(f, {})
  BY <1>3, Zenon DEF Used
<1> HIDE DEF f
<1>6. Fun!SumFunctionOnSet(f, S) \in Nat /\ Fun!SumFunctionOnSet(f, {}) = 0
  BY <1>1, <1>4, SumFacts
<1> QED
  BY <1>1, <1>5, <1>6 DEF f

\* Fewer lots use no more.
LEMMA UsedGrows ==
  ASSUME NEW lots \in [Symbols -> Nat], NEW less \in [Symbols -> Nat], \A s \in Symbols : less[s] <= lots[s],
         NEW S \in SUBSET Symbols, NEW e
  PROVE  Used(less, S, e, {}) <= Used(lots, S, e, {})
<1> DEFINE f == [s \in Symbols |-> Worth(s, less[s])]
           g == [s \in Symbols |-> Worth(s, lots[s])]
<1>1. \A s \in S : f[s] \in Nat /\ g[s] \in Nat /\ f[s] <= g[s]
  BY WorthFacts
<1>2. Used(less, S, e, {}) = Fun!SumFunctionOnSet(f, S) /\ Used(lots, S, e, {}) = Fun!SumFunctionOnSet(g, S)
      /\ IsFiniteSet(S)
  BY UsedFacts
<1> HIDE DEF f, g
<1>3. Fun!SumFunctionOnSet(f, S) <= Fun!SumFunctionOnSet(g, S)
  BY <1>1, <1>2, SumGrows
<1> QED
  BY <1>2, <1>3

\* In more there are n lots of s more than in lots.
Adds(lots, more, s, n) == more[s] = lots[s] + n /\ \A x \in Symbols : x # s => more[x] = lots[x]

\* More lots of a symbol use what they are worth, where the symbol counts.
LEMMA UsedAdds ==
  ASSUME NEW lots \in [Symbols -> Nat], NEW s \in Symbols, NEW n \in Nat,
         NEW more \in [Symbols -> Nat], Adds(lots, more, s, n), NEW S \in SUBSET Symbols, NEW e
  PROVE  /\ s \in S => Used(more, S, e, {}) = Used(lots, S, e, {}) + Worth(s, n)
         /\ s \notin S => Used(more, S, e, {}) = Used(lots, S, e, {})
<1> DEFINE f == [x \in Symbols |-> Worth(x, lots[x])]
           g == [x \in Symbols |-> Worth(x, more[x])]
           F(T) == Fun!SumFunctionOnSet(f, T)
           G(T) == Fun!SumFunctionOnSet(g, T)
<1>1. more \in [Symbols -> Nat] /\ more[s] = lots[s] + n /\ \A x \in Symbols : x # s => more[x] = lots[x]
  BY DEF Adds
<1>2. \A x \in Symbols : f[x] \in Nat /\ g[x] \in Nat
  BY <1>1, WorthFacts
<1>3. g[s] = f[s] + Worth(s, n) /\ Worth(s, n) \in Nat /\ \A x \in Symbols : x # s => g[x] = f[x]
  BY <1>1, WorthFacts
<1>4. Used(lots, S, e, {}) = F(S) /\ Used(more, S, e, {}) = G(S) /\ IsFiniteSet(S)
  BY <1>1, UsedFacts
<1> HIDE DEF f, g
<1>5. ASSUME NEW T \in SUBSET S, s \notin T PROVE F(T) = G(T) /\ F(T) \in Nat
  <2>1. IsFiniteSet(T) /\ \A x \in T : f[x] \in Nat /\ g[x] \in Nat /\ f[x] <= g[x] /\ g[x] <= f[x]
    BY <1>2, <1>3, <1>4, <1>5, FS_Subset
  <2>2. Fun!SumFunctionOnSet(f, T) <= Fun!SumFunctionOnSet(g, T)
    BY <2>1, SumGrows
  <2>3. Fun!SumFunctionOnSet(g, T) <= Fun!SumFunctionOnSet(f, T)
    BY <2>1, SumGrows
  <2>4. Fun!SumFunctionOnSet(f, T) \in Nat /\ Fun!SumFunctionOnSet(g, T) \in Nat
    BY <2>1, SumFacts
  <2> QED
    BY <2>2, <2>3, <2>4
<1>6. ASSUME s \in S PROVE G(S) = F(S) + Worth(s, n)
  <2>1. (\A x \in S : f[x] \in Nat) /\ \A x \in S : g[x] \in Nat
    BY <1>2
  <2>2. Fun!SumFunctionOnSet(f, S) = f[s] + Fun!SumFunctionOnSet(f, S \ {s})
    BY <1>4, <1>6, <2>1, SumFacts
  <2>3. Fun!SumFunctionOnSet(g, S) = g[s] + Fun!SumFunctionOnSet(g, S \ {s})
    BY <1>4, <1>6, <2>1, SumFacts
  <2>4. F(S \ {s}) = G(S \ {s}) /\ F(S \ {s}) \in Nat
    BY <1>5
  <2> HIDE DEF F, G
  <2> QED
    BY <1>2, <1>3, <2>2, <2>3, <2>4 DEF F, G
<1> QED
  BY <1>4, <1>5, <1>6

\* As many lots as fit in what is left of a cap are worth no more than it.
LEMMA RoomFits ==
  ASSUME NEW s \in Symbols, NEW cap \in Nat, NEW e \in Nat, NEW used \in Nat, NEW lots \in Scaled(Room(s, cap, used, e, {}))
  PROVE  lots \in Nat /\ used + Worth(s, lots) <= cap * e
<1> DEFINE w == 100 * Price[s]
           left == cap * e - used
           q == left \div w
<1>1. w \in Nat \ {0} /\ cap * e \in Nat
  <2>1. Price[s] \in Nat \ {0}
    BY RiskAssumption
  <2> QED
    BY <2>1, SMT
<1>2. lots \in 1..(IF cap * e > used THEN q ELSE 0)
  BY WorthFacts, Zenon DEF Scaled, Room
<1> HIDE DEF w
<1>3. cap * e > used
  BY <1>2, SMT
<1>4. left \in Nat /\ used + left = cap * e
  BY <1>1, <1>3, SMT
<1> HIDE DEF left
<1>5. q \in Nat /\ w * q <= left
  BY <1>1, <1>4, SMT
<1>6. lots \in Nat /\ lots <= q
  BY <1>2, <1>3, <1>5, SMT
<1> HIDE DEF q
<1>7. Worth(s, lots) <= Worth(s, q) /\ Worth(s, q) = q * w /\ Worth(s, lots) \in Nat
  BY <1>5, <1>6, WorthFacts DEF Worth, w
<1>8. q * w = w * q
  BY <1>1, <1>5, SMT
<1>9. q * w \in Nat
  BY <1>1, <1>5, SMT
<1> QED
  BY <1>1, <1>4, <1>5, <1>6, <1>7, <1>8, <1>9, SMT

-----------------------------------------------------------------------------
(* Every action keeps the invariant                                        *)

\* The world does not touch the agents and the database.
LEMMA WorldKeeps ==
  ASSUME Invariant,
         \/ MoveEquity \/ (\E s \in Symbols : Close(s)) \/ \E k \in Cooldowns : CooldownEnds(k)
  PROVE  Invariant'
<1>1. /\ UNCHANGED <<agentVars, disk, top, overlapped, faultVars>> /\ running' \subseteq running
      /\ equity' \in Equities /\ held' \in [Symbols -> Nat]
  <2>1. CASE MoveEquity
    BY <2>1 DEF MoveEquity, Invariant, TypeOK
  <2>2. ASSUME NEW s \in Symbols, Close(s)
        PROVE  held' \in [Symbols -> Nat]
    BY <2>2, SMT DEF Close, Invariant, TypeOK
  <2>3. CASE \E s \in Symbols : Close(s)
    BY <2>2, <2>3 DEF Close, Invariant, TypeOK
  <2>4. CASE \E k \in Cooldowns : CooldownEnds(k)
    BY <2>4 DEF CooldownEnds, Invariant, TypeOK
  <2> QED
    BY <2>1, <2>3, <2>4
<1>2. TypeOK'
  BY <1>1, SMT DEF Invariant, TypeOK, agentVars, faultVars
<1>3. Alone' /\ Remembered' /\ Cooling'
  BY <1>1 DEF Invariant, Alone, Remembered, Cooling, Sound, Live, agentVars, faultVars
<1> QED
  BY <1>2, <1>3 DEF Invariant

\* A new agent reads what the database remembers.
LEMMA BuildKeeps ==
  ASSUME Invariant, NEW a \in Agents, Build(a)
  PROVE  Invariant'
<1>1. /\ pc[a] = "off" /\ pc' = [pc EXCEPT ![a] = "idle"] /\ mem' = [mem EXCEPT ![a] = disk]
      /\ overlapped' = (overlapped \/ \E b \in Agents : pc[b] # "off")
      /\ UNCHANGED <<seen, legs, orders, disk, worldVars, top, faultVars>>
  BY DEF Build, Goes, Loaded
<1>2. pc'[a] = "idle" /\ mem'[a] = disk
      /\ \A b \in Agents : b # a => pc'[b] = pc[b] /\ mem'[b] = mem[b]
  BY <1>1 DEF Invariant, TypeOK
<1>3. TypeOK'
  <2>1. pc' \in [Agents -> {"off", "idle", "assess", "circuit", "verdict", "execute"}]
        /\ mem' \in [Agents -> Rows]
    BY <1>1 DEF Invariant, TypeOK
  <2>2. overlapped' \in BOOLEAN
    BY <1>1
  <2> QED
    BY <1>1, <1>2, <2>1, <2>2, SMT DEF Invariant, TypeOK, worldVars, faultVars
<1>4. Alone'
  BY <1>1, <1>2 DEF Alone, Live
<1>5. ~overlapped' => ~overlapped /\ \A b \in Agents : b # a => pc'[b] = "off"
  BY <1>1, <1>2
<1>6. Remembered' /\ Cooling'
  BY <1>1, <1>2, <1>5 DEF Invariant, Remembered, Cooling, Sound, Live, worldVars, faultVars
<1> QED
  BY <1>3, <1>4, <1>6 DEF Invariant

\* An agent that is gone takes nothing with it.
LEMMA GoneKeeps ==
  ASSUME Invariant, NEW a \in Agents, Gone(a), UNCHANGED faultVars \/ \E f \in Faults : Happens(f)
  PROVE  Invariant'
<1>1. faults' \subseteq AllFaults /\ faultCount' \in 0..FaultBound /\ faults \subseteq faults'
  BY FaultTypes DEF Invariant, TypeOK, faultVars
<1>2. /\ pc' = [pc EXCEPT ![a] = "off"] /\ mem' = [mem EXCEPT ![a] = NoRow]
      /\ seen' = [seen EXCEPT ![a] = 0] /\ legs' = [legs EXCEPT ![a] = << >>]
      /\ orders' = [orders EXCEPT ![a] = << >>]
      /\ UNCHANGED <<disk, worldVars, top, overlapped>>
  BY DEF Gone
<1>3. pc'[a] = "off" /\ \A b \in Agents : b # a => pc'[b] = pc[b] /\ mem'[b] = mem[b]
  BY <1>2 DEF Invariant, TypeOK
<1>4. TypeOK'
  <2>1. NoRow \in Rows /\ NoRow.active = FALSE
    BY SMT DEF NoRow, Row, Rows
  <2>2. << >> \in Seq(Symbols) /\ << >> \in Seq(Approvals)
    OBVIOUS
  <2> QED
    BY <1>1, <1>2, <1>3, <2>1, <2>2, SMT DEF Invariant, TypeOK, worldVars
<1>5. Alone' /\ Remembered' /\ Cooling'
  BY <1>1, <1>2, <1>3 DEF Invariant, Alone, Remembered, Cooling, Sound, Live, worldVars
<1> QED
  BY <1>4, <1>5 DEF Invariant

\* Begin, reject and execute leave what the agent remembers.
LEMMA QuietKeeps ==
  ASSUME Invariant, NEW a \in Agents,
         Begin(a) \/ AssessBlind(a) \/ Reject(a) \/ Fills(a) \/ FillsNot(a)
  PROVE  Invariant'
<1>1. /\ UNCHANGED <<mem, seen, disk, equity, running, top, overlapped>>
      /\ pc[a] # "off" /\ \E to \in {"idle", "assess", "execute"} : pc' = [pc EXCEPT ![a] = to]
      /\ faults' \subseteq AllFaults /\ faultCount' \in 0..FaultBound /\ faults \subseteq faults'
  <2>1. UNCHANGED <<mem, seen, disk, equity, running, top, overlapped>> /\ pc[a] # "off"
    BY Zenon DEF Begin, AssessBlind, Reject, Rejects, Fills, FillsNot, Executed, Goes, worldVars
  <2>2. \E to \in {"idle", "assess", "execute"} : pc' = [pc EXCEPT ![a] = to]
    BY SMT DEF Begin, AssessBlind, Reject, Rejects, Fills, FillsNot, Executed, Goes
  <2>3. UNCHANGED faultVars \/ Happens("account")
    BY DEF Begin, AssessBlind, Reject, Fills, FillsNot, Executed
  <2>4. faults' \subseteq AllFaults /\ faultCount' \in 0..FaultBound /\ faults \subseteq faults'
    BY <2>3, FaultTypes DEF Invariant, TypeOK, faultVars
  <2> QED
    BY <2>1, <2>2, <2>4
<1>2. legs' \in [Agents -> Seq(Symbols)] /\ orders' \in [Agents -> Seq(Approvals)]
      /\ held' \in [Symbols -> Nat] /\ (pc'[a] = "execute" => orders'[a] # << >>)
      /\ \A b \in Agents : b # a => legs'[b] = legs[b] /\ orders'[b] = orders[b]
  <2>1. CASE Begin(a)
    <3>0. \A j \in Jobs : j \in Seq(Symbols)
      BY RiskAssumption
    <3>1. \A j \in Jobs \cup {<< >>} : j \in Seq(Symbols)
      BY <3>0, EmptySeq
    <3>2. pc' = [pc EXCEPT ![a] = "assess"] /\ orders' = orders /\ held' = held
      BY <2>1 DEF Begin, Goes, worldVars
    <3>3. PICK j \in Jobs \cup {<< >>} : legs' = [legs EXCEPT ![a] = j]
      BY <2>1 DEF Begin
    <3> QED
      BY <3>1, <3>2, <3>3, SMT DEF Invariant, TypeOK
  <2>2. CASE AssessBlind(a) \/ Reject(a)
    <3>1. pc' = [pc EXCEPT ![a] = "idle"] /\ held' = held /\ legs' = [legs EXCEPT ![a] = << >>]
          /\ orders' = [orders EXCEPT ![a] = << >>]
      BY <2>2 DEF AssessBlind, Reject, Rejects, Goes, worldVars
    <3>2. << >> \in Seq(Symbols) /\ << >> \in Seq(Approvals)
      OBVIOUS
    <3> QED
      BY <3>1, <3>2, SMT DEF Invariant, TypeOK
  <2>3. CASE Fills(a) \/ FillsNot(a)
    <3>1. /\ pc[a] = "execute" /\ legs' = legs /\ orders' = [orders EXCEPT ![a] = Tail(orders[a])]
          /\ pc' = [pc EXCEPT ![a] = IF Len(orders[a]) = 1 THEN "idle" ELSE "execute"]
      BY <2>3 DEF Fills, FillsNot, Executed, Goes
    <3>2. orders[a] # << >> /\ orders[a] \in Seq(Approvals)
      BY <3>1 DEF Invariant, TypeOK
    <3>3. Tail(orders[a]) \in Seq(Approvals) /\ Head(orders[a]) \in Approvals
          /\ (Len(orders[a]) # 1 => Tail(orders[a]) # << >>)
      BY <3>2, SeqFacts
    <3>4. orders' \in [Agents -> Seq(Approvals)] /\ orders'[a] = Tail(orders[a])
          /\ \A b \in Agents : b # a => orders'[b] = orders[b]
      BY <3>1, <3>3 DEF Invariant, TypeOK
    <3>5. held' = held \/ held' = [held EXCEPT ![Head(orders[a]).symbol] = @ + Head(orders[a]).lots]
      BY <2>3 DEF Fills, FillsNot
    <3>6. Head(orders[a]).symbol \in Symbols /\ Head(orders[a]).lots \in Nat
      BY <3>3, SMTT(40) DEF Approvals
    <3>7. held' \in [Symbols -> Nat]
      <4> DEFINE o == Head(orders[a])
      <4>1. o.symbol \in Symbols /\ o.lots \in Nat /\ held \in [Symbols -> Nat]
        BY <3>6 DEF Invariant, TypeOK
      <4>2. held' = held \/ held' = [held EXCEPT ![o.symbol] = @ + o.lots]
        BY <3>5
      <4> HIDE DEF o
      <4> QED
        BY <4>1, <4>2, SMT
    <3>8. pc'[a] = "execute" => Len(orders[a]) # 1
      BY <3>1, SMT DEF Invariant, TypeOK
    <3> QED
      BY <3>1, <3>3, <3>4, <3>7, <3>8 DEF Invariant, TypeOK
  <2> QED
    BY <2>1, <2>2, <2>3
<1>3. pc'[a] \in {"idle", "assess", "execute"} /\ \A b \in Agents : b # a => pc'[b] = pc[b]
      /\ pc' \in [Agents -> {"off", "idle", "assess", "circuit", "verdict", "execute"}]
  BY <1>1, SMT DEF Invariant, TypeOK
<1>4. TypeOK'
  <2>1. \A b \in Agents : pc'[b] \in {"circuit", "verdict"} => seen'[b] # 0 /\ mem'[b].peak >= seen'[b]
    BY <1>1, <1>3 DEF Invariant, TypeOK
  <2>2. \A b \in Agents : /\ pc'[b] = "verdict" => legs'[b] # << >>
                          /\ pc'[b] = "execute" => orders'[b] # << >>
    BY <1>2, <1>3 DEF Invariant, TypeOK
  <2> QED
    BY <1>1, <1>2, <1>3, <2>1, <2>2, ZenonT(40) DEF Invariant, TypeOK
<1>5. \A b \in Agents : Live(b)' <=> Live(b)
  BY <1>1, <1>3, SMT DEF Live
<1>6. Alone' /\ Remembered' /\ Cooling'
  BY <1>1, <1>5 DEF Invariant, Alone, Remembered, Cooling, Sound
<1> QED
  BY <1>4, <1>6 DEF Invariant

\* The equity is read and the peak refreshed, and the row saved unless it is the same.
LEMMA AssessKeeps ==
  ASSUME Invariant, NEW a \in Agents, Assess(a) \/ AssessUnsaved(a)
  PROVE  Invariant'
<1> DEFINE m == Refreshed(mem[a], equity)
           to == IF Assess(a) THEN "circuit" ELSE "idle"
<1>0. mem[a] \in Rows /\ disk \in Rows /\ equity \in Equities /\ equity \in Nat \ {0}
      /\ mem[a].peak \in Nat /\ top \in Nat /\ top \in {0} \cup Equities
  <2>1. mem[a] \in Rows /\ disk \in Rows /\ equity \in Equities /\ top \in {0} \cup Equities
    BY DEF Invariant, TypeOK
  <2>2. Equities \subseteq Nat \ {0}
    BY RiskAssumption
  <2>3. mem[a].peak \in {0} \cup Equities
    BY <2>1, SMT DEF Rows
  <2>4. \A x \in {0} \cup Equities : x \in Nat
    BY <2>2
  <2> QED
    BY <2>1, <2>2, <2>3, <2>4
<1>1. /\ pc[a] = "assess" /\ pc' = [pc EXCEPT ![a] = to]
      /\ mem' = [mem EXCEPT ![a] = m] /\ seen' = [seen EXCEPT ![a] = equity]
      /\ top' = (IF equity > top THEN equity ELSE top)
      /\ UNCHANGED <<worldVars, overlapped>>
  BY Zenon DEF Assess, AssessUnsaved, Reads, Rejects, Goes
<1>2. /\ m \in Rows /\ m.active = mem[a].active /\ m.until = mem[a].until
      /\ m.peak = (IF mem[a].peak = 0 \/ equity > mem[a].peak THEN equity ELSE mem[a].peak)
  BY <1>0, RowTypes
<1>3. /\ pc'[a] = to /\ mem'[a] = m /\ seen'[a] = equity
      /\ \A b \in Agents : b # a => pc'[b] = pc[b] /\ mem'[b] = mem[b] /\ seen'[b] = seen[b]
  BY <1>1 DEF Invariant, TypeOK
<1>4. disk' \in {disk, m} /\ (Assess(a) => disk' = IF m = mem[a] THEN disk ELSE m)
  BY <1>1, <1>3 DEF Assess, AssessUnsaved
<1>5. /\ legs' \in [Agents -> Seq(Symbols)] /\ orders' \in [Agents -> Seq(Approvals)]
      /\ \A b \in Agents : b # a => legs'[b] = legs[b] /\ orders'[b] = orders[b]
  <2>1. CASE Assess(a)
    BY <2>1 DEF Assess, Invariant, TypeOK
  <2>2. CASE AssessUnsaved(a)
    BY <2>2, EmptySeq DEF AssessUnsaved, Rejects, Invariant, TypeOK
  <2> QED
    BY <2>1, <2>2
<1>6. UNCHANGED faultVars \/ Happens("save")
  BY DEF Assess, AssessUnsaved
<1>7. faults' \subseteq AllFaults /\ faultCount' \in 0..FaultBound /\ faults \subseteq faults'
      /\ (Assess(a) \/ "save" \in faults')
  BY <1>6, FaultTypes DEF Invariant, TypeOK, faultVars, Assess, AssessUnsaved
<1>8. TypeOK'
  <2>1. pc' \in [Agents -> {"off", "idle", "assess", "circuit", "verdict", "execute"}]
        /\ mem' \in [Agents -> Rows] /\ seen' \in [Agents -> {0} \cup Equities] /\ disk' \in Rows
        /\ top' \in {0} \cup Equities
    BY <1>0, <1>1, <1>2, <1>4 DEF Invariant, TypeOK
  <2>2. /\ \A b \in Agents : mem'[b].active => mem'[b].until # 0
        /\ disk'.active => disk'.until # 0
    BY <1>2, <1>3, <1>4, ZenonT(40) DEF Invariant, TypeOK
  <2>3. m.peak >= equity
    BY <1>0, <1>2, SMT
  <2>4. \A b \in Agents : pc'[b] \in {"circuit", "verdict"} => seen'[b] # 0 /\ mem'[b].peak >= seen'[b]
    BY <1>0, <1>3, <2>3 DEF Invariant, TypeOK
  <2>5. \A b \in Agents : /\ pc'[b] = "verdict" => legs'[b] # << >>
                          /\ pc'[b] = "execute" => orders'[b] # << >>
    BY <1>3, <1>5 DEF Invariant, TypeOK
  <2> QED
    BY <1>1, <1>5, <1>7, <2>1, <2>2, <2>4, <2>5 DEF Invariant, TypeOK, worldVars
<1>9. \A b \in Agents : Live(b)' <=> Live(b)
  BY <1>1, <1>3 DEF Live
<1>10. Alone'
  BY <1>1, <1>9 DEF Invariant, Alone
<1>11. ASSUME Sound'
       PROVE  /\ Sound /\ \A b \in Agents : Live(b) => b = a
              /\ disk' = (IF m = mem[a] THEN disk ELSE m)
              /\ disk.peak = top /\ mem[a].peak = top
  BY <1>1, <1>4, <1>7, <1>11 DEF Invariant, Sound, Alone, Live, Remembered
<1>12. Remembered'
  <2>1. ASSUME Sound'
        PROVE  m.peak = top' /\ disk'.peak = top'
    BY <1>0, <1>1, <1>2, <1>11, <2>1, SMT
  <2> QED
    BY <1>3, <1>9, <1>11, <2>1 DEF Remembered
<1>13. Cooling'
  <2>1. ASSUME Sound', running' # {}
        PROVE  disk'.active /\ running' = {disk'.until} /\ disk' = m
    BY <1>1, <1>2, <1>11, <2>1 DEF Invariant, Cooling, worldVars, Live
  <2> QED
    BY <1>3, <1>9, <1>11, <2>1 DEF Cooling
<1> QED
  BY <1>8, <1>10, <1>12, <1>13 DEF Invariant

\* Whether the circuit stays as it is, is closed or trips.
LEMMA CircuitKeeps ==
  ASSUME Invariant, NEW a \in Agents, Circuit(a) \/ Trigger(a) \/ TriggerUnsaved(a)
  PROVE  Invariant'
<1> DEFINE m == mem'[a]
           to == IF TriggerUnsaved(a) THEN "idle" ELSE AfterAssess(a)
<1>0. mem[a] \in Rows /\ disk \in Rows /\ pc[a] = "circuit"
  BY Zenon DEF Invariant, TypeOK, Circuit, Trigger, TriggerUnsaved, Rejects, Goes
<1>1. /\ Cooled(mem[a]) \in Rows /\ Cooled(mem[a]).peak = mem[a].peak
      /\ (Cooled(mem[a]).active => Cooled(mem[a]) = mem[a])
      /\ (mem[a].active /\ mem[a].until \in running => Cooled(mem[a]) = mem[a])
  BY <1>0, SMT DEF Cooled, Row, Rows
<1>2. ASSUME Trips(a)
      PROVE  \E k \in Cooldowns : /\ running' = running \cup {k} /\ k # 0
                                  /\ mem' = [mem EXCEPT ![a] = Row(mem[a].peak, TRUE, k)]
  <2>1. PICK k \in Cooldowns : /\ running' = running \cup {k}
                               /\ mem' = [mem EXCEPT ![a] = Row(mem[a].peak, TRUE, k)]
    BY <1>2 DEF Trips
  <2>3. k # 0
    BY SMT DEF Cooldowns
  <2> QED
    BY <2>1, <2>3
<1>3. ASSUME NEW k \in Cooldowns
      PROVE  /\ Row(mem[a].peak, TRUE, k) \in Rows /\ Row(mem[a].peak, TRUE, k).peak = mem[a].peak
             /\ Row(mem[a].peak, TRUE, k).active /\ Row(mem[a].peak, TRUE, k).until = k
  BY <1>0, SMT DEF Row, Rows
<1>4. /\ mem' = [mem EXCEPT ![a] = m] /\ m \in Rows /\ m.peak = mem[a].peak
      /\ (m.active => m.until # 0) /\ running' \subseteq Cooldowns
      /\ (Circuit(a) => m = Cooled(mem[a]) /\ running' = running /\ disk' = disk)
      /\ (~Circuit(a) => m.active /\ running' = running \cup {m.until} /\ disk' \in {disk, m})
  <2>1. CASE Circuit(a)
    BY <1>0, <1>1, <2>1 DEF Circuit, Invariant, TypeOK, worldVars
  <2>2. CASE ~Circuit(a)
    <3>1. Trips(a)
      BY <2>2 DEF Trigger, TriggerUnsaved
    <3>2. PICK k \in Cooldowns : /\ running' = running \cup {k} /\ k # 0
                                 /\ mem' = [mem EXCEPT ![a] = Row(mem[a].peak, TRUE, k)]
      BY <1>2, <3>1
    <3>3. m = Row(mem[a].peak, TRUE, k)
      BY <3>2 DEF Invariant, TypeOK
    <3>4. disk' \in {disk, m}
      BY <2>2 DEF Trigger, TriggerUnsaved
    <3> QED
      BY <1>3, <2>2, <3>2, <3>3, <3>4 DEF Invariant, TypeOK
  <2> QED
    BY <2>1, <2>2
<1>5. /\ pc' = [pc EXCEPT ![a] = to] /\ UNCHANGED <<seen, equity, held, top, overlapped>>
  BY Zenon DEF Circuit, Trigger, TriggerUnsaved, Rejects, Goes, worldVars
<1>6. /\ pc'[a] = to /\ (to \in {"idle", "verdict"}) /\ (to = "verdict" => legs'[a] # << >>)
      /\ \A b \in Agents : b # a => pc'[b] = pc[b] /\ mem'[b] = mem[b]
  <2>1. to \in {"idle", "verdict"} /\ (to = "verdict" => ~TriggerUnsaved(a) /\ legs[a] # << >>)
    BY SMT DEF AfterAssess
  <2>2. ~TriggerUnsaved(a) => legs' = legs
    BY DEF Circuit, Trigger
  <2> QED
    BY <1>4, <1>5, <2>1, <2>2 DEF Invariant, TypeOK
<1>7. /\ legs' \in [Agents -> Seq(Symbols)] /\ orders' \in [Agents -> Seq(Approvals)]
      /\ \A b \in Agents : b # a => legs'[b] = legs[b] /\ orders'[b] = orders[b]
  <2>1. CASE Circuit(a) \/ Trigger(a)
    BY <2>1 DEF Circuit, Trigger, Invariant, TypeOK
  <2>2. CASE TriggerUnsaved(a)
    BY <2>2, EmptySeq DEF TriggerUnsaved, Rejects, Invariant, TypeOK
  <2> QED
    BY <2>1, <2>2
<1>8. UNCHANGED faultVars \/ Happens("save")
  BY DEF Circuit, Trigger, TriggerUnsaved
<1>9. faults' \subseteq AllFaults /\ faultCount' \in 0..FaultBound /\ faults \subseteq faults'
      /\ (TriggerUnsaved(a) => "save" \in faults')
  BY <1>8, FaultTypes DEF Invariant, TypeOK, faultVars, TriggerUnsaved
<1>10. TypeOK'
  <2>1. pc' \in [Agents -> {"off", "idle", "assess", "circuit", "verdict", "execute"}]
        /\ mem' \in [Agents -> Rows] /\ disk' \in Rows
    BY <1>0, <1>4, <1>5, <1>6 DEF Invariant, TypeOK
  <2>2. /\ \A b \in Agents : mem'[b].active => mem'[b].until # 0
        /\ disk'.active => disk'.until # 0
    BY <1>4, <1>6 DEF Invariant, TypeOK
  <2>4. \A b \in Agents : pc'[b] \in {"circuit", "verdict"} => seen'[b] # 0 /\ mem'[b].peak >= seen'[b]
    BY <1>0, <1>4, <1>5, <1>6 DEF Invariant, TypeOK
  <2>5. \A b \in Agents : /\ pc'[b] = "verdict" => legs'[b] # << >>
                          /\ pc'[b] = "execute" => orders'[b] # << >>
    BY <1>6, <1>7 DEF Invariant, TypeOK
  <2> QED
    BY <1>4, <1>5, <1>7, <1>9, <2>1, <2>2, <2>4, <2>5 DEF Invariant, TypeOK
<1>11. \A b \in Agents : Live(b)' <=> Live(b)
  BY <1>0, <1>6 DEF Live
<1>12. Alone'
  BY <1>5, <1>11 DEF Invariant, Alone
<1>13. ASSUME Sound'
       PROVE  /\ Sound /\ ~TriggerUnsaved(a) /\ \A b \in Agents : Live(b) => b = a
              /\ disk.peak = top /\ mem[a].peak = top
  BY <1>0, <1>5, <1>9, <1>13 DEF Invariant, Sound, Alone, Live, Remembered
<1>14. Remembered'
  <2>1. disk' = disk \/ disk' = m
    BY <1>4
  <2> QED
    BY <1>4, <1>5, <1>11, <1>13, <2>1 DEF Remembered
<1>15. ASSUME Sound, running # {}
       PROVE  ~Tripped(a) /\ Cooled(mem[a]) = mem[a]
  BY <1>0, <1>1, <1>15 DEF Invariant, Cooling, Live, Tripped
<1>3a. Cooling'
  <2>1. CASE Circuit(a)
    BY <1>4, <1>11, <1>13, <1>15, <2>1 DEF Invariant, Cooling
  <2>2. CASE Trigger(a) /\ ~Circuit(a)
    <3>1. disk' = m /\ Tripped(a)
      BY <2>2 DEF Trigger
    <3>2. Sound' => running = {}
      BY <1>13, <1>15, <3>1
    <3> QED
      BY <1>4, <1>11, <1>13, <2>2, <3>1, <3>2 DEF Cooling
  <2>3. CASE TriggerUnsaved(a)
    BY <1>13, <2>3 DEF Cooling
  <2> QED
    BY <2>1, <2>2, <2>3
<1> QED
  BY <1>10, <1>12, <1>14, <1>3a DEF Invariant

\* An approved leg is a well formed order, and nothing else is remembered of it.
LEMMA ApproveKeeps ==
  ASSUME Invariant, NEW a \in Agents, Approve(a) \/ ApproveGuess(a)
  PROVE  Invariant'
<1> DEFINE s == Head(legs[a])
           before == IF orders[a] = << >> THEN 0
                     ELSE orders[a][1].lots * 100 * Price[orders[a][1].symbol]
           to == IF Len(legs[a]) = 1 THEN "execute" ELSE "assess"
<1>1. PICK B : ApproveWith(a, B)
  BY DEF Approve, ApproveGuess
<1>2. /\ pc[a] = "verdict" /\ pc' = [pc EXCEPT ![a] = to]
      /\ legs' = [legs EXCEPT ![a] = Tail(legs[a])]
      /\ UNCHANGED <<mem, seen, disk, worldVars, top, overlapped>>
  BY <1>1 DEF ApproveWith, Goes
<1>3. PICK base : \E lots \in Scaled(base), via \in Vias :
        orders' = [orders EXCEPT ![a] = Append(orders[a], Approval(s, lots, seen[a], via, before))]
  <2>1. PICK req \in Requests : \E lots \in Scaled(Base(s, req, seen[a], B)) :
          LET via == IF B # {} THEN "guess" ELSE Exceeded(s, req, seen[a], B)
          IN  orders' = [orders EXCEPT ![a] = Append(@, Approval(s, lots, seen[a], via, before))]
    BY <1>1, Zenon DEF ApproveWith
  <2>2. Exceeded(s, req, seen[a], B) \in Vias /\ "guess" \in Vias
    BY Zenon DEF Exceeded, Vias
  <2> QED
    BY <2>1, <2>2
<1>3a. PICK lots \in Scaled(base), via \in Vias :
         orders' = [orders EXCEPT ![a] = Append(orders[a], Approval(s, lots, seen[a], via, before))]
  BY <1>3
<1>4. /\ legs[a] \in Seq(Symbols) /\ legs[a] # << >> /\ orders[a] \in Seq(Approvals)
      /\ seen[a] \in Equities
  BY <1>2 DEF Invariant, TypeOK
<1>5. s \in Symbols /\ Tail(legs[a]) \in Seq(Symbols)
  BY <1>4, SeqFacts
<1>6. before \in Nat
  <2>1. CASE orders[a] = << >>
    BY <2>1
  <2>2. CASE orders[a] # << >>
    <3>1. orders[a][1] \in Approvals
      BY <1>4, <2>2, EmptySeq, ElementOfSeq, SMT
    <3>2. orders[a][1].lots \in Nat /\ orders[a][1].symbol \in Symbols
      BY <3>1, SMT DEF Approvals
    <3>3. Price[orders[a][1].symbol] \in Nat
      BY <3>2, RiskAssumption
    <3>4. \A x, y \in Nat : x * 100 * y \in Nat
      BY SMT
    <3> QED
      BY <2>2, <3>2, <3>3, <3>4
  <2> QED
    BY <2>1, <2>2
<1>7. lots \in Nat \ {0}
  BY SMT DEF Scaled
<1>8. Approval(s, lots, seen[a], via, before) \in Approvals
  BY <1>4, <1>5, <1>6, <1>7, Zenon DEF Approval, Approvals, Vias
<1>9. /\ Append(orders[a], Approval(s, lots, seen[a], via, before)) \in Seq(Approvals)
      /\ Append(orders[a], Approval(s, lots, seen[a], via, before)) # << >>
  BY <1>4, <1>8, SeqFacts
<1>10. /\ orders' \in [Agents -> Seq(Approvals)] /\ legs' \in [Agents -> Seq(Symbols)]
       /\ orders'[a] # << >>
       /\ pc' \in [Agents -> {"off", "idle", "assess", "circuit", "verdict", "execute"}]
       /\ pc'[a] \in {"assess", "execute"}
       /\ \A b \in Agents : b # a => pc'[b] = pc[b] /\ legs'[b] = legs[b] /\ orders'[b] = orders[b]
  BY <1>2, <1>3a, <1>5, <1>9 DEF Invariant, TypeOK
<1>11. UNCHANGED faultVars \/ Happens("price")
  BY DEF Approve, ApproveGuess
<1>12. faults' \subseteq AllFaults /\ faultCount' \in 0..FaultBound /\ faults \subseteq faults'
  BY <1>11, FaultTypes DEF Invariant, TypeOK, faultVars
<1>13. TypeOK'
  <2>1. \A b \in Agents : pc'[b] \in {"circuit", "verdict"} => seen'[b] # 0 /\ mem'[b].peak >= seen'[b]
    BY <1>2, <1>10 DEF Invariant, TypeOK
  <2>2. \A b \in Agents : /\ pc'[b] = "verdict" => legs'[b] # << >>
                          /\ pc'[b] = "execute" => orders'[b] # << >>
    BY <1>10 DEF Invariant, TypeOK
  <2> QED
    BY <1>2, <1>10, <1>12, <2>1, <2>2 DEF Invariant, TypeOK, worldVars
<1>14. \A b \in Agents : Live(b)' <=> Live(b)
  BY <1>2, <1>10 DEF Live
<1>15. Alone' /\ Remembered' /\ Cooling'
  BY <1>2, <1>12, <1>14 DEF Invariant, Alone, Remembered, Cooling, Sound, worldVars
<1> QED
  BY <1>13, <1>15 DEF Invariant

\* The database is empty and no agent has been built.
LEMMA InitHolds ==
  ASSUME Init
  PROVE  Invariant
<1>1. NoRow \in Rows /\ NoRow.active = FALSE /\ NoRow.peak = 0
  BY SMT DEF NoRow, Row, Rows
<1>2. 0 \in 0..FaultBound
  BY RiskAssumption, SMT
<1>3. TypeOK
  BY <1>1, <1>2, EmptySeq DEF Init, TypeOK
<1>4. Alone /\ Remembered /\ Cooling
  BY <1>1 DEF Init, Alone, Remembered, Cooling, Live
<1> QED
  BY <1>3, <1>4 DEF Invariant

\* Every step keeps the invariant.
LEMMA NextKeeps ==
  ASSUME Invariant, [Next]_vars
  PROVE  Invariant'
<1>1. ASSUME NEW a \in Agents, Build(a) \/ Begin(a) \/ RunStep(a) \/ End(a) \/ Kill(a)
      PROVE  Invariant'
  <2>1. CASE Build(a)
    BY <2>1, BuildKeeps
  <2>2. CASE Begin(a) \/ AssessBlind(a) \/ Reject(a) \/ Fills(a) \/ FillsNot(a)
    BY <2>2, QuietKeeps
  <2>3. CASE Assess(a) \/ AssessUnsaved(a)
    BY <2>3, AssessKeeps
  <2>4. CASE Circuit(a) \/ Trigger(a) \/ TriggerUnsaved(a)
    BY <2>4, CircuitKeeps
  <2>5. CASE Approve(a) \/ ApproveGuess(a)
    BY <2>5, ApproveKeeps
  <2>6. CASE PriceRaises(a) \/ End(a) \/ Kill(a)
    <3>1. Gone(a) /\ (UNCHANGED faultVars \/ \E f \in Faults : Happens(f))
      BY <2>6, Zenon DEF PriceRaises, End, Kill, Happens
    <3> QED
      BY <3>1, GoneKeeps
  <2> QED
    BY <1>1, <2>1, <2>2, <2>3, <2>4, <2>5, <2>6 DEF RunStep
<1>2. CASE UNCHANGED vars
  BY <1>2 DEF Invariant, TypeOK, Alone, Remembered, Cooling, Sound, Live, vars, agentVars, worldVars, faultVars
<1> QED
  BY <1>1, <1>2, WorldKeeps DEF Next

\* The invariant holds always.
LEMMA InvariantHolds == Spec => []Invariant
<1>1. Init => Invariant
  BY InitHolds
<1>2. Invariant /\ [Next]_vars => Invariant'
  BY NextKeeps
<1> QED
  BY <1>1, <1>2, PTL DEF Spec

-----------------------------------------------------------------------------
(* The theorems                                                            *)

\* Whatever the agents, symbols and caps: the types of what an agent, the database
\* and the positions hold, no empty order, and an equity behind every verdict.
THEOREM RiskTypes == Spec => []TypeOK
<1>1. Invariant => TypeOK
  BY DEF Invariant
<1> QED
  BY <1>1, InvariantHolds, PTL

\* Only an approval makes the orders of an agent more.
LEMMA OnlyApprove ==
  ASSUME TypeOK, [Next]_vars, NEW a \in Agents, Approves(a)
  PROVE  ~Blocked(a) /\ pc[a] = "verdict"
<1>1. orders[a] \in Seq(Approvals) /\ Len(orders[a]) \in Nat /\ orders \in [Agents -> Seq(Approvals)]
  BY EmptySeq, LenProperties DEF TypeOK
<1>2. ASSUME NEW b \in Agents, Approve(b) \/ ApproveGuess(b)
      PROVE  a = b /\ ~Blocked(b) /\ pc[b] = "verdict"
  <2>1. ~Blocked(b) /\ pc[b] = "verdict" /\ \E o : orders' = [orders EXCEPT ![b] = o]
    BY <1>2, Zenon DEF Approve, ApproveGuess, ApproveWith, Goes
  <2>2. a # b => orders'[a] = orders[a]
    BY <1>1, <2>1
  <2> QED
    BY <1>1, <2>1, <2>2, SMT DEF Approves
<1>3. orders'[a] # orders[a] /\ orders'[a] # << >>
  BY <1>1, EmptySeq, SMT DEF Approves
<1>4. ASSUME NEW b \in Agents, PriceRaises(b) \/ End(b) \/ Kill(b) \/ AssessBlind(b)
                                \/ AssessUnsaved(b) \/ TriggerUnsaved(b) \/ Reject(b)
      PROVE  FALSE
  <2>1. orders' = [orders EXCEPT ![b] = << >>]
    BY <1>4, Zenon DEF PriceRaises, End, Kill, Gone, AssessBlind, AssessUnsaved, TriggerUnsaved, Reject, Rejects
  <2> QED
    BY <1>1, <1>3, <2>1
<1>5. ASSUME NEW b \in Agents, Fills(b) \/ FillsNot(b)
      PROVE  FALSE
  <2>1. pc[b] = "execute" /\ orders' = [orders EXCEPT ![b] = Tail(orders[b])]
    BY <1>5, Zenon DEF Fills, FillsNot, Executed, Goes
  <2>2. a = b /\ orders[a] # << >> /\ orders'[a] = Tail(orders[a])
    BY <1>1, <1>3, <2>1 DEF TypeOK
  <2>3. Len(orders'[a]) = Len(orders[a]) - 1
    BY <1>1, <2>2, HeadTailProperties
  <2> QED
    BY <1>1, <2>3, SMT DEF Approves
<1>6. ASSUME \/ \E b \in Agents : Build(b) \/ Begin(b) \/ Assess(b) \/ Circuit(b) \/ Trigger(b)
             \/ \E s \in Symbols : Close(s)
             \/ \E k \in Cooldowns : CooldownEnds(k)
             \/ MoveEquity \/ UNCHANGED vars
      PROVE  FALSE
  <2>1. orders' = orders
    BY <1>6, Zenon DEF Build, Begin, Assess, Circuit, Trigger, Close, CooldownEnds, MoveEquity, vars, agentVars
  <2> QED
    BY <1>3, <2>1
<1> QED
  BY <1>2, <1>4, <1>5, <1>6, Zenon DEF Next, RunStep

\* drawdown_stop_pct, in assess_account and review: no order is approved on an equity
\* that lies as far below the highest one ever read, whichever run has read it.
THEOREM RiskDrawdown == Spec => DrawdownBlocks
<1>1. ASSUME Invariant, [Next]_vars, Sound, NEW a \in Agents, Approves(a)
      PROVE  ~Down(top, seen[a], StopPct)
  <2>1. ~Blocked(a) /\ pc[a] = "verdict"
    BY <1>1, OnlyApprove DEF Invariant
  <2>2. mem[a].peak = top
    BY <1>1, <2>1 DEF Invariant, Remembered, Live
  <2> QED
    BY <2>1, <2>2 DEF Blocked
<1>2. Invariant /\ [Next]_vars => [Sound => \A a \in Agents : Approves(a) => ~Down(top, seen[a], StopPct)]_vars
  BY <1>1
<1> QED
  BY <1>2, InvariantHolds, PTL DEF Spec, DrawdownBlocks

\* circuit_breaker_cooldown_days, in _update_circuit_breaker and review: no order is
\* approved while a cooldown lasts, in whichever run it began.
THEOREM RiskCircuit == Spec => CircuitHolds
<1>1. ASSUME Invariant, [Next]_vars, Sound, NEW a \in Agents, Approves(a)
      PROVE  running = {}
  <2>1. ~Blocked(a) /\ pc[a] = "verdict"
    BY <1>1, OnlyApprove DEF Invariant
  <2> QED
    BY <1>1, <2>1 DEF Invariant, Cooling, Live, Blocked
<1>2. Invariant /\ [Next]_vars => [Sound => \A a \in Agents : Approves(a) => running = {}]_vars
  BY <1>1
<1> QED
  BY <1>2, InvariantHolds, PTL DEF Spec, CircuitHolds

-----------------------------------------------------------------------------
(* The caps                                                                *)

\* The second leg of a pair is still to be reviewed; both legs are approved, the
\* second on the positions that the first has not changed yet.
Second(a) == Len(orders[a]) = 1 /\ Len(legs[a]) = 1 /\ Head(legs[a]) # orders[a][1].symbol
Both(a) == /\ Len(orders[a]) = 2 /\ orders[a][1].symbol # orders[a][2].symbol
           /\ orders[a][2].before = Worth(orders[a][1].symbol, orders[a][1].lots)

\* Which orders an agent has, by where it stands.
Holds(a) ==
    /\ pc[a] \in {"off", "idle"} => orders[a] = << >>
    /\ pc[a] \in {"assess", "circuit", "verdict"} =>
          (orders[a] = << >> /\ legs[a] \in Jobs \cup {<< >>}) \/ Second(a)
    /\ pc[a] = "execute" => Len(orders[a]) = 1 \/ Both(a)

\* When lots h are held, an order fits into the caps that no earlier one exempts it from,
\* and into that of its sector but for x.
Fits(h, o, x) ==
    o.via # "guess" =>
      /\ Worth(o.symbol, o.lots) <= MaxSingle * o.equity
      /\ o.via # "single" =>
           Used(h, {o.symbol}, o.equity, {}) + Worth(o.symbol, o.lots) <= MaxSymbol * o.equity
      /\ o.via \notin {"single", "symbol"} =>
           Used(h, Sector[o.symbol], o.equity, {}) + Worth(o.symbol, o.lots) <= MaxSector * o.equity + x

\* Of two orders, the second fits beside what is held before the first is filled.
Fit(a) == /\ orders[a] # << >> => Fits(held, orders[a][1], orders[a][1].before)
          /\ Len(orders[a]) = 2 => Fits(held, orders[a][2], 0)

Shape == \A a \in Agents : Holds(a)
Capped == ~overlapped => \A a \in Agents : Fit(a)

\* What the caps and an order say is numbers.
LEMMA CapFacts ==
  /\ MaxSingle \in Nat /\ MaxSymbol \in Nat /\ MaxSector \in Nat
  /\ Equities \subseteq Nat /\ Requests \subseteq Nat
  /\ \A s \in Symbols : Sector[s] \in SUBSET Symbols /\ {s} \in SUBSET Symbols
  /\ \A o \in Approvals : o.symbol \in Symbols /\ o.equity \in Nat /\ o.lots \in Nat /\ o.before \in Nat
<1>1. MaxSingle \in 0..99 /\ MaxSymbol \in 0..99 /\ MaxSector \in 0..99
  BY RiskAssumption
<1>2. MaxSingle \in Nat /\ MaxSymbol \in Nat /\ MaxSector \in Nat
  BY <1>1, SMT
<1>3. Equities \subseteq Nat /\ Requests \subseteq Nat
  BY RiskAssumption
<1>4. \A s \in Symbols : Sector[s] \in SUBSET Symbols /\ {s} \in SUBSET Symbols
  BY RiskAssumption
<1>5. \A o \in Approvals : o.symbol \in Symbols /\ o.equity \in Nat /\ o.lots \in Nat /\ o.before \in Nat
  BY <1>3 DEF Approvals
<1> QED
  BY <1>2, <1>3, <1>4, <1>5

\* An order fits as well when less is held, and beside more.
LEMMA FitsLasts ==
  ASSUME NEW h \in [Symbols -> Nat], NEW g \in [Symbols -> Nat], \A s \in Symbols : g[s] <= h[s],
         NEW o \in Approvals, NEW x \in Nat, NEW y \in Nat, x <= y, Fits(h, o, x)
  PROVE  Fits(g, o, y)
<1> DEFINE s == o.symbol
           e == o.equity
<1>1. s \in Symbols /\ e \in Nat /\ o.lots \in Nat /\ Sector[s] \in SUBSET Symbols /\ {s} \in SUBSET Symbols
  BY CapFacts
<1>2. Worth(s, o.lots) \in Nat /\ MaxSymbol * e \in Nat /\ MaxSector * e \in Nat
  <2>1. MaxSymbol \in Nat /\ MaxSector \in Nat
    BY CapFacts
  <2>2. Worth(s, o.lots) \in Nat
    BY <1>1, WorthFacts
  <2> QED
    BY <1>1, <2>1, <2>2, SMT
<1>3. /\ Used(g, {s}, e, {}) <= Used(h, {s}, e, {}) /\ Used(g, {s}, e, {}) \in Nat /\ Used(h, {s}, e, {}) \in Nat
      /\ Used(g, Sector[s], e, {}) <= Used(h, Sector[s], e, {})
      /\ Used(g, Sector[s], e, {}) \in Nat /\ Used(h, Sector[s], e, {}) \in Nat
  BY <1>1, UsedGrows, UsedFacts
<1> HIDE DEF s, e
<1>4. ASSUME o.via # "guess", o.via # "single" PROVE Used(g, {s}, e, {}) + Worth(s, o.lots) <= MaxSymbol * e
  <2>1. Used(h, {s}, e, {}) + Worth(s, o.lots) <= MaxSymbol * e
    BY <1>4 DEF Fits, s, e
  <2> QED
    BY <1>2, <1>3, <2>1, SMT
<1>5. ASSUME o.via # "guess", o.via \notin {"single", "symbol"}
      PROVE  Used(g, Sector[s], e, {}) + Worth(s, o.lots) <= MaxSector * e + y
  <2>1. Used(h, Sector[s], e, {}) + Worth(s, o.lots) <= MaxSector * e + x
    BY <1>5 DEF Fits, s, e
  <2> QED
    BY <1>2, <1>3, <2>1, SMT
<1> QED
  BY <1>4, <1>5 DEF Fits, s, e

\* When the other leg of its pair is filled first, an order fits but for that leg.
LEMMA FitsBeside ==
  ASSUME NEW h \in [Symbols -> Nat], NEW o \in Approvals, NEW p \in Approvals, p.symbol # o.symbol,
         NEW g \in [Symbols -> Nat], Adds(h, g, p.symbol, p.lots), Fits(h, o, 0)
  PROVE  Fits(g, o, Worth(p.symbol, p.lots))
<1> DEFINE s == o.symbol
           e == o.equity
           more == Worth(p.symbol, p.lots)
<1>1. /\ s \in Symbols /\ e \in Nat /\ o.lots \in Nat /\ Sector[s] \in SUBSET Symbols /\ {s} \in SUBSET Symbols
      /\ p.symbol \in Symbols /\ p.lots \in Nat /\ p.symbol \notin {s}
  BY CapFacts
<1>2. Worth(s, o.lots) \in Nat /\ more \in Nat /\ MaxSector * e \in Nat
  <2>1. MaxSector \in Nat
    BY CapFacts
  <2>2. Worth(s, o.lots) \in Nat /\ more \in Nat
    BY <1>1, WorthFacts
  <2> QED
    BY <1>1, <2>1, <2>2, SMT
<1>3. ASSUME NEW S \in SUBSET Symbols
       PROVE  /\ p.symbol \in S => Used(g, S, e, {}) = Used(h, S, e, {}) + more
              /\ p.symbol \notin S => Used(g, S, e, {}) = Used(h, S, e, {})
              /\ Used(h, S, e, {}) \in Nat
  <2>1. PICK q \in Symbols, n \in Nat : q = p.symbol /\ n = p.lots
    BY <1>1
  <2>2. Adds(h, g, q, n)
    BY <2>1
  <2>3. /\ q \in S => Used(g, S, e, {}) = Used(h, S, e, {}) + Worth(q, n)
        /\ q \notin S => Used(g, S, e, {}) = Used(h, S, e, {})
    BY <2>2, UsedAdds
  <2>4. Used(h, S, e, {}) \in Nat
    BY UsedFacts
  <2> QED
    BY <2>1, <2>3, <2>4
<1>4. Used(g, {s}, e, {}) = Used(h, {s}, e, {})
  BY <1>1, <1>3
<1>5. /\ Used(g, Sector[s], e, {}) \in {Used(h, Sector[s], e, {}), Used(h, Sector[s], e, {}) + more}
      /\ Used(h, Sector[s], e, {}) \in Nat
  BY <1>1, <1>3
<1> HIDE DEF s, e, more
<1>6. ASSUME o.via # "guess", o.via \notin {"single", "symbol"}
      PROVE  Used(g, Sector[s], e, {}) + Worth(s, o.lots) <= MaxSector * e + more
  <2>1. Used(h, Sector[s], e, {}) + Worth(s, o.lots) <= MaxSector * e + 0
    BY <1>6 DEF Fits, s, e
  <2> QED
    BY <1>2, <1>5, <2>1, SMT
<1> QED
  BY <1>4, <1>6 DEF Fits, s, e, more

\* An order that is approved fits.
LEMMA ApprovedFits ==
  ASSUME TypeOK, NEW s \in Symbols, NEW req \in Requests, NEW e \in Equities,
         NEW lots \in Scaled(Base(s, req, e, {})), NEW before
  PROVE  Fits(held, Approval(s, lots, e, Exceeded(s, req, e, {}), before), 0)
<1> DEFINE symbol == Used(held, {s}, e, {})
           sector == Used(held, Sector[s], e, {})
           asked == Worth(s, req)
           cap == Exceeded(s, req, e, {})
           o == Approval(s, lots, e, cap, before)
<1>1. /\ held \in [Symbols -> Nat] /\ e \in Nat /\ req \in Nat
      /\ Sector[s] \in SUBSET Symbols /\ {s} \in SUBSET Symbols
      /\ MaxSingle \in Nat /\ MaxSymbol \in Nat /\ MaxSector \in Nat
  BY CapFacts DEF TypeOK
<1>2. symbol \in Nat /\ sector \in Nat /\ asked \in Nat
  BY <1>1, UsedFacts, WorthFacts
<1>3. MaxSingle * e \in Nat /\ MaxSymbol * e \in Nat /\ MaxSector * e \in Nat
  BY <1>1, SMT
<1>4. req * Weight(s, e, {}) = asked
  BY <1>1, WorthFacts DEF Worth
<1>5. cap = IF 0 + asked > MaxSingle * e THEN "single"
            ELSE IF symbol + asked > MaxSymbol * e THEN "symbol"
            ELSE IF sector + asked > MaxSector * e THEN "sector"
            ELSE IF TotalUsed(e, {}) + asked > MaxTotal * e THEN "total" ELSE "none"
  BY <1>4 DEF Exceeded
<1>6. o.symbol = s /\ o.lots = lots /\ o.equity = e /\ o.via = cap
  BY DEF Approval
<1> SUFFICES Fits(held, o, 0)
  OBVIOUS
<1> HIDE DEF symbol, sector, asked, cap, o
<1>7. lots \in 1..Base(s, req, e, {})
  BY DEF Scaled
<1>8. CASE cap = "single"
  <2>1. lots \in Scaled(Room(s, MaxSingle, 0, e, {}))
    BY <1>7, <1>8, Zenon DEF Base, Scaled, cap
  <2>2. 0 + Worth(s, lots) <= MaxSingle * e /\ lots \in Nat
    BY <1>1, <2>1, RoomFits
  <2>3. Worth(s, lots) \in Nat
    BY <2>2, WorthFacts
  <2> QED
    BY <1>6, <1>8, <2>2, <2>3 DEF Fits
<1>9. CASE cap = "symbol"
  <2>1. lots \in Scaled(Room(s, MaxSymbol, symbol, e, {}))
    BY <1>7, <1>9, Zenon DEF Base, Scaled, cap, symbol
  <2>2. symbol + Worth(s, lots) <= MaxSymbol * e /\ lots \in Nat
    BY <1>1, <1>2, <2>1, RoomFits
  <2>3. Worth(s, lots) \in Nat
    BY <2>2, WorthFacts
  <2>4. asked <= MaxSingle * e /\ symbol + asked > MaxSymbol * e
    BY <1>2, <1>3, <1>5, <1>9, SMT
  <2>5. Worth(s, lots) <= MaxSingle * e
    BY <1>2, <1>3, <2>2, <2>3, <2>4, SMT
  <2> QED
    BY <1>6, <1>9, <2>2, <2>5 DEF Fits, symbol
<1>10. CASE cap = "sector"
  <2>1. lots \in Scaled(Room(s, MaxSector, sector, e, {}))
    BY <1>7, <1>10, Zenon DEF Base, Scaled, cap, sector
  <2>2. sector + Worth(s, lots) <= MaxSector * e /\ lots \in Nat
    BY <1>1, <1>2, <2>1, RoomFits
  <2>3. Worth(s, lots) \in Nat
    BY <2>2, WorthFacts
  <2>4. asked <= MaxSingle * e /\ symbol + asked <= MaxSymbol * e /\ sector + asked > MaxSector * e
    BY <1>2, <1>3, <1>5, <1>10, SMT
  <2>5. /\ Worth(s, lots) <= MaxSingle * e /\ symbol + Worth(s, lots) <= MaxSymbol * e
        /\ sector + Worth(s, lots) <= MaxSector * e + 0
    BY <1>2, <1>3, <2>2, <2>3, <2>4, SMT
  <2> QED
    BY <1>6, <1>10, <2>5 DEF Fits, symbol, sector
<1>11. CASE cap = "total"
  <2>1. Base(s, req, e, {}) = 0
    BY <1>11 DEF Base, cap
  <2> QED
    BY <1>7, <2>1, SMT
<1>12. CASE cap = "none"
  <2>1. lots \in Nat /\ lots <= req
    <3>1. Base(s, req, e, {}) = req
      BY <1>12 DEF Base, cap
    <3> QED
      BY <1>1, <1>7, <3>1, SMT
  <2>2. Worth(s, lots) \in Nat /\ Worth(s, lots) <= asked
    BY <1>1, <2>1, WorthFacts DEF asked
  <2>3. asked <= MaxSingle * e /\ symbol + asked <= MaxSymbol * e /\ sector + asked <= MaxSector * e
    BY <1>2, <1>3, <1>5, <1>12, SMT
  <2>4. /\ Worth(s, lots) <= MaxSingle * e /\ symbol + Worth(s, lots) <= MaxSymbol * e
        /\ sector + Worth(s, lots) <= MaxSector * e + 0
    BY <1>2, <1>3, <2>2, <2>3, SMT
  <2> QED
    BY <1>6, <1>12, <2>4 DEF Fits, symbol, sector
<1> QED
  BY <1>5, <1>8, <1>9, <1>10, <1>11, <1>12

\* The steps that leave the run of every agent alone; those of one agent only; its job is
\* given up; it goes on to the verdict on a leg.
Unmoved == /\ UNCHANGED <<pc, legs, orders, overlapped>>
           /\ held' \in [Symbols -> Nat] /\ \A s \in Symbols : held'[s] <= held[s]
Only(a) == /\ \A b \in Agents \ {a} : pc'[b] = pc[b] /\ legs'[b] = legs[b] /\ orders'[b] = orders[b]
           /\ ~overlapped' => ~overlapped /\ \A b \in Agents \ {a} : pc[b] = "off"
Clears(a) == held' = held /\ pc'[a] \in {"off", "idle"} /\ orders'[a] = << >>
Moves(a) == /\ held' = held /\ pc'[a] \in {"assess", "circuit", "verdict"} /\ orders'[a] = orders[a]
            /\ \/ pc[a] \in {"assess", "circuit"} /\ legs'[a] = legs[a]
               \/ pc[a] = "idle" /\ legs'[a] \in Jobs \cup {<< >>}

\* What a step does to the jobs, the orders and the positions.
LEMMA Steps ==
  ASSUME Invariant, Shape, [Next]_vars
  PROVE  \/ Unmoved
         \/ \E a \in Agents : Only(a) /\ \/ Clears(a) \/ Moves(a)
                                         \/ Approve(a) \/ ApproveGuess(a) \/ Fills(a) \/ FillsNot(a)
<1>1. /\ pc \in [Agents -> {"off", "idle", "assess", "circuit", "verdict", "execute"}]
      /\ legs \in [Agents -> Seq(Symbols)] /\ orders \in [Agents -> Seq(Approvals)]
      /\ held \in [Symbols -> Nat]
  BY DEF Invariant, TypeOK
<1>2. CASE UNCHANGED vars
  <2>1. \A s \in Symbols : held[s] <= held[s]
    BY <1>1, SMT
  <2> QED
    BY <1>1, <1>2, <2>1 DEF vars, agentVars, worldVars, Unmoved
<1>3. ASSUME NEW s \in Symbols, Close(s)
      PROVE  Unmoved
  <2>1. PICK n \in 0..held[s] - 1 : held' = [held EXCEPT ![s] = n]
    BY <1>3 DEF Close
  <2>2. held' \in [Symbols -> Nat] /\ \A x \in Symbols : held'[x] <= held[x]
    BY <1>1, <2>1, SMT
  <2> QED
    BY <1>3, <2>2 DEF Close, agentVars, Unmoved
<1>4. ASSUME MoveEquity \/ \E k \in Cooldowns : CooldownEnds(k)
      PROVE  Unmoved
  <2>1. \A s \in Symbols : held[s] <= held[s]
    BY <1>1, SMT
  <2>2. UNCHANGED <<agentVars, held, overlapped>>
    BY <1>4 DEF MoveEquity, CooldownEnds
  <2> QED
    BY <1>1, <2>1, <2>2 DEF agentVars, Unmoved
<1>5. ASSUME NEW a \in Agents, Build(a) \/ Begin(a) \/ RunStep(a) \/ End(a) \/ Kill(a)
      PROVE  Only(a) /\ \/ Clears(a) \/ Moves(a)
                        \/ Approve(a) \/ ApproveGuess(a) \/ Fills(a) \/ FillsNot(a)
  <2>1. CASE Build(a)
    <3>1. /\ pc[a] = "off" /\ pc' = [pc EXCEPT ![a] = "idle"] /\ UNCHANGED <<legs, orders, held>>
          /\ overlapped' = (overlapped \/ \E b \in Agents : pc[b] # "off")
      BY <2>1 DEF Build, Goes, worldVars
    <3>2. orders[a] = << >>
      BY <3>1 DEF Shape, Holds
    <3> QED
      BY <1>1, <3>1, <3>2 DEF Only, Clears
  <2>2. ASSUME pc[a] # "off", overlapped' = overlapped
        PROVE  ~overlapped' => ~overlapped /\ \A b \in Agents \ {a} : pc[b] = "off"
    BY <2>2 DEF Invariant, Alone, Live
  <2>3. CASE Begin(a)
    <3>1. /\ pc[a] = "idle" /\ pc' = [pc EXCEPT ![a] = "assess"] /\ UNCHANGED <<orders, held, overlapped>>
          /\ \E j \in Jobs \cup {<< >>} : legs' = [legs EXCEPT ![a] = j]
      BY <2>3 DEF Begin, Goes, worldVars
    <3> QED
      BY <1>1, <2>2, <3>1 DEF Only, Moves
  <2>4. CASE Assess(a) \/ Circuit(a) \/ Trigger(a)
    <3>1. /\ pc[a] \in {"assess", "circuit"} /\ UNCHANGED <<legs, orders, held, overlapped>>
          /\ \/ pc' = [pc EXCEPT ![a] = "circuit"]
             \/ pc[a] = "circuit" /\ pc' = [pc EXCEPT ![a] = AfterAssess(a)]
      BY <2>4, Zenon DEF Assess, Circuit, Trigger, Goes, worldVars
    <3>2. CASE pc' = [pc EXCEPT ![a] = "circuit"]
      BY <1>1, <2>2, <3>1, <3>2 DEF Only, Moves
    <3>3. CASE pc[a] = "circuit" /\ pc' = [pc EXCEPT ![a] = AfterAssess(a)]
      <4>1. CASE legs[a] # << >>
        BY <1>1, <2>2, <3>1, <3>3, <4>1 DEF Only, Moves, AfterAssess
      <4>2. CASE legs[a] = << >>
        <5>1. orders[a] = << >>
          BY <3>3, <4>2, EmptySeq DEF Shape, Holds, Second
        <5> QED
          BY <1>1, <2>2, <3>1, <3>3, <4>2, <5>1 DEF Only, Clears, AfterAssess
      <4> QED
        BY <4>1, <4>2
    <3> QED
      BY <3>1, <3>2, <3>3
  <2>5. CASE AssessBlind(a) \/ AssessUnsaved(a) \/ TriggerUnsaved(a) \/ Reject(a)
    <3>1. /\ pc[a] # "off" /\ pc' = [pc EXCEPT ![a] = "idle"] /\ UNCHANGED <<held, overlapped>>
          /\ legs' = [legs EXCEPT ![a] = << >>] /\ orders' = [orders EXCEPT ![a] = << >>]
      BY <2>5, Zenon DEF AssessBlind, AssessUnsaved, TriggerUnsaved, Reject, Rejects, Goes, worldVars
    <3> QED
      BY <1>1, <2>2, <3>1 DEF Only, Clears
  <2>6. CASE PriceRaises(a) \/ End(a) \/ Kill(a)
    <3>1. /\ pc[a] # "off" /\ pc' = [pc EXCEPT ![a] = "off"] /\ UNCHANGED <<held, overlapped>>
          /\ legs' = [legs EXCEPT ![a] = << >>] /\ orders' = [orders EXCEPT ![a] = << >>]
      BY <2>6, Zenon DEF PriceRaises, End, Kill, Gone, worldVars
    <3> QED
      BY <1>1, <2>2, <3>1 DEF Only, Clears
  <2>7. CASE Approve(a) \/ ApproveGuess(a)
    <3>1. PICK B : ApproveWith(a, B)
      BY <2>7 DEF Approve, ApproveGuess
    <3>2. \E to : pc' = [pc EXCEPT ![a] = to]
      BY <3>1, Zenon DEF ApproveWith, Goes
    <3>3. pc[a] # "off" /\ overlapped' = overlapped /\ legs' = [legs EXCEPT ![a] = Tail(legs[a])]
      BY <3>1, Zenon DEF ApproveWith, Goes
    <3>4. \E q : orders' = [orders EXCEPT ![a] = q]
      BY <3>1, Zenon DEF ApproveWith
    <3> QED
      BY <1>1, <2>2, <2>7, <3>2, <3>3, <3>4 DEF Only
  <2>8. CASE Fills(a) \/ FillsNot(a)
    <3>1. /\ pc[a] # "off" /\ UNCHANGED <<legs, overlapped>>
          /\ \E to : pc' = [pc EXCEPT ![a] = to]
          /\ orders' = [orders EXCEPT ![a] = Tail(orders[a])]
      BY <2>8, Zenon DEF Fills, FillsNot, Executed, Goes
    <3> QED
      BY <1>1, <2>2, <2>8, <3>1 DEF Only
  <2> QED
    BY <1>5, <2>1, <2>3, <2>4, <2>5, <2>6, <2>7, <2>8 DEF RunStep
<1> QED
  BY <1>2, <1>3, <1>4, <1>5 DEF Next

\* What an approval adds to the orders.
LEMMA Approved ==
  ASSUME Invariant, NEW a \in Agents, Approve(a) \/ ApproveGuess(a)
  PROVE  /\ pc[a] = "verdict" /\ legs[a] # << >> /\ held' = held
         /\ legs'[a] = Tail(legs[a])
         /\ pc'[a] = IF Len(legs[a]) = 1 THEN "execute" ELSE "assess"
         /\ \E o \in Approvals :
              /\ orders'[a] = Append(orders[a], o)
              /\ o.symbol = Head(legs[a]) /\ Fits(held, o, 0)
              /\ o.before = IF orders[a] = << >> THEN 0
                            ELSE Worth(orders[a][1].symbol, orders[a][1].lots)
<1> DEFINE s == Head(legs[a])
           e == seen[a]
           before == IF orders[a] = << >> THEN 0
                     ELSE orders[a][1].lots * 100 * Price[orders[a][1].symbol]
<1>1. PICK B : ApproveWith(a, B) /\ (Approve(a) => B = {}) /\ (~Approve(a) => B # {})
  BY DEF Approve, ApproveGuess
<1>2. /\ pc \in [Agents -> {"off", "idle", "assess", "circuit", "verdict", "execute"}]
      /\ legs \in [Agents -> Seq(Symbols)] /\ orders \in [Agents -> Seq(Approvals)] /\ TypeOK
  BY DEF Invariant, TypeOK
<1>3. /\ pc[a] = "verdict" /\ held' = held /\ legs'[a] = Tail(legs[a])
      /\ pc'[a] = IF Len(legs[a]) = 1 THEN "execute" ELSE "assess"
  BY <1>1, <1>2, Zenon DEF ApproveWith, Goes, worldVars
<1>4. legs[a] # << >> /\ e \in Equities /\ s \in Symbols
  <2>1. legs[a] # << >> /\ e \in Equities
    BY <1>3 DEF Invariant, TypeOK
  <2> QED
    BY <1>2, <2>1, SeqFacts
<1>5. PICK req \in Requests : \E lots \in Scaled(Base(s, req, e, B)) :
        orders' = [orders EXCEPT ![a] =
                     Append(@, Approval(s, lots, e, IF B # {} THEN "guess" ELSE Exceeded(s, req, e, B), before))]
  BY <1>1, Zenon DEF ApproveWith
<1>5a. PICK lots \in Scaled(Base(s, req, e, B)) :
        orders' = [orders EXCEPT ![a] =
                     Append(@, Approval(s, lots, e, IF B # {} THEN "guess" ELSE Exceeded(s, req, e, B), before))]
  BY <1>5
<1> DEFINE via == IF B # {} THEN "guess" ELSE Exceeded(s, req, e, B)
           o == Approval(s, lots, e, via, before)
<1>6. orders'[a] = Append(orders[a], o)
  BY <1>2, <1>5a
<1>7. o.symbol = s /\ o.via = via /\ o.before = before
  BY DEF Approval
<1>8. Fits(held, o, 0)
  <2>1. CASE B # {}
    <3>1. o.via = "guess"
      BY <1>7, <2>1
    <3> QED
      BY <3>1 DEF Fits
  <2>2. CASE B = {}
    <3>1. lots \in Scaled(Base(s, req, e, {})) /\ o = Approval(s, lots, e, Exceeded(s, req, e, {}), before)
      BY <2>2
    <3> HIDE DEF o, s, e, before
    <3>2. s \in Symbols /\ e \in Equities
      BY <1>4
    <3>3. Fits(held, Approval(s, lots, e, Exceeded(s, req, e, {}), before), 0)
      BY <1>2, <3>1, <3>2, ApprovedFits
    <3> QED
      BY <3>1, <3>3
  <2> QED
    BY <2>1, <2>2
<1>9. before = (IF orders[a] = << >> THEN 0 ELSE Worth(orders[a][1].symbol, orders[a][1].lots))
  <2>1. CASE orders[a] = << >>
    BY <2>1
  <2>2. CASE orders[a] # << >>
    <3>1. orders[a][1] \in Approvals
      BY <1>2, <2>2, EmptySeq, ElementOfSeq, SMT
    <3>2. orders[a][1].lots \in Nat /\ Price[orders[a][1].symbol] \in Nat
      BY <3>1, CapFacts, RiskAssumption
    <3>3. \A x, y \in Nat : x * 100 * y = x * (100 * y)
      BY SMT
    <3> QED
      BY <2>2, <3>2, <3>3 DEF Worth
  <2> QED
    BY <2>1, <2>2
<1>10. o \in Approvals
  <2>1. lots \in Nat \ {0}
    BY SMT DEF Scaled
  <2>2. via \in Vias
    BY Zenon DEF Exceeded, Vias
  <2>3. before \in Nat
    <3>1. CASE orders[a] = << >>
      BY <3>1
    <3>2. CASE orders[a] # << >>
      <4>1. orders[a][1] \in Approvals
        BY <1>2, <3>2, EmptySeq, ElementOfSeq, SMT
      <4>2. Worth(orders[a][1].symbol, orders[a][1].lots) \in Nat
        BY <4>1, CapFacts, WorthFacts
      <4> QED
        BY <1>9, <3>2, <4>2
    <3> QED
      BY <3>1, <3>2
  <2> HIDE DEF s, e, via, before
  <2> QED
    BY <1>4, <2>1, <2>2, <2>3, Zenon DEF Approval, Approvals, Vias
<1> QED
  BY <1>3, <1>4, <1>6, <1>7, <1>8, <1>9, <1>10

\* The first orders of a sequence, when one is appended and when one is taken.
LEMMA OrderFacts ==
  ASSUME NEW S, NEW q \in Seq(S), NEW x \in S
  PROVE  /\ q = << >> => Len(Append(q, x)) = 1 /\ Append(q, x)[1] = x
         /\ Len(q) = 1 => Len(Append(q, x)) = 2 /\ Append(q, x)[1] = q[1] /\ Append(q, x)[2] = x
         /\ q # << >> => Head(q) = q[1] /\ q[1] \in S /\ Len(Tail(q)) = Len(q) - 1
         /\ Len(q) = 1 => Tail(q) = << >>
         /\ Len(q) = 2 => q[2] \in S /\ Head(Tail(q)) = q[2] /\ Tail(q)[1] = q[2] /\ Tail(q) # << >>
         /\ Len(q) \in Nat /\ (Len(q) = 0 <=> q = << >>)
<1> DEFINE r == Append(q, x)
           t == Tail(q)
<1>1. Len(q) \in Nat /\ (Len(q) = 0 <=> q = << >>) /\ Len(<< >>) = 0
  BY EmptySeq, LenProperties, SMT
<1>2. Len(r) = Len(q) + 1 /\ r[Len(q) + 1] = x /\ \A i \in 1..Len(q) : r[i] = q[i]
  BY AppendProperties
<1>4. ASSUME q # << >>
      PROVE  t \in Seq(S) /\ Len(t) = Len(q) - 1 /\ \A i \in 1..Len(t) : t[i] = q[i + 1]
  BY <1>4, HeadTailProperties
<1>5. \A i \in 1..Len(q) : q[i] \in S
  BY ElementOfSeq
<1> HIDE DEF r, t
<1>3. Head(q) = q[1] /\ Head(t) = t[1]
  BY DEF Head
<1>6. t \in Seq(S) => (Len(t) = 0 <=> t = << >>)
  BY EmptySeq, SMT
<1>7. /\ q = << >> => Len(r) = 1 /\ r[1] = x
      /\ Len(q) = 1 => Len(r) = 2 /\ r[1] = q[1] /\ r[2] = x
  <2>1. CASE Len(q) = 0
    BY <1>1, <1>2, <2>1, SMT
  <2>2. CASE Len(q) = 1
    <3>1. 1 \in 1..Len(q) /\ Len(q) + 1 = 2
      BY <2>2, SMT
    <3> QED
      BY <1>1, <1>2, <2>2, <3>1
  <2> QED
    BY <1>1, <2>1, <2>2
<1>8. q # << >> => q[1] \in S
  <2>1. Len(q) # 0 => 1 \in 1..Len(q)
    BY <1>1, SMT
  <2> QED
    BY <1>1, <1>5, <2>1
<1>9. Len(q) = 1 => t = << >>
  <2>1. Len(q) = 1 => Len(q) - 1 = 0 /\ Len(q) # 0
    BY SMT
  <2> QED
    BY <1>1, <1>4, <1>6, <2>1
<1>10. Len(q) = 2 => q[2] \in S /\ t[1] = q[2] /\ t # << >>
  <2>1. Len(q) = 2 => Len(q) - 1 = 1 /\ Len(q) # 0 /\ 2 \in 1..Len(q) /\ 1 # 0
    BY SMT
  <2>2. 1 \in 1..1 /\ 1 + 1 = 2
    BY SMT
  <2> QED
    BY <1>1, <1>4, <1>5, <1>6, <2>1, <2>2
<1> QED
  BY <1>1, <1>3, <1>4, <1>7, <1>8, <1>9, <1>10 DEF r, t

\* The execution takes the first order.
LEMMA Executes ==
  ASSUME Invariant, Shape, NEW a \in Agents, Fills(a) \/ FillsNot(a)
  PROVE  /\ orders[a] # << >> /\ Len(orders[a]) \in {1, 2} /\ orders[a][1] \in Approvals
         /\ Head(orders[a]) = orders[a][1] /\ orders'[a] = Tail(orders[a]) /\ pc[a] # "off"
         /\ Len(orders[a]) = 1 => pc'[a] = "idle" /\ orders'[a] = << >>
         /\ Len(orders[a]) = 2 =>
              /\ pc'[a] = "execute" /\ Both(a) /\ Len(orders'[a]) = 1 /\ orders'[a] # << >>
              /\ orders'[a][1] = orders[a][2] /\ orders[a][2] \in Approvals
<1>1. /\ pc[a] = "execute" /\ orders' = [orders EXCEPT ![a] = Tail(orders[a])]
      /\ pc' = [pc EXCEPT ![a] = IF Len(orders[a]) = 1 THEN "idle" ELSE "execute"]
  BY Zenon DEF Fills, FillsNot, Executed, Goes
<1>2. orders[a] \in Seq(Approvals) /\ orders[a] # << >> /\ orders'[a] = Tail(orders[a])
      /\ pc'[a] = IF Len(orders[a]) = 1 THEN "idle" ELSE "execute"
  BY <1>1 DEF Invariant, TypeOK
<1>3. Len(orders[a]) = 1 \/ Both(a)
  BY <1>1 DEF Shape, Holds
<1>4. orders[a][1] \in Approvals
  BY <1>2, EmptySeq, ElementOfSeq, SMT
<1>5. /\ Head(orders[a]) = orders[a][1] /\ Len(Tail(orders[a])) = Len(orders[a]) - 1
      /\ Len(orders[a]) = 1 => Tail(orders[a]) = << >>
      /\ Len(orders[a]) = 2 => orders[a][2] \in Approvals /\ Tail(orders[a])[1] = orders[a][2] /\ Tail(orders[a]) # << >>
  BY <1>2, <1>4, OrderFacts
<1>6. Len(orders[a]) = 2 => Len(orders[a]) - 1 = 1 /\ Len(orders[a]) # 1
  BY SMT
<1>7. Len(orders[a]) \in {1, 2} /\ (Len(orders[a]) = 2 => Both(a))
  BY <1>3, SMT DEF Both
<1>8. pc[a] # "off" /\ (Len(orders[a]) = 1 => pc'[a] = "idle") /\ (Len(orders[a]) # 1 => pc'[a] = "execute")
  BY <1>1, <1>2
<1> HIDE DEF Both
<1> QED
  BY <1>2, <1>4, <1>5, <1>6, <1>7, <1>8

\* An agent has the orders that fit where it stands.
LEMMA ShapeKeeps ==
  ASSUME Invariant, Shape, [Next]_vars
  PROVE  Shape'
<1>1. CASE Unmoved
  BY <1>1 DEF Unmoved, Shape, Holds, Second, Both, Worth
<1>2. ASSUME NEW a \in Agents, Only(a), NEW b \in Agents, b # a
      PROVE  Holds(b)'
  BY <1>2 DEF Only, Shape, Holds, Second, Both, Worth
<1>3. ASSUME NEW a \in Agents, Clears(a)
      PROVE  Holds(a)'
  BY <1>3 DEF Clears, Holds
<1>4. ASSUME NEW a \in Agents, Moves(a)
      PROVE  Holds(a)'
  BY <1>4, Zenon DEF Moves, Shape, Holds, Second
<1>5. ASSUME NEW a \in Agents, Approve(a) \/ ApproveGuess(a)
      PROVE  Holds(a)'
  <2>1. /\ pc[a] = "verdict" /\ legs[a] # << >> /\ legs'[a] = Tail(legs[a])
        /\ pc'[a] = IF Len(legs[a]) = 1 THEN "execute" ELSE "assess"
    BY <1>5, Approved
  <2>2. PICK o \in Approvals :
          /\ orders'[a] = Append(orders[a], o) /\ o.symbol = Head(legs[a])
          /\ o.before = IF orders[a] = << >> THEN 0 ELSE Worth(orders[a][1].symbol, orders[a][1].lots)
    BY <1>5, Approved, Zenon
  <2>3. orders[a] \in Seq(Approvals) /\ legs[a] \in Seq(Symbols)
    BY DEF Invariant, TypeOK
  <2>4. CASE orders[a] = << >> /\ legs[a] \in Jobs
    <3>1. Len(orders'[a]) = 1 /\ orders'[a][1] = o
      BY <2>2, <2>3, <2>4, OrderFacts
    <3>2. CASE Len(legs[a]) = 1
      BY <2>1, <3>1, <3>2 DEF Holds
    <3>3. CASE Len(legs[a]) # 1
      <4>1. Len(legs[a]) = 2 /\ legs[a][1] # legs[a][2]
        BY <2>4, <3>3, RiskAssumption, SMT
      <4>2. /\ Head(legs[a]) = legs[a][1] /\ Len(Tail(legs[a])) = Len(legs[a]) - 1
            /\ Head(Tail(legs[a])) = legs[a][2]
        <5>1. Head(legs[a]) \in Symbols
          BY <2>1, <2>3, SeqFacts
        <5> QED
          BY <2>1, <2>3, <4>1, <5>1, OrderFacts
      <4>3. Len(legs'[a]) = 1 /\ Head(legs'[a]) # orders'[a][1].symbol
        BY <2>1, <2>2, <3>1, <4>1, <4>2, SMT
      <4> QED
        BY <2>1, <3>1, <3>3, <4>3 DEF Holds, Second
    <3> QED
      BY <3>2, <3>3
  <2>5. CASE Second(a)
    <3>1. Len(orders[a]) = 1 /\ pc'[a] = "execute" /\ Head(legs[a]) # orders[a][1].symbol
      BY <2>1, <2>5 DEF Second
    <3>2. Len(orders'[a]) = 2 /\ orders'[a][1] = orders[a][1] /\ orders'[a][2] = o
      BY <2>2, <2>3, <3>1, OrderFacts
    <3>3. orders[a] # << >>
      BY <3>1, EmptySeq, SMT
    <3>4. Both(a)'
      BY <2>2, <3>1, <3>2, <3>3 DEF Both, Worth
    <3> QED
      BY <3>1, <3>4 DEF Holds
  <2>6. (orders[a] = << >> /\ legs[a] \in Jobs) \/ Second(a)
    BY <2>1 DEF Shape, Holds
  <2> QED
    BY <2>4, <2>5, <2>6
<1>6. ASSUME NEW a \in Agents, Fills(a) \/ FillsNot(a)
      PROVE  Holds(a)'
  <2>1. CASE Len(orders[a]) = 1
    <3>1. pc'[a] = "idle" /\ orders'[a] = << >>
      BY <1>6, <2>1, Executes
    <3> QED
      BY <3>1 DEF Holds
  <2>2. CASE Len(orders[a]) = 2
    <3>1. pc'[a] = "execute" /\ Len(orders'[a]) = 1
      BY <1>6, <2>2, Executes
    <3> QED
      BY <3>1 DEF Holds
  <2> QED
    BY <1>6, <2>1, <2>2, Executes
<1>7. CASE \E a \in Agents : Only(a) /\ \/ Clears(a) \/ Moves(a)
                                        \/ Approve(a) \/ ApproveGuess(a) \/ Fills(a) \/ FillsNot(a)
  <2>1. PICK a \in Agents : Only(a) /\ \/ Clears(a) \/ Moves(a)
                                       \/ Approve(a) \/ ApproveGuess(a) \/ Fills(a) \/ FillsNot(a)
    BY <1>7
  <2>2. Holds(a)'
    BY <1>3, <1>4, <1>5, <1>6, <2>1
  <2> QED
    BY <1>2, <2>1, <2>2 DEF Shape
<1> QED
  BY <1>1, <1>7, Steps

\* Until two agents overlap, every order fits beside what is held.
LEMMA CappedKeeps ==
  ASSUME Invariant, Shape, Capped, [Next]_vars
  PROVE  Capped'
<1>1. held \in [Symbols -> Nat] /\ orders \in [Agents -> Seq(Approvals)]
  BY DEF Invariant, TypeOK
<1>2. ASSUME NEW b \in Agents
      PROVE  /\ orders[b] # << >> => orders[b][1] \in Approvals /\ orders[b][1].before \in Nat
             /\ Len(orders[b]) = 2 => orders[b][2] \in Approvals
  <2>1. orders[b] \in Seq(Approvals)
    BY <1>1
  <2>2. Len(orders[b]) = 2 => orders[b][2] \in Approvals
    BY <2>1, ElementOfSeq, SMT
  <2>3. orders[b] # << >> => orders[b][1] \in Approvals
    BY <2>1, EmptySeq, ElementOfSeq, SMT
  <2> QED
    BY <2>2, <2>3, CapFacts
<1>3. 0 \in Nat /\ 0 <= 0 /\ \A n \in Nat : n <= n /\ 0 <= n
  BY SMT
<1>4. ASSUME NEW b \in Agents, ~overlapped, NEW h \in [Symbols -> Nat], \A s \in Symbols : h[s] <= held[s]
      PROVE  /\ orders[b] # << >> => Fits(h, orders[b][1], orders[b][1].before)
             /\ Len(orders[b]) = 2 => Fits(h, orders[b][2], 0)
  <2>1. Fit(b)
    BY <1>4 DEF Capped
  <2>2. ASSUME orders[b] # << >>
        PROVE  Fits(h, orders[b][1], orders[b][1].before)
    <3>1. PICK o \in Approvals, x \in Nat : o = orders[b][1] /\ x = orders[b][1].before
      BY <1>2, <2>2
    <3>2. Fits(held, o, x)
      BY <2>1, <2>2, <3>1 DEF Fit
    <3>3. Fits(h, o, x)
      BY <1>1, <1>3, <1>4, <3>2, FitsLasts
    <3> QED
      BY <3>1, <3>3
  <2>3. ASSUME Len(orders[b]) = 2
        PROVE  Fits(h, orders[b][2], 0)
    <3>1. PICK o \in Approvals : o = orders[b][2]
      BY <1>2, <2>3
    <3>2. Fits(held, o, 0)
      BY <2>1, <2>3, <3>1 DEF Fit
    <3>3. Fits(h, o, 0)
      BY <1>1, <1>3, <1>4, <3>2, FitsLasts
    <3> QED
      BY <3>1, <3>3
  <2> QED
    BY <2>2, <2>3
<1>5. ASSUME NEW b \in Agents, orders'[b] = << >>
      PROVE  Fit(b)'
  <2>1. Len(orders'[b]) # 2
    BY <1>5, EmptySeq, SMT
  <2> QED
    BY <1>5, <2>1 DEF Fit
<1>6. ASSUME NEW b \in Agents, orders'[b] = orders[b], ~overlapped,
             held' \in [Symbols -> Nat], \A s \in Symbols : held'[s] <= held[s]
      PROVE  Fit(b)'
  <2>1. /\ orders[b] # << >> => Fits(held', orders[b][1], orders[b][1].before)
        /\ Len(orders[b]) = 2 => Fits(held', orders[b][2], 0)
    BY <1>4, <1>6
  <2>2. /\ orders'[b] # << >> => Fits(held', orders'[b][1], orders'[b][1].before)
        /\ Len(orders'[b]) = 2 => Fits(held', orders'[b][2], 0)
    BY <1>6, <2>1
  <2> QED
    BY <2>2 DEF Fit
<1>7. CASE Unmoved
  <2>1. /\ orders' = orders /\ overlapped' = overlapped
        /\ held' \in [Symbols -> Nat] /\ \A s \in Symbols : held'[s] <= held[s]
    BY <1>7 DEF Unmoved
  <2> QED
    BY <1>6, <2>1 DEF Capped
<1>8. held' = held => held' \in [Symbols -> Nat] /\ \A s \in Symbols : held'[s] <= held[s]
  BY <1>1, <1>3
<1>9. ASSUME NEW a \in Agents, Only(a), ~overlapped', NEW b \in Agents, b # a
      PROVE  Fit(b)'
  <2>1. pc[b] = "off" /\ orders'[b] = orders[b]
    BY <1>9 DEF Only
  <2>2. orders'[b] = << >>
    BY <2>1 DEF Shape, Holds
  <2> QED
    BY <1>5, <2>2
<1>10. ASSUME NEW a \in Agents, ~overlapped, Approve(a) \/ ApproveGuess(a)
       PROVE  Fit(a)'
  <2>1. (orders[a] = << >> \/ Second(a)) /\ held' = held
    <3>1. pc[a] = "verdict" /\ held' = held
      BY <1>10, Approved
    <3> QED
      BY <3>1 DEF Shape, Holds
  <2>2. PICK o \in Approvals :
          /\ orders'[a] = Append(orders[a], o) /\ Fits(held, o, 0)
          /\ o.before = IF orders[a] = << >> THEN 0 ELSE Worth(orders[a][1].symbol, orders[a][1].lots)
    BY <1>10, Approved, Zenon
  <2>3. orders[a] \in Seq(Approvals)
    BY <1>1
  <2>4. CASE orders[a] = << >>
    <3>1. Len(orders'[a]) = 1 /\ orders'[a][1] = o /\ o.before = 0
      BY <2>2, <2>3, <2>4, OrderFacts
    <3>2. Len(orders'[a]) # 2
      BY <3>1, SMT
    <3>3. Fits(held', orders'[a][1], orders'[a][1].before)
      BY <2>1, <2>2, <3>1
    <3> QED
      BY <3>2, <3>3 DEF Fit
  <2>5. CASE Second(a)
    <3>1. Len(orders[a]) = 1 /\ orders[a] # << >>
      BY <2>5, EmptySeq, SMT DEF Second
    <3>2. Len(orders'[a]) = 2 /\ orders'[a][1] = orders[a][1] /\ orders'[a][2] = o
      BY <2>2, <2>3, <3>1, OrderFacts
    <3>3. Fits(held', orders'[a][1], orders'[a][1].before)
      <4>1. Fits(held, orders[a][1], orders[a][1].before)
        BY <1>3, <1>4, <1>1, <1>10, <3>1
      <4> QED
        BY <2>1, <3>2, <4>1
    <3>4. Fits(held', orders'[a][2], 0)
      BY <2>1, <2>2, <3>2
    <3> QED
      BY <3>3, <3>4 DEF Fit
  <2> QED
    BY <2>1, <2>4, <2>5
<1>11. ASSUME NEW a \in Agents, ~overlapped, Fills(a) \/ FillsNot(a)
       PROVE  Fit(a)'
  <2>1. CASE Len(orders[a]) = 1
    <3>1. orders'[a] = << >>
      BY <1>11, <2>1, Executes
    <3> QED
      BY <1>5, <3>1
  <2>2. CASE Len(orders[a]) = 2
    <3>1. /\ Both(a) /\ Len(orders'[a]) = 1 /\ orders'[a][1] = orders[a][2]
          /\ orders[a][1] \in Approvals /\ orders[a][2] \in Approvals /\ Head(orders[a]) = orders[a][1]
      BY <1>11, <2>2, Executes
    <3>2. PICK p \in Approvals, o \in Approvals : p = orders[a][1] /\ o = orders[a][2]
      BY <3>1
    <3>3. p.symbol # o.symbol /\ o.before = Worth(p.symbol, p.lots) /\ Fits(held, o, 0)
      <4>1. \A s \in Symbols : held[s] <= held[s]
        BY <1>1, <1>3
      <4>2. Fits(held, orders[a][2], 0)
        BY <1>1, <1>4, <1>11, <2>2, <4>1
      <4> QED
        BY <3>1, <3>2, <4>2 DEF Both
    <3>4. p.symbol \in Symbols /\ p.lots \in Nat /\ o.before \in Nat
      BY CapFacts
    <3>5. Fits(held', o, o.before)
      <4>1. CASE Fills(a)
        <5>1. held' = [held EXCEPT ![p.symbol] = @ + p.lots]
          BY <3>1, <3>2, <4>1 DEF Fills
        <5>2. held' \in [Symbols -> Nat] /\ Adds(held, held', p.symbol, p.lots)
          <6>1. \A n \in Nat : n + p.lots \in Nat
            BY <3>4, SMT
          <6> QED
            BY <1>1, <3>4, <5>1, <6>1 DEF Adds
        <5>3. PICK h \in [Symbols -> Nat] : h = held'
          BY <5>2
        <5>4. Adds(held, h, p.symbol, p.lots)
          BY <5>2, <5>3
        <5>5. Fits(h, o, Worth(p.symbol, p.lots))
          BY <1>1, <3>3, <5>4, FitsBeside
        <5> QED
          BY <3>3, <5>3, <5>5
      <4>2. CASE FillsNot(a)
        <5>1. held' = held
          BY <4>2 DEF FillsNot
        <5>2. \A s \in Symbols : held[s] <= held[s]
          BY <1>1, <1>3
        <5>3. Fits(held, o, o.before)
          BY <1>1, <1>3, <3>3, <3>4, <5>2, FitsLasts
        <5> QED
          BY <5>1, <5>3
      <4> QED
        BY <1>11, <4>1, <4>2
    <3>6. Fits(held', orders'[a][1], orders'[a][1].before)
      BY <3>1, <3>2, <3>5
    <3>7. Len(orders'[a]) # 2
      BY <3>1, SMT
    <3> QED
      BY <3>6, <3>7 DEF Fit
  <2> QED
    BY <1>11, <2>1, <2>2, Executes
<1>12. CASE \E a \in Agents : Only(a) /\ \/ Clears(a) \/ Moves(a)
                                         \/ Approve(a) \/ ApproveGuess(a) \/ Fills(a) \/ FillsNot(a)
  <2>1. PICK a \in Agents : Only(a) /\ \/ Clears(a) \/ Moves(a)
                                       \/ Approve(a) \/ ApproveGuess(a) \/ Fills(a) \/ FillsNot(a)
    BY <1>12
  <2>2. ~overlapped' => ~overlapped
    BY <2>1 DEF Only
  <2>3. CASE Clears(a)
    BY <1>5, <1>9, <2>1, <2>3 DEF Clears, Capped
  <2>4. CASE Moves(a)
    BY <1>6, <1>8, <1>9, <2>1, <2>2, <2>4 DEF Moves, Capped
  <2>5. CASE Approve(a) \/ ApproveGuess(a)
    BY <1>9, <1>10, <2>1, <2>2, <2>5 DEF Capped
  <2>6. CASE Fills(a) \/ FillsNot(a)
    BY <1>9, <1>11, <2>1, <2>2, <2>6 DEF Capped
  <2> QED
    BY <2>1, <2>3, <2>4, <2>5, <2>6
<1> QED
  BY <1>7, <1>12, Steps

\* An order that fits exceeds no cap when it is filled.
LEMMA FilledWithinCaps ==
  ASSUME Invariant, Shape, Capped, ~overlapped, NEW a \in Agents, Fills(a), NEW o, o = Head(orders[a]), o.via # "guess"
  PROVE  /\ o.lots * Weight(o.symbol, o.equity, {}) <= MaxSingle * o.equity
         /\ o.via # "single" => Used(held', {o.symbol}, o.equity, {}) <= MaxSymbol * o.equity
         /\ o.via \notin {"single", "symbol"} =>
              Used(held', Sector[o.symbol], o.equity, {}) <= MaxSector * o.equity + o.before
<1> DEFINE s == o.symbol
           e == o.equity
           n == o.lots
<1>1. o \in Approvals /\ Fits(held, o, o.before)
  <2>1. orders[a] # << >> /\ orders[a][1] \in Approvals /\ Head(orders[a]) = orders[a][1]
    BY Executes
  <2>2. Fits(held, orders[a][1], orders[a][1].before)
    BY <2>1 DEF Capped, Fit
  <2> QED
    BY <2>1, <2>2
<1>2. /\ s \in Symbols /\ e \in Nat /\ n \in Nat /\ o.before \in Nat /\ MaxSector \in Nat
      /\ Sector[s] \in SUBSET Symbols /\ {s} \in SUBSET Symbols
  BY <1>1, CapFacts
<1>3. PICK h \in [Symbols -> Nat], g \in [Symbols -> Nat] : h = held /\ g = held' /\ Adds(h, g, s, n)
  <2>1. held' = [held EXCEPT ![s] = @ + n] /\ held \in [Symbols -> Nat]
    BY DEF Fills, Invariant, TypeOK
  <2>2. \A m \in Nat : m + n \in Nat
    BY <1>2, SMT
  <2>3. held' \in [Symbols -> Nat] /\ Adds(held, held', s, n)
    BY <1>2, <2>1, <2>2 DEF Adds
  <2> QED
    BY <2>1, <2>3
<1>4. n * Weight(s, e, {}) = Worth(s, n) /\ Worth(s, n) \in Nat
  <2>1. Weight(s, e, {}) = 100 * Price[s] /\ Worth(s, n) \in Nat
    BY <1>2, WorthFacts
  <2> HIDE DEF s, e, n
  <2> QED
    BY <2>1 DEF Worth
<1>5. ASSUME NEW S \in SUBSET Symbols
      PROVE  /\ s \in S => Used(g, S, e, {}) = Used(h, S, e, {}) + Worth(s, n)
             /\ s \notin S => Used(g, S, e, {}) = Used(h, S, e, {})
             /\ Used(h, S, e, {}) \in Nat
  <2>1. PICK q \in Symbols, m \in Nat : q = s /\ m = n
    BY <1>2
  <2>2. Adds(h, g, q, m)
    BY <1>3, <2>1
  <2>3. /\ q \in S => Used(g, S, e, {}) = Used(h, S, e, {}) + Worth(q, m)
        /\ q \notin S => Used(g, S, e, {}) = Used(h, S, e, {})
    BY <2>2, UsedAdds
  <2>4. Used(h, S, e, {}) \in Nat
    BY UsedFacts
  <2> QED
    BY <2>1, <2>3, <2>4
<1>6. Worth(s, n) <= MaxSingle * e
  BY <1>1 DEF Fits
<1>7. ASSUME o.via # "single"
      PROVE  Used(g, {s}, e, {}) <= MaxSymbol * e
  <2>1. Used(h, {s}, e, {}) + Worth(s, n) <= MaxSymbol * e
    BY <1>1, <1>3, <1>7 DEF Fits
  <2> QED
    BY <1>2, <1>5, <2>1
<1>8. ASSUME o.via \notin {"single", "symbol"}
      PROVE  Used(g, Sector[s], e, {}) <= MaxSector * e + o.before
  <2> DEFINE used == Used(h, Sector[s], e, {})
             room == MaxSector * e + o.before
  <2>1. used + Worth(s, n) <= room
    BY <1>1, <1>3, <1>8 DEF Fits
  <2>2. /\ Used(g, Sector[s], e, {}) \in {used, used + Worth(s, n)} /\ used \in Nat
    BY <1>2, <1>5
  <2>3. room \in Nat
    BY <1>2, SMT
  <2> HIDE DEF used, room
  <2> QED
    BY <1>4, <2>1, <2>2, <2>3, SMT DEF room
<1> QED
  BY <1>3, <1>4, <1>6, <1>7, <1>8

\* Whatever the prices, the caps and the lots: no order that is filled exceeds the cap of
\* a single position, nor, unless an earlier cap has cut it, those of symbol and sector.
THEOREM RiskCaps == Spec => CapsHold
<1>1. Init => Shape /\ Capped
  BY EmptySeq, SMT DEF Init, Shape, Holds, Capped, Fit
<1>2. Invariant /\ Shape /\ Capped /\ [Next]_vars => Shape' /\ Capped'
  BY ShapeKeeps, CappedKeeps
<1>3. ASSUME Invariant, Shape, Capped, [Next]_vars
      PROVE  [~overlapped =>
         \A a \in Agents :
            LET o == Head(orders[a])
            IN  Fills(a) /\ o.via # "guess" =>
                  /\ o.lots * Weight(o.symbol, o.equity, {}) <= MaxSingle * o.equity
                  /\ o.via # "single" =>
                       Used(held', {o.symbol}, o.equity, {}) <= MaxSymbol * o.equity
                  /\ o.via \notin {"single", "symbol"} =>
                       Used(held', Sector[o.symbol], o.equity, {}) <= MaxSector * o.equity + o.before]_vars
  BY <1>3, FilledWithinCaps, Zenon
<1> QED
  BY <1>1, <1>2, <1>3, InvariantHolds, PTL DEF Spec, CapsHold
=============================================================================
