-------------------------- MODULE SignalFlowProofs --------------------------
(***************************************************************************)
(* Proofs about a run of the pipeline.                                     *)
(***************************************************************************)
EXTENDS SignalFlow, FiniteSetTheorems, SequenceTheorems, WellFoundedInduction, TLAPS

-----------------------------------------------------------------------------
(* Positions in order                                                      *)

\* Numbers 0..n-1 given to n positions, no two of them the same, are all given.
LEMMA Numbered ==
  ASSUME NEW S, IsFiniteSet(S), NEW place \in [S -> Nat],
         \A i \in S : place[i] < Cardinality(S),
         \A i, j \in S : place[i] = place[j] => i = j
  PROVE  \A k \in 1..Cardinality(S) : \E i \in S : place[i] = k - 1
  <1> DEFINE n == Cardinality(S)
             T == 0..n - 1
  <1>1. n \in Nat
    BY FS_CardinalityType
  <1>2. IsFiniteSet(T) /\ Cardinality(T) = n
    BY <1>1, FS_Interval, n - 1 \in Int
  <1>3. place \in [S -> T]
    <2>1. \A i \in S : place[i] \in T
      BY <1>1
    <2>2. QED
      BY <2>1
  <1>4. place \in Injection(S, T)
    BY <1>3 DEF Injection, IsInjective
  <1>5. place \in Surjection(S, T)
    BY <1>2, <1>4, FS_Injection
  <1>6. ASSUME NEW k \in 1..n PROVE \E i \in S : place[i] = k - 1
    <2>1. k - 1 \in T
      BY <1>1, <1>6
    <2>2. QED
      BY <1>5, <2>1 DEF Surjection
  <1>7. QED
    BY <1>6

\* As many members of a finite set of numbers are smaller as its place says, and
\* the members that are ahead of one another by a rank and then by themselves
\* have different places.
LEMMA Placed ==
  ASSUME NEW S, S \subseteq Nat, IsFiniteSet(S), NEW rank \in [S -> Nat]
  PROVE  LET place == [i \in S |-> Cardinality({j \in S : rank[j] < rank[i] \/ (rank[j] = rank[i] /\ j < i)})]
         IN  /\ place \in [S -> Nat]
             /\ \A i \in S : place[i] < Cardinality(S)
             /\ \A i, j \in S : place[i] = place[j] => i = j
  <1> DEFINE Ahead(i) == {j \in S : rank[j] < rank[i] \/ (rank[j] = rank[i] /\ j < i)}
             place == [i \in S |-> Cardinality(Ahead(i))]
  <1>1. ASSUME NEW i \in S
        PROVE  /\ Ahead(i) \subseteq S /\ i \notin Ahead(i)
               /\ IsFiniteSet(Ahead(i)) /\ Cardinality(Ahead(i)) \in Nat
               /\ Cardinality(Ahead(i)) < Cardinality(S)
    <2>1. Ahead(i) \subseteq S
      OBVIOUS
    <2>2. i \notin Ahead(i)
      BY <1>1
    <2>3. /\ IsFiniteSet(Ahead(i)) /\ Cardinality(Ahead(i)) <= Cardinality(S)
          /\ Cardinality(S) = Cardinality(Ahead(i)) => S = Ahead(i)
      <3> HIDE DEF Ahead
      <3>1. QED
        BY <2>1, FS_Subset
    <2>4. Cardinality(Ahead(i)) \in Nat /\ Cardinality(S) \in Nat
      <3> HIDE DEF Ahead
      <3>1. QED
        BY <2>3, FS_CardinalityType
    <2>5. Cardinality(S) # Cardinality(Ahead(i))
      <3> HIDE DEF Ahead
      <3>1. QED
        BY <1>1, <2>2, <2>3
    <2> HIDE DEF Ahead
    <2>6. QED
      BY <2>1, <2>2, <2>3, <2>4, <2>5
  <1>2. ASSUME NEW i \in S, NEW j \in S, rank[i] < rank[j] \/ (rank[i] = rank[j] /\ i < j)
        PROVE  Cardinality(Ahead(i)) < Cardinality(Ahead(j))
    <2>1. \A k \in Ahead(i) : k \in Ahead(j)
      <3> SUFFICES ASSUME NEW k \in Ahead(i) PROVE k \in Ahead(j)
        OBVIOUS
      <3>1. k \in Nat /\ i \in Nat /\ j \in Nat /\ rank[k] \in Nat /\ rank[i] \in Nat /\ rank[j] \in Nat
        BY <1>2
      <3>2. QED
        BY <1>2, <3>1
    <2>2. i \in Ahead(j)
      BY <1>2
    <2>3. i \notin Ahead(i)
      BY <1>1, <1>2
    <2>4. IsFiniteSet(Ahead(j)) /\ Cardinality(Ahead(i)) \in Nat /\ Cardinality(Ahead(j)) \in Nat
      <3> HIDE DEF Ahead
      <3>1. QED
        BY <1>1, <1>2
    <2> HIDE DEF Ahead
    <2>5. Ahead(i) \in SUBSET Ahead(j)
      BY <2>1
    <2>6. /\ Cardinality(Ahead(i)) <= Cardinality(Ahead(j))
          /\ Cardinality(Ahead(j)) = Cardinality(Ahead(i)) => Ahead(j) = Ahead(i)
      BY <2>4, <2>5, FS_Subset
    <2>7. QED
      BY <2>2, <2>3, <2>4, <2>6
  <1>3. ASSUME NEW i \in S, NEW j \in S, i # j
        PROVE  Cardinality(Ahead(i)) # Cardinality(Ahead(j))
    <2>1. \/ rank[i] < rank[j] \/ (rank[i] = rank[j] /\ i < j)
          \/ rank[j] < rank[i] \/ (rank[j] = rank[i] /\ j < i)
      <3>1. i \in Nat /\ j \in Nat /\ rank[i] \in Nat /\ rank[j] \in Nat
        BY <1>3
      <3>2. QED
        BY <1>3, <3>1
    <2>2. Cardinality(Ahead(i)) \in Nat /\ Cardinality(Ahead(j)) \in Nat
      <3> HIDE DEF Ahead
      <3>1. QED
        BY <1>1, <1>3
    <2>3. Cardinality(Ahead(i)) < Cardinality(Ahead(j)) \/ Cardinality(Ahead(j)) < Cardinality(Ahead(i))
      <3> HIDE DEF Ahead
      <3>1. QED
        BY <1>2, <1>3, <2>1
    <2> HIDE DEF Ahead
    <2>4. QED
      BY <2>2, <2>3
  <1>4. /\ place \in [S -> Nat]
        /\ \A i \in S : place[i] < Cardinality(S)
        /\ \A i, j \in S : place[i] = place[j] => i = j
    <2> HIDE DEF Ahead
    <2>1. QED
      BY <1>1, <1>3
  <1>5. QED
    BY <1>4

\* What sorting yields: each of the positions once.
IsOrder(f, S) ==
  /\ f \in [1..Cardinality(S) -> S]
  /\ \A k, l \in 1..Cardinality(S) : f[k] = f[l] => k = l
  /\ \A i \in S : \E k \in 1..Cardinality(S) : f[k] = i

\* Members that are placed in order are ordered by their places.
LEMMA OrderOfPlaces ==
  ASSUME NEW S, IsFiniteSet(S), NEW place \in [S -> Nat],
         \A i \in S : place[i] < Cardinality(S),
         \A i, j \in S : place[i] = place[j] => i = j,
         NEW A, NEW f \in [1..Cardinality(S) -> A],
         \A k \in 1..Cardinality(S) :
            (\E i \in S : place[i] = k - 1) => f[k] \in S /\ place[f[k]] = k - 1
  PROVE  IsOrder(f, S)
  <1> DEFINE n == Cardinality(S)
  <1>1. n \in Nat
    BY FS_CardinalityType
  <1>2. ASSUME NEW k \in 1..n PROVE f[k] \in S /\ place[f[k]] = k - 1
    BY Numbered, <1>2
  <1>3. f \in [1..n -> S]
    BY <1>2
  <1>4. ASSUME NEW k \in 1..n, NEW l \in 1..n, f[k] = f[l] PROVE k = l
    <2>1. k - 1 = l - 1
      BY <1>2, <1>4
    <2>2. QED
      BY <1>1, <2>1
  <1>5. ASSUME NEW i \in S PROVE \E k \in 1..n : f[k] = i
    <2>1. place[i] + 1 \in 1..n /\ place[i] = place[i] + 1 - 1
      BY <1>1, <1>5
    <2> DEFINE k == place[i] + 1
    <2>2. f[k] \in S /\ place[f[k]] = k - 1 /\ k - 1 = place[i]
      BY <1>2, <2>1
    <2> HIDE DEF k
    <2>3. f[k] = i
      BY <1>5, <2>2
    <2>4. QED
      BY <2>1, <2>3 DEF k
  <1>6. QED
    BY <1>3, <1>4, <1>5 DEF IsOrder

\* Ascending orders a set of numbers.
LEMMA AscendingOrder ==
  ASSUME NEW S, S \subseteq Nat, IsFiniteSet(S)
  PROVE  IsOrder(Ascending(S), S)
  <1> DEFINE rank == [i \in S |-> 0]
             place == [i \in S |-> Cardinality({j \in S : rank[j] < rank[i] \/ (rank[j] = rank[i] /\ j < i)})]
             f == Ascending(S)
  <1>1. rank \in [S -> Nat]
    OBVIOUS
  <1>2. /\ place \in [S -> Nat]
        /\ \A i \in S : place[i] < Cardinality(S)
        /\ \A i, j \in S : place[i] = place[j] => i = j
    <2> HIDE DEF rank
    <2>1. QED
      BY <1>1, Placed
  <1>3. ASSUME NEW i \in S PROVE place[i] = Cardinality({j \in S : j < i})
    <2>1. {j \in S : rank[j] < rank[i] \/ (rank[j] = rank[i] /\ j < i)} = {j \in S : j < i}
      OBVIOUS
    <2>2. QED
      BY <2>1
  <1> HIDE DEF place
  <1>4. ASSUME NEW k \in 1..Cardinality(S), \E i \in S : place[i] = k - 1
        PROVE  f[k] \in S /\ place[f[k]] = k - 1
    <2>1. \E i \in S : Cardinality({j \in S : j < i}) = k - 1
      BY <1>3, <1>4
    <2>2. f[k] = CHOOSE i \in S : Cardinality({j \in S : j < i}) = k - 1
      BY <1>4 DEF Ascending
    <2>3. f[k] \in S /\ Cardinality({j \in S : j < f[k]}) = k - 1
      BY <2>1, <2>2
    <2>4. QED
      BY <1>3, <2>3
  <1>4a. \A k \in 1..Cardinality(S) :
            (\E i \in S : place[i] = k - 1) => f[k] \in S /\ place[f[k]] = k - 1
    BY <1>4
  <1> DEFINE Pick(k) == CHOOSE i \in S : Cardinality({j \in S : j < i}) = k - 1
             picks   == {Pick(k) : k \in 1..Cardinality(S)}
  <1>5. f = [k \in 1..Cardinality(S) |-> Pick(k)]
    BY DEF Ascending
  <1> HIDE DEF f, Pick
  <1>6. f \in [1..Cardinality(S) -> picks]
    BY <1>5
  <1> HIDE DEF picks
  <1>7. IsOrder(f, S)
    BY ONLY IsFiniteSet(S), <1>2, <1>4a, <1>6, OrderOfPlaces
  <1>8. QED
    BY <1>7 DEF f

\* Sorting by a key yields each of the positions once.
LEMMA RankedOrder ==
  ASSUME NEW S, S \subseteq Nat, IsFiniteSet(S), NEW rank, \A i \in S : rank[i] \in Nat
  PROVE  IsOrder(Ordered(S, rank), S)
  <1> DEFINE key == [i \in S |-> rank[i]]
             place == [i \in S |-> Cardinality({j \in S : key[j] < key[i] \/ (key[j] = key[i] /\ j < i)})]
             Ahead(i) == {j \in S : rank[j] < rank[i] \/ (rank[j] = rank[i] /\ j < i)}
             f == Ordered(S, rank)
  <1>1. /\ place \in [S -> Nat]
        /\ \A i \in S : place[i] < Cardinality(S)
        /\ \A i, j \in S : place[i] = place[j] => i = j
    <2>1. key \in [S -> Nat]
      OBVIOUS
    <2> HIDE DEF key
    <2>2. QED
      BY <2>1, Placed
  <1>2. ASSUME NEW i \in S PROVE place[i] = Cardinality(Ahead(i))
    <2>1. {j \in S : key[j] < key[i] \/ (key[j] = key[i] /\ j < i)} = Ahead(i)
      BY <1>2
    <2>2. QED
      BY <2>1
  <1> DEFINE Pick(k) == CHOOSE i \in S : Cardinality(Ahead(i)) = k - 1
             picks   == {Pick(k) : k \in 1..Cardinality(S)}
  <1>3. f = [k \in 1..Cardinality(S) |-> Pick(k)]
    BY DEF Ordered
  <1> HIDE DEF place, f
  <1>4. ASSUME NEW k \in 1..Cardinality(S), \E i \in S : place[i] = k - 1
        PROVE  f[k] \in S /\ place[f[k]] = k - 1
    <2> HIDE DEF Ahead
    <2>1. \E i \in S : Cardinality(Ahead(i)) = k - 1
      BY <1>2, <1>4
    <2>2. Pick(k) \in S /\ Cardinality(Ahead(Pick(k))) = k - 1
      BY <2>1
    <2> HIDE DEF Pick
    <2>3. f[k] = Pick(k)
      BY <1>3
    <2>4. QED
      BY <1>2, <2>2, <2>3
  <1>4a. \A k \in 1..Cardinality(S) :
            (\E i \in S : place[i] = k - 1) => f[k] \in S /\ place[f[k]] = k - 1
    BY <1>4
  <1> HIDE DEF Pick, Ahead
  <1>5. f \in [1..Cardinality(S) -> picks]
    BY <1>3
  <1> HIDE DEF picks
  <1>6. IsOrder(f, S)
    BY ONLY IsFiniteSet(S), <1>1, <1>4a, <1>5, OrderOfPlaces
  <1>7. QED
    BY <1>6 DEF f

-----------------------------------------------------------------------------
(* Sequences, and what is taken out of them                                *)

IsSeq(s) == s \in Seq({s[i] : i \in 1..Len(s)})

\* A sequence of members of any set is a sequence.
LEMMA SeqOfSet ==
  ASSUME NEW A, NEW s \in Seq(A)
  PROVE  IsSeq(s) /\ Len(s) \in Nat /\ (\A i \in 1..Len(s) : s[i] \in A)
  <1> DEFINE E == {s[i] : i \in 1..Len(s)}
  <1>1. Len(s) \in Nat /\ s \in [1..Len(s) -> A] /\ DOMAIN s = 1..Len(s)
    BY LenProperties
  <1>2. s \in [1..Len(s) -> E]
    BY <1>1
  <1> HIDE DEF E
  <1>3. s \in Seq(E)
    BY <1>1, <1>2, SeqDef
  <1>4. QED
    BY <1>1, <1>3 DEF IsSeq, E

\* The positions of a sequence.
LEMMA SeqFacts ==
  ASSUME NEW s, IsSeq(s)
  PROVE  /\ Len(s) \in Nat /\ DOMAIN s = 1..Len(s)
         /\ s = <<>> <=> Len(s) = 0
  <1> DEFINE E == {s[i] : i \in 1..Len(s)}
  <1>1. s \in Seq(E)
    BY DEF IsSeq
  <1> HIDE DEF E
  <1>2. Len(s) \in Nat /\ DOMAIN s = 1..Len(s)
    BY <1>1, LenProperties
  <1>3. s # <<>> => Len(s) \in Nat \ {0}
    BY <1>1, EmptySeq
  <1>4. Len(<<>>) = 0
    BY EmptySeq
  <1>5. QED
    BY <1>2, <1>3, <1>4

\* A function on the first numbers is a sequence.
LEMMA FunSeq ==
  ASSUME NEW n \in Nat, NEW A, NEW f \in [1..n -> A]
  PROVE  IsSeq(f) /\ Len(f) = n /\ f \in Seq(A)
  <1>1. f \in Seq(A)
    BY SeqDef
  <1>2. Len(f) \in Nat /\ DOMAIN f = 1..Len(f)
    BY <1>1, LenProperties
  <1>3. DOMAIN f = 1..n
    OBVIOUS
  <1>4. Len(f) = n
    BY <1>2, <1>3
  <1>5. QED
    BY <1>1, <1>4, SeqOfSet

\* Two sequences, one behind the other.
LEMMA AppendSeqs ==
  ASSUME NEW s, IsSeq(s), NEW t, IsSeq(t)
  PROVE  /\ IsSeq(s \o t) /\ Len(s \o t) = Len(s) + Len(t)
         /\ \A i \in 1..Len(s) + Len(t) : (s \o t)[i] = IF i <= Len(s) THEN s[i] ELSE t[i - Len(s)]
  <1> DEFINE E == {s[i] : i \in 1..Len(s)}
             F == {t[i] : i \in 1..Len(t)}
             A == E \union F
  <1>1. s \in Seq(E) /\ t \in Seq(F)
    BY DEF IsSeq
  <1> HIDE DEF E, F
  <1>2. s \in Seq(A) /\ t \in Seq(A)
    BY <1>1, SeqMonotonic
  <1> HIDE DEF A
  <1>3. /\ s \o t \in Seq(A) /\ Len(s \o t) = Len(s) + Len(t)
        /\ \A i \in 1..Len(s) + Len(t) : (s \o t)[i] = IF i <= Len(s) THEN s[i] ELSE t[i - Len(s)]
    BY <1>2, ConcatProperties
  <1>4. IsSeq(s \o t)
    BY <1>3, SeqOfSet
  <1>5. QED
    BY <1>3, <1>4

\* What is left of a sequence without its first member.
LEMMA TailSeq ==
  ASSUME NEW s, IsSeq(s), s # <<>>
  PROVE  /\ IsSeq(Tail(s)) /\ Len(Tail(s)) = Len(s) - 1 /\ Head(s) = s[1]
         /\ \A i \in 1..Len(s) - 1 : Tail(s)[i] = s[i + 1]
  <1> DEFINE E == {s[i] : i \in 1..Len(s)}
  <1>1. s \in Seq(E)
    BY DEF IsSeq
  <1> HIDE DEF E
  <1>2. /\ Tail(s) \in Seq(E) /\ Len(Tail(s)) = Len(s) - 1
        /\ \A i \in 1..Len(Tail(s)) : Tail(s)[i] = s[i + 1]
    BY <1>1, HeadTailProperties
  <1>3. Head(s) = s[1]
    BY <1>1
  <1>4. IsSeq(Tail(s))
    BY <1>2, SeqOfSet
  <1>5. QED
    BY <1>2, <1>3, <1>4

\* The function on 1..n that Sequence(f, n) is.
LEMMA SequenceIs ==
  ASSUME NEW n \in Nat, NEW f
  PROVE  /\ IsSeq(Sequence(f, n)) /\ Len(Sequence(f, n)) = n
         /\ \A k \in 1..n : Sequence(f, n)[k] = f[k]
  <1> DEFINE A == {f[i] : i \in 1..n}
             t == SubSeq(f, 1, n)
  <1>1. \A i \in 1..n : f[i] \in A
    OBVIOUS
  <1> HIDE DEF A
  <1>2. /\ t \in Seq(A) /\ Len(t) = IF 1 <= n THEN n - 1 + 1 ELSE 0
        /\ \A i \in 1..n - 1 + 1 : t[i] = f[1 + i - 1]
    BY <1>1, SubSeqProperties
  <1> HIDE DEF t
  <1>3. Len(t) = n
    BY <1>2
  <1>4. \A i \in 1..n : t[i] = f[i]
    BY <1>2
  <1>5. IsSeq(t)
    BY <1>2, SeqOfSet
  <1>6. QED
    BY <1>3, <1>4, <1>5 DEF Sequence, t

\* Keep takes the positions one by one.
LEMMA Kept ==
  ASSUME NEW s, IsSeq(s), NEW S \in SUBSET (1..Len(s))
  PROVE  /\ IsFiniteSet(S) /\ Cardinality(S) \in Nat /\ IsOrder(Ascending(S), S)
         /\ IsSeq(Keep(s, S)) /\ Len(Keep(s, S)) = Cardinality(S)
         /\ \A k \in 1..Cardinality(S) : Keep(s, S)[k] = s[Ascending(S)[k]]
  <1>1. Len(s) \in Nat
    BY SeqFacts
  <1>2. IsFiniteSet(S)
    <2>1. IsFiniteSet(1..Len(s))
      BY <1>1, FS_Interval, 1 \in Int, Len(s) \in Int
    <2>2. QED
      BY <2>1, FS_Subset
  <1>3. Cardinality(S) \in Nat
    BY <1>2, FS_CardinalityType
  <1>4. S \subseteq Nat
    OBVIOUS
  <1>5. IsOrder(Ascending(S), S)
    BY <1>2, <1>4, AscendingOrder
  <1> DEFINE f == [k \in 1..Cardinality(S) |-> s[Ascending(S)[k]]]
  <1>6. \A k \in 1..Cardinality(S) : f[k] = s[Ascending(S)[k]]
    OBVIOUS
  <1> HIDE DEF f
  <1>7. /\ IsSeq(Sequence(f, Cardinality(S))) /\ Len(Sequence(f, Cardinality(S))) = Cardinality(S)
        /\ \A k \in 1..Cardinality(S) : Sequence(f, Cardinality(S))[k] = f[k]
    BY <1>3, SequenceIs
  <1>8. Keep(s, S) = Sequence(f, Cardinality(S))
    BY DEF Keep, f
  <1>9. QED
    BY <1>2, <1>3, <1>5, <1>6, <1>7, <1>8

-----------------------------------------------------------------------------
(* What the stages between the scan and the orders do to the signals       *)

\* A signal as it comes out of a stage: the same entry, of the same pair unless
\* the adaptation drops it.
HasFields(x) == {"symbol", "side", "strategy", "pair"} \subseteq DOMAIN x
Copy(x, y) ==
  /\ HasFields(y) => HasFields(x)
  /\ x.symbol = y.symbol /\ x.side = y.side /\ x.strategy = y.strategy
  /\ ApplyThreshold \/ x.pair = y.pair

\* Each signal of t is a copy of another one of s.
Derived(t, s) ==
  /\ IsSeq(t) /\ IsSeq(s)
  /\ \E m \in [1..Len(t) -> 1..Len(s)] :
        /\ \A k, l \in 1..Len(t) : m[k] = m[l] => k = l
        /\ \A k \in 1..Len(t) : Copy(t[k], s[m[k]])

\* An entry in settings n: of a symbol that may be traded, a leg of a pair of
\* the settings or an entry of its own.
Named(n) == ToSet(Loaded[n].symbols) \union ToSet(Setups[n].requested)
Traded(n, s) == s \in Named(n) /\ Homes[n][s].tradeable
Listed(n, p) ==
  p # NoPair /\ p \in ToSet(Loaded[n].pairs) /\ Homes[n][p[1]].name = Homes[n][p[2]].name
Fair(n, x) ==
  /\ HasFields(x)
  /\ Traded(n, x.symbol)
  /\ \/ ApplyThreshold
     \/ x.strategy # "pairs" /\ x.pair = NoPair
     \/ x.strategy = "pairs" /\ Listed(n, x.pair)

\* Two entries for a pair are its two legs.
Joins(p, s, t) == p \in {<<s, t>>, <<t, s>>}
Matching(x, y) ==
  \/ ApplyThreshold
  \/ x.pair # y.pair
  \/ x.pair = NoPair
  \/ y.side = Opposite(x.side) /\ Joins(x.pair, x.symbol, y.symbol)

\* Two entries that do not meet in one symbol, except for two of the same kind
\* under veto.
Apart(n, x, y) ==
  x.symbol = y.symbol => (x.strategy = "pairs" <=> y.strategy = "pairs") /\ Loaded[n].mode = "veto"

WellMade(n, s) ==
  /\ IsSeq(s)
  /\ \A i \in 1..Len(s) : Fair(n, s[i])
  /\ \A i, j \in 1..Len(s) : i # j => Matching(s[i], s[j])
AllApart(n, s) == \A i, j \in 1..Len(s) : i # j => Apart(n, s[i], s[j])

\* A copy of a fair entry is fair.
LEMMA CopiesAreFair ==
  ASSUME NEW n, NEW x, NEW y, Copy(x, y), Fair(n, y)
  PROVE  Fair(n, x)
  BY DEF Copy, Fair

\* Copies match where their originals do.
LEMMA CopiesMatch ==
  ASSUME NEW x, NEW y, NEW v, NEW w, Copy(x, v), Copy(y, w), Matching(v, w)
  PROVE  Matching(x, y)
  BY DEF Copy, Matching

\* What holds of the signals and of any two of them survives each stage.
LEMMA DerivedKeeps ==
  ASSUME NEW n, NEW s, NEW t, Derived(t, s)
  PROVE  /\ WellMade(n, s) => WellMade(n, t)
         /\ AllApart(n, s) => AllApart(n, t)
  <1>1. PICK m \in [1..Len(t) -> 1..Len(s)] :
               /\ \A k, l \in 1..Len(t) : m[k] = m[l] => k = l
               /\ \A k \in 1..Len(t) : Copy(t[k], s[m[k]])
    BY DEF Derived
  <1>2. ASSUME NEW k \in 1..Len(t), Fair(n, s[m[k]]) PROVE Fair(n, t[k])
    <2>1. Copy(t[k], s[m[k]])
      BY <1>1
    <2>2. QED
      BY <1>2, <2>1, CopiesAreFair
  <1>3. ASSUME NEW k \in 1..Len(t), NEW l \in 1..Len(t), k # l
        PROVE  /\ m[k] # m[l] /\ m[k] \in 1..Len(s) /\ m[l] \in 1..Len(s)
               /\ Matching(s[m[k]], s[m[l]]) => Matching(t[k], t[l])
               /\ Apart(n, s[m[k]], s[m[l]]) => Apart(n, t[k], t[l])
    <2>1. Copy(t[k], s[m[k]]) /\ Copy(t[l], s[m[l]])
      BY <1>1
    <2>2. m[k] # m[l] /\ m[k] \in 1..Len(s) /\ m[l] \in 1..Len(s)
      BY <1>1, <1>3
    <2>3. Matching(s[m[k]], s[m[l]]) => Matching(t[k], t[l])
      BY <2>1, CopiesMatch
    <2>4. Apart(n, s[m[k]], s[m[l]]) => Apart(n, t[k], t[l])
      BY <2>1 DEF Copy, Apart
    <2>5. QED
      BY <2>2, <2>3, <2>4
  <1>4. WellMade(n, s) => WellMade(n, t)
    <2> SUFFICES ASSUME WellMade(n, s) PROVE WellMade(n, t)
      OBVIOUS
    <2>1. IsSeq(t)
      BY DEF Derived
    <2>2. \A k \in 1..Len(t) : Fair(n, t[k])
      BY <1>2 DEF WellMade
    <2>3. \A k, l \in 1..Len(t) : k # l => Matching(t[k], t[l])
      BY <1>3 DEF WellMade
    <2>4. QED
      BY <2>1, <2>2, <2>3 DEF WellMade
  <1>5. AllApart(n, s) => AllApart(n, t)
    BY <1>3 DEF AllApart
  <1>6. QED
    BY <1>4, <1>5

\* A copy of a copy is one.
LEMMA CopyOfCopy ==
  ASSUME NEW x, NEW y, NEW z, Copy(x, y), Copy(y, z)
  PROVE  Copy(x, z)
  BY DEF Copy

\* What two stages in a row leave is derived from what the first one had.
LEMMA DerivedTwice ==
  ASSUME NEW r, NEW s, NEW t, Derived(t, s), Derived(s, r)
  PROVE  Derived(t, r)
  <1>1. PICK m \in [1..Len(t) -> 1..Len(s)] :
               /\ \A k, l \in 1..Len(t) : m[k] = m[l] => k = l
               /\ \A k \in 1..Len(t) : Copy(t[k], s[m[k]])
    BY DEF Derived
  <1>2. PICK o \in [1..Len(s) -> 1..Len(r)] :
               /\ \A k, l \in 1..Len(s) : o[k] = o[l] => k = l
               /\ \A k \in 1..Len(s) : Copy(s[k], r[o[k]])
    BY DEF Derived
  <1> DEFINE q == [k \in 1..Len(t) |-> o[m[k]]]
  <1>3. q \in [1..Len(t) -> 1..Len(r)]
    BY <1>1, <1>2
  <1>4. \A k, l \in 1..Len(t) : q[k] = q[l] => k = l
    BY <1>1, <1>2
  <1>5. ASSUME NEW k \in 1..Len(t) PROVE Copy(t[k], r[q[k]])
    <2>1. Copy(t[k], s[m[k]]) /\ Copy(s[m[k]], r[o[m[k]]])
      BY <1>1, <1>2
    <2>2. q[k] = o[m[k]]
      OBVIOUS
    <2>3. QED
      BY <2>1, <2>2, CopyOfCopy
  <1> HIDE DEF q
  <1>6. QED
    BY <1>3, <1>4, <1>5 DEF Derived

\* Positions that are kept, and positions that are copied one by one.
LEMMA KeepDerives ==
  ASSUME NEW s, IsSeq(s), NEW S \in SUBSET (1..Len(s))
  PROVE  Derived(Keep(s, S), s)
  <1> DEFINE t == Keep(s, S)
             m == Ascending(S)
  <1>1. /\ IsOrder(Ascending(S), S) /\ IsSeq(Keep(s, S)) /\ Len(Keep(s, S)) = Cardinality(S)
        /\ \A k \in 1..Cardinality(S) : Keep(s, S)[k] = s[Ascending(S)[k]]
    BY Kept
  <1> HIDE DEF t, m
  <1>2. m \in [1..Len(t) -> 1..Len(s)] /\ \A k, l \in 1..Len(t) : m[k] = m[l] => k = l
    BY <1>1 DEF IsOrder, t, m
  <1>3. \A k \in 1..Len(t) : Copy(t[k], s[m[k]])
    BY <1>1 DEF Copy, t, m
  <1>4. IsSeq(t)
    BY <1>1 DEF t
  <1>5. Derived(t, s)
    BY <1>2, <1>3, <1>4 DEF Derived
  <1>6. QED
    BY <1>5 DEF t

\* What is kept is some of the positions, and all of those asked for.
LEMMA KeptOnes ==
  ASSUME NEW s, IsSeq(s), NEW S \in SUBSET (1..Len(s))
  PROVE  /\ \A k \in 1..Len(Keep(s, S)) : \E i \in S : Keep(s, S)[k] = s[i]
         /\ \A i \in S : \E k \in 1..Len(Keep(s, S)) : Keep(s, S)[k] = s[i]
  <1> DEFINE t == Keep(s, S)
             m == Ascending(S)
  <1>1. /\ IsOrder(Ascending(S), S) /\ IsSeq(Keep(s, S)) /\ Len(Keep(s, S)) = Cardinality(S)
        /\ \A k \in 1..Cardinality(S) : Keep(s, S)[k] = s[Ascending(S)[k]]
    BY Kept
  <1> HIDE DEF t, m
  <1>2. \A k \in 1..Len(t) : m[k] \in S /\ t[k] = s[m[k]]
    BY <1>1 DEF IsOrder, t, m
  <1>3. \A i \in S : \E k \in 1..Len(t) : t[k] = s[i]
    BY <1>1, <1>2 DEF IsOrder, t, m
  <1>4. QED
    BY <1>2, <1>3 DEF t

\* One copy each, in the same order.
LEMMA CopiesDerive ==
  ASSUME NEW s, IsSeq(s), NEW t, IsSeq(t), Len(t) = Len(s),
         \A k \in 1..Len(s) : Copy(t[k], s[k])
  PROVE  Derived(t, s)
  <1> DEFINE m == [k \in 1..Len(s) |-> k]
  <1>1. m \in [1..Len(t) -> 1..Len(s)] /\ \A k, l \in 1..Len(t) : m[k] = m[l] => k = l
    OBVIOUS
  <1>2. \A k \in 1..Len(t) : Copy(t[k], s[m[k]])
    OBVIOUS
  <1> HIDE DEF m
  <1>3. QED
    BY <1>1, <1>2 DEF Derived

-----------------------------------------------------------------------------
(* The stages                                                              *)

\* What is left is free of singles in a symbol of a pair.
LEMMA SingleVsPairDerives ==
  ASSUME NEW sigs, IsSeq(sigs)
  PROVE  /\ Derived(SingleVsPair(sigs), sigs)
         /\ \A k, l \in 1..Len(SingleVsPair(sigs)) :
               /\ IsPairLeg(SingleVsPair(sigs)[k]) /\ ~IsPairLeg(SingleVsPair(sigs)[l])
               => SingleVsPair(sigs)[k].symbol # SingleVsPair(sigs)[l].symbol
         /\ \A k \in 1..Len(SingleVsPair(sigs)) : \E i \in 1..Len(sigs) : SingleVsPair(sigs)[k] = sigs[i]
  <1> DEFINE S == {i \in 1..Len(sigs) : IF IsPairLeg(sigs[i]) THEN Winner(sigs, sigs[i].pair)
                                        ELSE sigs[i].symbol \notin Taken(sigs)}
             t == SingleVsPair(sigs)
  <1>1. t = Keep(sigs, S)
    BY DEF SingleVsPair
  <1>2. S \in SUBSET (1..Len(sigs))
    OBVIOUS
  <1>3. \A i \in S : IF IsPairLeg(sigs[i]) THEN i \in 1..Len(sigs) /\ Winner(sigs, sigs[i].pair)
                     ELSE sigs[i].symbol \notin Taken(sigs)
    OBVIOUS
  <1> HIDE DEF S, t
  <1>4. Derived(t, sigs)
    BY <1>1, <1>2, KeepDerives
  <1>5. \A k \in 1..Len(t) : \E i \in S : t[k] = sigs[i]
    BY <1>1, <1>2, KeptOnes
  <1>6. ASSUME NEW k \in 1..Len(t), NEW l \in 1..Len(t), IsPairLeg(t[k]), ~IsPairLeg(t[l])
        PROVE  t[k].symbol # t[l].symbol
    <2>1. PICK i \in S : t[k] = sigs[i]
      BY <1>5
    <2>2. PICK j \in S : t[l] = sigs[j]
      BY <1>5
    <2>3. i \in 1..Len(sigs) /\ IsPairLeg(sigs[i]) /\ Winner(sigs, sigs[i].pair)
      BY <1>3, <1>6, <2>1
    <2>4. sigs[j].symbol \notin Taken(sigs)
      BY <1>3, <1>6, <2>2
    <2>5. sigs[i].symbol \in Taken(sigs)
      BY <2>3 DEF Taken
    <2>6. QED
      BY <2>1, <2>2, <2>4, <2>5
  <1>7. \A k \in 1..Len(t) : \E i \in 1..Len(sigs) : t[k] = sigs[i]
    BY <1>2, <1>5
  <1>8. QED
    BY <1>4, <1>6, <1>7 DEF t

\* There is one ahead of all others.
LEMMA HasFirst ==
  ASSUME NEW S, S \subseteq Nat, IsFiniteSet(S), S # {}, NEW rank \in [S -> Nat]
  PROVE  \E i \in S : \A j \in S : rank[i] < rank[j] \/ (rank[i] = rank[j] /\ i <= j)
  <1> DEFINE Ahead(i) == {j \in S : rank[j] < rank[i] \/ (rank[j] = rank[i] /\ j < i)}
             place == [i \in S |-> Cardinality(Ahead(i))]
  <1>1. /\ place \in [S -> Nat]
        /\ \A i \in S : place[i] < Cardinality(S)
        /\ \A i, j \in S : place[i] = place[j] => i = j
    BY Placed
  <1>2. Cardinality(S) \in Nat \ {0}
    BY FS_CardinalityType, FS_EmptySet
  <1>3. PICK i \in S : place[i] = 0
    <2> HIDE DEF place
    <2>1. \A k \in 1..Cardinality(S) : \E i \in S : place[i] = k - 1
      BY <1>1, Numbered
    <2>2. 1 \in 1..Cardinality(S) /\ 1 - 1 = 0
      BY <1>2
    <2>3. QED
      BY <2>1, <2>2
  <1>4. Ahead(i) = {}
    <2>1. Cardinality(Ahead(i)) = 0 /\ Ahead(i) \in SUBSET S
      BY <1>3
    <2> HIDE DEF Ahead
    <2>2. QED
      BY <2>1, FS_Subset, FS_EmptySet
  <1>5. ASSUME NEW j \in S
        PROVE  rank[i] < rank[j] \/ (rank[i] = rank[j] /\ i <= j)
    <2>1. rank[i] \in Nat /\ rank[j] \in Nat /\ i \in Nat /\ j \in Nat
      OBVIOUS
    <2>2. QED
      BY <1>4, <2>1
  <1>6. QED
    BY <1>5

\* The strongest signal of some is one of them.
LEMMA StrongestIsOne ==
  ASSUME NEW S, S \subseteq Nat, IsFiniteSet(S), S # {}, NEW sigs
  PROVE  Strongest(S, sigs) \in S
  <1> DEFINE Stronger(i) == Cardinality({j \in S : sigs[j].strength > sigs[i].strength})
             rank  == [i \in S |-> Stronger(i)]
  <1>1. \A i \in S : Stronger(i) \in Nat
    <2>1. \A i \in S : {j \in S : sigs[j].strength > sigs[i].strength} \in SUBSET S
      OBVIOUS
    <2>2. \A T \in SUBSET S : Cardinality(T) \in Nat
      BY FS_Subset, FS_CardinalityType
    <2>3. QED
      BY <2>1, <2>2
  <1> HIDE DEF Stronger
  <1>2. rank \in [S -> Nat]
    BY <1>1
  <1>3. PICK i \in S : \A j \in S : rank[i] < rank[j] \/ (rank[i] = rank[j] /\ i <= j)
    <2> HIDE DEF rank
    <2>1. QED
      BY <1>2, HasFirst
  <1>4. \A j \in S : Stronger(i) < Stronger(j) \/ (Stronger(i) = Stronger(j) /\ i <= j)
    BY <1>3
  <1>5. QED
    BY <1>4 DEF Strongest, Stronger

\* Some numbers have a least one.
LEMMA HasMin ==
  ASSUME NEW S, S \subseteq Nat, IsFiniteSet(S), S # {}
  PROVE  Min(S) \in S
  <1> DEFINE rank == [i \in S |-> 0]
  <1>1. rank \in [S -> Nat]
    OBVIOUS
  <1>2. PICK i \in S : \A j \in S : rank[i] < rank[j] \/ (rank[i] = rank[j] /\ i <= j)
    <2> HIDE DEF rank
    <2>1. QED
      BY <1>1, HasFirst
  <1>3. \A j \in S : i <= j
    BY <1>2
  <1>4. QED
    BY <1>3 DEF Min

\* No number is below the least one.
LEMMA MinIsLeast ==
  ASSUME NEW S, S \subseteq Nat, IsFiniteSet(S), S # {}
  PROVE  \A i \in S : Min(S) <= i
  <1> DEFINE rank == [i \in S |-> 0]
  <1>1. rank \in [S -> Nat]
    OBVIOUS
  <1>2. PICK i \in S : \A j \in S : rank[i] < rank[j] \/ (rank[i] = rank[j] /\ i <= j)
    <2> HIDE DEF rank
    <2>1. QED
      BY <1>1, HasFirst
  <1>3. \A j \in S : i <= j
    BY <1>2
  <1>4. QED
    BY <1>3 DEF Min

\* The positions of a sequence are finitely many.
LEMMA Positions ==
  ASSUME NEW s, IsSeq(s), NEW S \in SUBSET (1..Len(s))
  PROVE  IsFiniteSet(S) /\ S \subseteq Nat /\ Cardinality(S) \in Nat
  <1>1. Len(s) \in Nat
    BY SeqFacts
  <1>2. IsFiniteSet(1..Len(s))
    BY <1>1, FS_Interval, 1 \in Int, Len(s) \in Int
  <1>3. IsFiniteSet(S)
    BY <1>2, FS_Subset
  <1>4. QED
    BY <1>3, FS_CardinalityType

\* Under veto nothing is resolved; otherwise one signal of a symbol is left.
LEMMA ResolveDerives ==
  ASSUME NEW sigs, IsSeq(sigs)
  PROVE  /\ Derived(ResolveConflicts(sigs), sigs)
         /\ config.mode # "veto" =>
              \A k, l \in 1..Len(ResolveConflicts(sigs)) :
                 ResolveConflicts(sigs)[k].symbol = ResolveConflicts(sigs)[l].symbol => k = l
         /\ config.mode = "veto" => ResolveConflicts(sigs) = sigs
         /\ \A k \in 1..Len(ResolveConflicts(sigs)) : \E i \in 1..Len(sigs) : ResolveConflicts(sigs)[k] = sigs[i]
  <1> DEFINE all  == 1..Len(sigs)
             syms == {s \in Symbols : Voters(s, sigs) # {}}
             One(s) == Strongest(Voters(s, sigs), sigs)
             kept == {One(s) : s \in syms}
             rank == [i \in kept |-> Min(Of(sigs[i].symbol, sigs))]
             order == Ordered(kept, rank)
             t == [k \in 1..Cardinality(kept) |-> sigs[order[k]]]
  <1>1. ResolveConflicts(sigs) = IF config.mode = "veto" THEN sigs ELSE t
    BY DEF ResolveConflicts
  <1>2. ASSUME NEW s PROVE Voters(s, sigs) \in SUBSET all /\ \A i \in Voters(s, sigs) : sigs[i].symbol = s
    BY DEF Voters, Of
  <1>3. ASSUME NEW s \in syms PROVE One(s) \in all /\ sigs[One(s)].symbol = s
    <2> DEFINE V == Voters(s, sigs)
    <2>1. V # {} /\ V \in SUBSET all
      BY <1>2, <1>3
    <2> HIDE DEF V
    <2>2. Strongest(V, sigs) \in V
      BY <2>1, Positions, StrongestIsOne
    <2>3. QED
      BY <1>2, <2>1, <2>2 DEF V
  <1> HIDE DEF One, syms
  <1>4. /\ kept \in SUBSET all
        /\ \A i, j \in kept : sigs[i].symbol = sigs[j].symbol => i = j
    BY <1>3
  <1>5. IsFiniteSet(kept) /\ kept \subseteq Nat /\ Cardinality(kept) \in Nat
    <2> HIDE DEF kept
    <2>1. QED
      BY <1>4, Positions
  <1>6. \A i \in kept : rank[i] \in Nat
    <2> SUFFICES ASSUME NEW i \in kept PROVE Min(Of(sigs[i].symbol, sigs)) \in Nat
      OBVIOUS
    <2> DEFINE S == Of(sigs[i].symbol, sigs)
    <2>1. S \in SUBSET all /\ i \in S
      BY <1>4 DEF Of
    <2> HIDE DEF S
    <2>2. IsFiniteSet(S) /\ S \subseteq Nat /\ S # {}
      BY <2>1, Positions
    <2>3. Min(S) \in S
      BY <2>2, HasMin
    <2>4. Min(S) \in Nat
      BY <2>2, <2>3
    <2>5. QED
      BY <2>4 DEF S
  <1> HIDE DEF kept, rank
  <1>7. IsOrder(order, kept)
    BY <1>5, <1>6, RankedOrder
  <1> DEFINE n == Cardinality(kept)
  <1> HIDE DEF order
  <1>8. order \in [1..n -> all] /\ (\A k, l \in 1..n : order[k] = order[l] => k = l) /\ \A k \in 1..n : order[k] \in kept
    BY <1>4, <1>7 DEF IsOrder
  <1>9. IsSeq(t) /\ Len(t) = n /\ \A k \in 1..n : t[k] = sigs[order[k]]
    <2> DEFINE A == {sigs[i] : i \in all}
    <2>1. t \in [1..n -> A] /\ \A k \in 1..n : t[k] = sigs[order[k]]
      BY <1>8
    <2> HIDE DEF A, t
    <2>2. QED
      BY <1>5, <2>1, FunSeq
  <1> HIDE DEF t
  <1>10. Derived(t, sigs)
    <2>1. \A k \in 1..Len(t) : Copy(t[k], sigs[order[k]])
      BY <1>9 DEF Copy
    <2>2. QED
      BY <1>8, <1>9, <2>1 DEF Derived
  <1>11. \A k, l \in 1..Len(t) : t[k].symbol = t[l].symbol => k = l
    BY <1>4, <1>8, <1>9
  <1>12. Derived(sigs, sigs)
    BY CopiesDerive DEF Copy
  <1>13. \A k \in 1..Len(t) : \E i \in 1..Len(sigs) : t[k] = sigs[i]
    BY <1>8, <1>9
  <1>14. CASE config.mode = "veto"
    BY <1>1, <1>12, <1>14
  <1>15. CASE config.mode # "veto"
    BY <1>1, <1>10, <1>11, <1>15, <1>13
  <1>16. QED
    BY <1>14, <1>15

\* A signal with other numbers is a copy.
LEMMA ExceptCopies ==
  ASSUME NEW x, HasFields(x), NEW a, NEW b, NEW c
  PROVE  /\ Copy([x EXCEPT !.strength = a, !.conf = b, !.weight = c], x)
         /\ Copy([x EXCEPT !.weight = c], x)
  BY DEF HasFields, Copy

\* What is one copy for each signal.
LEMMA MapDerives ==
  ASSUME NEW s, IsSeq(s), NEW t, NEW A, t \in [1..Len(s) -> A], \A k \in 1..Len(s) : Copy(t[k], s[k])
  PROVE  Derived(t, s)
  <1>1. Len(s) \in Nat
    BY SeqFacts
  <1>2. IsSeq(t) /\ Len(t) = Len(s)
    BY <1>1, FunSeq
  <1>3. QED
    BY <1>2, CopiesDerive

AllFields(s) == \A i \in 1..Len(s) : HasFields(s[i])

\* What a stage leaves has its fields.
LEMMA DerivedFields ==
  ASSUME NEW s, NEW t, Derived(t, s), AllFields(s)
  PROVE  AllFields(t)
  <1>1. PICK m \in [1..Len(t) -> 1..Len(s)] : \A k \in 1..Len(t) : Copy(t[k], s[m[k]])
    BY DEF Derived
  <1>2. ASSUME NEW k \in 1..Len(t) PROVE HasFields(t[k])
    <2>1. m[k] \in 1..Len(s) /\ Copy(t[k], s[m[k]])
      BY <1>1
    <2>2. HasFields(s[m[k]])
      BY <2>1 DEF AllFields
    <2>3. QED
      BY <2>1, <2>2 DEF Copy
  <1>3. QED
    BY <1>2 DEF AllFields

\* PortfolioOptimizer.allocate copies the signals it keeps.
LEMMA OptimizedDerives ==
  ASSUME NEW sigs, IsSeq(sigs), AllFields(sigs), NEW vol
  PROVE  Derived(Optimized(sigs, vol), sigs)
  <1> DEFINE syms        == {sigs[i].symbol : i \in 1..Len(sigs)}
             weight      == Levered(Capped(InverseVolatility(vol, syms)), vol)
             Scaled(n, sig) == (n * weight[sig.symbol] * Cardinality(syms)) \div 100
             Allotted(sig)  == [sig EXCEPT !.strength = Clamp(0, Scaled(@, sig), FullStrength),
                                           !.conf     = Scaled(ConfidenceOf(sig), sig),
                                           !.weight   = weight[sig.symbol]]
             S == {i \in 1..Len(sigs) : weight[sigs[i].symbol] > 0}
             kept == Keep(sigs, S)
             t == [i \in 1..Len(kept) |-> Allotted(kept[i])]
  <1>1. Optimized(sigs, vol) = t
    BY DEF Optimized
  <1>2. S \in SUBSET (1..Len(sigs))
    OBVIOUS
  <1> HIDE DEF S
  <1>3. Derived(kept, sigs)
    BY <1>2, KeepDerives
  <1> HIDE DEF kept
  <1>4. AllFields(kept) /\ IsSeq(kept)
    BY <1>3, DerivedFields DEF Derived
  <1>5. \A x : HasFields(x) => Copy(Allotted(x), x)
    <2> HIDE DEF weight, Scaled
    <2>1. QED
      BY ExceptCopies
  <1> HIDE DEF Allotted
  <1>6. t \in [1..Len(kept) -> {Allotted(kept[i]) : i \in 1..Len(kept)}]
    OBVIOUS
  <1>7. \A k \in 1..Len(kept) : Copy(t[k], kept[k])
    BY <1>4, <1>5 DEF AllFields
  <1> HIDE DEF t
  <1>8. Derived(t, kept)
    BY <1>4, <1>6, <1>7, MapDerives
  <1>9. QED
    BY <1>1, <1>3, <1>8, DerivedTwice

\* The larger of two numbers.
LEMMA LargerOf ==
  ASSUME NEW x \in Int, NEW y \in Int
  PROVE  Max({x, y}) = IF x >= y THEN x ELSE y
  <1> DEFINE S == {x, y}
             v == IF x >= y THEN x ELSE y
             c == Max(S)
  <1>1. v \in S /\ \A w \in S : v >= w
    OBVIOUS
  <1>2. c \in S /\ \A w \in S : c >= w
    BY <1>1 DEF Max
  <1> HIDE DEF c
  <1>3. c = v
    BY <1>1, <1>2
  <1>4. QED
    BY <1>3 DEF c

\* The smaller of two numbers.
LEMMA SmallerOf ==
  ASSUME NEW x \in Int, NEW y \in Int
  PROVE  Min({x, y}) = IF x <= y THEN x ELSE y
  <1> DEFINE S == {x, y}
             v == IF x <= y THEN x ELSE y
             c == Min(S)
  <1>1. v \in S /\ \A w \in S : v <= w
    OBVIOUS
  <1>2. c \in S /\ \A w \in S : c <= w
    BY <1>1 DEF Min
  <1> HIDE DEF c
  <1>3. c = v
    BY <1>1, <1>2
  <1>4. QED
    BY <1>3 DEF c

\* The limit of concurrent symbols cuts the order of the active signals.
LEMMA CutIsOrder ==
  ASSUME NEW sigs, IsSeq(sigs), NEW active \in SUBSET (1..Len(sigs)),
         NEW rank, \A i \in active : rank[i] \in Nat, config.rotation.maxSymbols \in Int
  PROVE  /\ IsSeq(Cut(active, rank)) /\ Len(Cut(active, rank)) \in Nat
         /\ \A k \in 1..Len(Cut(active, rank)) : Cut(active, rank)[k] \in active
         /\ \A k, l \in 1..Len(Cut(active, rank)) :
               Cut(active, rank)[k] = Cut(active, rank)[l] => k = l
  <1> DEFINE n     == Cardinality(active)
             most  == Max({1, config.rotation.maxSymbols})
             limit == Min({most, n})
             f     == Ordered(active, rank)
             t     == SubSeq(f, 1, limit)
  <1>1. IsFiniteSet(active) /\ active \subseteq Nat /\ n \in Nat
    BY Positions
  <1>2. IsOrder(f, active)
    BY <1>1, RankedOrder
  <1>3. most \in Nat
    <2> DEFINE m == config.rotation.maxSymbols
    <2>1. 1 \in Int /\ m \in Int
      OBVIOUS
    <2> HIDE DEF m
    <2>2. Max({1, m}) = IF 1 >= m THEN 1 ELSE m
      BY <2>1, LargerOf
    <2>3. Max({1, m}) \in Nat
      BY <2>1, <2>2
    <2>4. QED
      BY <2>3 DEF m
  <1>4. limit \in 0..n
    <2> HIDE DEF n, most
    <2>1. QED
      BY <1>1, <1>3, SmallerOf
  <1>5. Cut(active, rank) = Sequence(f, limit)
    BY DEF Cut, Sequence
  <1> HIDE DEF limit, f, n
  <1>6. limit \in Nat /\ \A k \in 1..limit : k \in 1..n
    BY <1>1, <1>4
  <1>7. /\ IsSeq(Sequence(f, limit)) /\ Len(Sequence(f, limit)) = limit
        /\ \A k \in 1..limit : Sequence(f, limit)[k] = f[k]
    BY <1>6, SequenceIs
  <1>8. /\ \A k \in 1..limit : f[k] \in active
        /\ \A k, l \in 1..limit : f[k] = f[l] => k = l
    BY <1>2, <1>6 DEF IsOrder, n
  <1>9. QED
    BY <1>5, <1>6, <1>7, <1>8

\* apply_asset_rotation copies the signals of its cut.
LEMMA RotatedDerives ==
  ASSUME NEW sigs, IsSeq(sigs), AllFields(sigs), NEW home, NEW weight, NEW cut, IsSeq(cut),
         \A k \in 1..Len(cut) : cut[k] \in 1..Len(sigs),
         \A k, l \in 1..Len(cut) : cut[k] = cut[l] => k = l
  PROVE  Derived(Rotated(sigs, home, weight, cut), sigs)
  <1> DEFINE all == 1..Len(cut)
             Mates(k) == {l \in all : home[cut[l]] = home[cut[k]]}
             First(k) == Min(Mates(k))
             key == [k \in all |-> First(k)]
             out == Ordered(all, key)
             Strong(g) == SumOf({cut[k] : k \in {l \in all : home[cut[l]] = g}}, sigs)
             Share(i)  == IF Strong(home[i]) = 0 THEN 0
                          ELSE (sigs[i].weight * weight[home[i]] * sigs[i].strength)
                                   \div (100 * Strong(home[i]))
             t == [k \in all |-> [sigs[cut[out[k]]] EXCEPT !.weight = Share(cut[out[k]])]]
  <1>1. Rotated(sigs, home, weight, cut) = t
    BY DEF Rotated
  <1>2. Len(cut) \in Nat
    BY SeqFacts
  <1>3. IsFiniteSet(all) /\ Cardinality(all) = Len(cut) /\ all \subseteq Nat
    <2>1. IsFiniteSet(all) /\ Cardinality(all) = Len(cut)
      BY <1>2, FS_Interval, 1 \in Int, Len(cut) \in Int
    <2>2. QED
      BY <2>1
  <1>4. \A k \in all : key[k] \in Nat
    <2> SUFFICES ASSUME NEW k \in all PROVE Min(Mates(k)) \in Nat
      OBVIOUS
    <2>1. Mates(k) \in SUBSET all /\ Mates(k) # {}
      OBVIOUS
    <2> HIDE DEF Mates
    <2>2. IsFiniteSet(Mates(k)) /\ Mates(k) \subseteq Nat
      BY <2>1, Positions
    <2>3. Min(Mates(k)) \in Mates(k)
      BY <2>1, <2>2, HasMin
    <2>4. QED
      BY <2>2, <2>3
  <1> HIDE DEF key, Share
  <1>5. IsOrder(out, all)
    BY <1>3, <1>4, RankedOrder
  <1> HIDE DEF out
  <1>6. out \in [all -> all] /\ \A k, l \in all : out[k] = out[l] => k = l
    BY <1>3, <1>5 DEF IsOrder
  <1> DEFINE m == [k \in all |-> cut[out[k]]]
  <1>7. m \in [all -> 1..Len(sigs)] /\ \A k, l \in all : m[k] = m[l] => k = l
    BY <1>6
  <1>8. \A k \in all : m[k] = cut[out[k]]
    OBVIOUS
  <1>9. t = [k \in all |-> [sigs[m[k]] EXCEPT !.weight = Share(m[k])]]
    BY <1>8
  <1> HIDE DEF m, t
  <1>10. ASSUME NEW k \in all PROVE Copy(t[k], sigs[m[k]])
    <2>1. HasFields(sigs[m[k]])
      BY <1>7 DEF AllFields
    <2>2. t[k] = [sigs[m[k]] EXCEPT !.weight = Share(m[k])]
      BY <1>9
    <2>3. Copy([sigs[m[k]] EXCEPT !.weight = Share(m[k])], sigs[m[k]])
      BY <2>1, ExceptCopies
    <2>4. QED
      BY <2>2, <2>3
  <1>11. IsSeq(t) /\ Len(t) = Len(cut)
    <2> DEFINE A == {[sigs[m[k]] EXCEPT !.weight = Share(m[k])] : k \in all}
    <2>1. t \in [all -> A]
      BY <1>9
    <2> HIDE DEF A
    <2>2. QED
      BY <1>2, <2>1, FunSeq
  <1>12. Derived(t, sigs)
    BY <1>7, <1>10, <1>11 DEF Derived
  <1>13. QED
    BY <1>1, <1>12

\* The active signals are ranked, and what the cut leaves are positions of them.
LEMMA CutsOfRanks ==
  ASSUME NEW sized, IsSeq(sized), config.rotation.maxSymbols \in Int,
         NEW weight, NEW home, NEW active \in SUBSET (1..Len(sized)), NEW rank, NEW cut,
         rank = Ranks(sized, home, weight, active), cut = Cut(active, rank)
  PROVE  /\ IsSeq(cut) /\ \A k \in 1..Len(cut) : cut[k] \in 1..Len(sized)
         /\ \A k, l \in 1..Len(cut) : cut[k] = cut[l] => k = l
  <1> DEFINE Score(i)     == weight[home[i]] * sized[i].strength
             Born(i)      == Min({j \in 1..Len(sized) : home[j] = home[i]})
             Better(i, j) == \/ Score(i) > Score(j)
                             \/ Score(i) = Score(j) /\ Born(i) < Born(j)
             ahead        == [i \in 1..Len(sized) |-> Cardinality({j \in active : Better(j, i)})]
  <1>1. rank = Sequence(ahead, Len(sized))
    BY DEF Ranks
  <1>2. ASSUME NEW i \in 1..Len(sized) PROVE ahead[i] \in Nat
    <2> DEFINE T == {j \in active : Better(j, i)}
    <2>1. T \in SUBSET (1..Len(sized))
      OBVIOUS
    <2> HIDE DEF T
    <2>2. Cardinality(T) \in Nat
      BY <2>1, Positions
    <2>3. QED
      BY <2>2 DEF T
  <1> HIDE DEF ahead
  <1>3. Len(sized) \in Nat
    BY SeqFacts
  <1>4. \A i \in 1..Len(sized) : rank[i] \in Nat
    BY <1>1, <1>2, <1>3, SequenceIs
  <1>5. \A i \in active : rank[i] \in Nat
    BY <1>4
  <1>6. /\ IsSeq(cut) /\ \A k \in 1..Len(cut) : cut[k] \in active
        /\ \A k, l \in 1..Len(cut) : cut[k] = cut[l] => k = l
    BY <1>5, CutIsOrder
  <1>7. QED
    BY <1>6

\* PortfolioConstructionAgent.allocate copies the signals it keeps.
LEMMA AllocatesDerives ==
  ASSUME IsSeq(signals), AllFields(signals), config.rotation.maxSymbols \in Int,
         NEW vol, NEW previous, Allocates(vol, previous)
  PROVE  Derived(signals', signals)
  <1> DEFINE sized == Optimized(signals, vol)
  <1>1. Derived(sized, signals)
    BY OptimizedDerives
  <1> HIDE DEF sized
  <1>2. IsSeq(sized) /\ AllFields(sized)
    BY <1>1, DerivedFields DEF Derived
  <1>3. \/ signals' = sized
        \/ \E weight \in {GroupWeights(GroupScore(sized), previous)}, home \in {HomeNames(sized)} :
           \E active \in {{i \in 1..Len(sized) : home[i] \in ActiveGroups(weight)}} :
           \E rank \in {Ranks(sized, home, weight, active)} : \E cut \in {Cut(active, rank)} :
               signals' = Rotated(sized, home, weight, cut)
    BY DEF Allocates, sized
  <1>4. ASSUME NEW weight, NEW home, NEW active \in SUBSET (1..Len(sized)), NEW rank, NEW cut,
               rank = Ranks(sized, home, weight, active), cut = Cut(active, rank),
               signals' = Rotated(sized, home, weight, cut)
        PROVE  Derived(signals', sized)
    <2>1. /\ IsSeq(cut) /\ \A k \in 1..Len(cut) : cut[k] \in 1..Len(sized)
          /\ \A k, l \in 1..Len(cut) : cut[k] = cut[l] => k = l
      BY <1>2, <1>4, CutsOfRanks
    <2>2. Derived(Rotated(sized, home, weight, cut), sized)
      BY <1>2, <2>1, RotatedDerives
    <2>3. QED
      BY <1>4, <2>2
  <1>5. CASE signals' = sized
    BY <1>1, <1>5
  <1>6. CASE \E weight \in {GroupWeights(GroupScore(sized), previous)}, home \in {HomeNames(sized)} :
             \E active \in {{i \in 1..Len(sized) : home[i] \in ActiveGroups(weight)}} :
             \E rank \in {Ranks(sized, home, weight, active)} : \E cut \in {Cut(active, rank)} :
                 signals' = Rotated(sized, home, weight, cut)
    <2>1. PICK weight, home, active, rank, cut :
                 /\ active = {i \in 1..Len(sized) : home[i] \in ActiveGroups(weight)}
                 /\ rank = Ranks(sized, home, weight, active) /\ cut = Cut(active, rank)
                 /\ signals' = Rotated(sized, home, weight, cut)
      BY <1>6
    <2>2. active \in SUBSET (1..Len(sized))
      BY <2>1
    <2>3. Derived(signals', sized)
      BY <1>4, <2>1, <2>2
    <2>4. QED
      BY <1>1, <2>3, DerivedTwice
  <1>7. QED
    BY <1>3, <1>5, <1>6

\* apply_signal_adaptation copies the signals it keeps, without their pair.
LEMMA AdaptedDerives ==
  ASSUME NEW sigs, IsSeq(sigs), AllFields(sigs), NEW least, ApplyThreshold
  PROVE  Derived(Adapted(sigs, least), sigs)
  <1> DEFINE S == {i \in 1..Len(sigs) : sigs[i].strength >= least}
             above == Keep(sigs, S)
             t == [i \in 1..Len(above) |-> [above[i] EXCEPT !.pair = NoPair]]
  <1>1. Adapted(sigs, least) = t
    BY DEF Adapted
  <1>2. S \in SUBSET (1..Len(sigs))
    OBVIOUS
  <1> HIDE DEF S
  <1>3. Derived(above, sigs)
    BY <1>2, KeepDerives
  <1> HIDE DEF above
  <1>4. AllFields(above) /\ IsSeq(above)
    BY <1>3, DerivedFields DEF Derived
  <1>5. ASSUME NEW x, HasFields(x) PROVE Copy([x EXCEPT !.pair = NoPair], x)
    BY <1>5 DEF HasFields, Copy
  <1>6. t \in [1..Len(above) -> {[above[i] EXCEPT !.pair = NoPair] : i \in 1..Len(above)}]
    OBVIOUS
  <1>7. \A k \in 1..Len(above) : t[k] = [above[k] EXCEPT !.pair = NoPair]
    OBVIOUS
  <1> HIDE DEF t
  <1>8. ASSUME NEW k \in 1..Len(above) PROVE Copy(t[k], above[k])
    <2>1. HasFields(above[k])
      BY <1>4 DEF AllFields
    <2>2. Copy([above[k] EXCEPT !.pair = NoPair], above[k])
      BY <1>5, <2>1
    <2>3. QED
      BY <1>7, <2>2
  <1>9. Derived(t, above)
    BY <1>4, <1>6, <1>8, MapDerives
  <1>10. QED
    BY <1>1, <1>3, <1>9, DerivedTwice

\* Sizing makes one order of each signal.
LEMMA OrderCopies ==
  ASSUME NEW sig, NEW lots, NEW sized
  PROVE  Copy(Order(sig, lots, sized), sig)
  BY DEF Order, Copy, HasFields

\* decide copies the signals into orders.
LEMMA DecidedDerives ==
  ASSUME NEW sigs, IsSeq(sigs), NEW acct, NEW vol, NEW closed, NEW unknown
  PROVE  Derived(Decided(sigs, acct, vol, closed, unknown), sigs)
  <1>1. Len(sigs) \in Nat
    BY SeqFacts
  <1>2. \A sig : Copy(FallbackOrder(sig), sig)
    BY OrderCopies DEF FallbackOrder
  <1>3. Derived(ApplyFallback(sigs), sigs)
    <2> DEFINE t == ApplyFallback(sigs)
               A == {FallbackOrder(sigs[i]) : i \in 1..Len(sigs)}
    <2>1. t \in [1..Len(sigs) -> A] /\ \A k \in 1..Len(sigs) : t[k] = FallbackOrder(sigs[k])
      BY DEF ApplyFallback
    <2> HIDE DEF t, A
    <2>2. \A k \in 1..Len(sigs) : Copy(t[k], sigs[k])
      BY <1>2, <2>1
    <2>3. Derived(t, sigs)
      BY <2>1, <2>2, MapDerives
    <2>4. QED
      BY <2>3 DEF t
  <1>4. Derived(ZeroSignals(sigs), sigs)
    <2> DEFINE t == ZeroSignals(sigs)
               A == {Order(sigs[i], 0, TRUE) : i \in 1..Len(sigs)}
    <2>1. t \in [1..Len(sigs) -> A] /\ \A k \in 1..Len(sigs) : t[k] = Order(sigs[k], 0, TRUE)
      BY DEF ZeroSignals
    <2> HIDE DEF t, A
    <2>2. \A k \in 1..Len(sigs) : Copy(t[k], sigs[k])
      BY <2>1, OrderCopies
    <2>3. Derived(t, sigs)
      BY <2>1, <2>2, MapDerives
    <2>4. QED
      BY <2>3 DEF t
  <1>5. Derived(Sized(sigs, acct, vol, closed, unknown), sigs)
    <2> DEFINE Passed(i)       == sigs[i].conf < MinConfidence \/ sigs[i].symbol = closed
               Position(i, before) == IF Passed(i) THEN 0
                                      ELSE PositionOf(sigs[i], RoomLeft(acct, before), WeightOf(sigs[i].symbol, sigs, vol))
               taken[i \in 0..Len(sigs)] == IF i = 0 THEN 0 ELSE taken[i - 1] + Position(i, taken[i - 1])
               Lots(i) == LotsFor(sigs[i].symbol, acct.equity, Position(i, taken[i - 1]),
                                  Home(sigs[i].symbol).lots)
               One(i) == IF Passed(i) THEN Order(sigs[i], 0, TRUE)
                         ELSE IF sigs[i].symbol = unknown THEN FallbackOrder(sigs[i])
                         ELSE Order(sigs[i], Lots(i), TRUE)
               f == [i \in 1..Len(sigs) |-> One(i)]
               t == Sequence(f, Len(sigs))
    <2>1. Sized(sigs, acct, vol, closed, unknown) = t
      BY DEF Sized
    <2>2. \A i : One(i) = Order(sigs[i], 0, TRUE) \/ One(i) = FallbackOrder(sigs[i])
                 \/ One(i) = Order(sigs[i], Lots(i), TRUE)
      <3> HIDE DEF Passed, Lots
      <3>1. QED
        OBVIOUS
    <2>3. \A i : Copy(One(i), sigs[i])
      <3> HIDE DEF One, Lots
      <3>1. QED
        BY <1>2, <2>2, OrderCopies
    <2> HIDE DEF One
    <2>4. \A i \in 1..Len(sigs) : f[i] = One(i)
      OBVIOUS
    <2> HIDE DEF f
    <2>5. IsSeq(t) /\ Len(t) = Len(sigs) /\ \A k \in 1..Len(sigs) : t[k] = f[k]
      BY <1>1, SequenceIs
    <2> HIDE DEF t
    <2>6. \A k \in 1..Len(sigs) : Copy(t[k], sigs[k])
      BY <2>3, <2>4, <2>5
    <2>7. QED
      BY <2>1, <2>5, <2>6, CopiesDerive
  <1>6. QED
    BY <1>3, <1>4, <1>5 DEF Decided

\* Every leg of every job is another one of the orders.
Spread(js, orders, m) ==
  /\ IsSeq(js) /\ IsSeq(orders)
  /\ \A j \in 1..Len(js) :
        /\ IsSeq(js[j]) /\ js[j] # <<>>
        /\ \A l \in 1..Len(js[j]) : m[j][l] \in 1..Len(orders) /\ js[j][l] = orders[m[j][l]]
  /\ \A j, k \in 1..Len(js) : \A l \in 1..Len(js[j]), q \in 1..Len(js[k]) :
        m[j][l] = m[k][q] => j = k /\ l = q

\* A job is one entry of its own, or entries for one pair.
OneJob(job) ==
  IF IsPairLeg(job[1]) THEN \A l \in 1..Len(job) : job[l].pair = job[1].pair ELSE Len(job) = 1

\* Every leg of a job is an order of its own.
LEMMA PartitionSpreads ==
  ASSUME NEW orders, IsSeq(orders)
  PROVE  /\ \E m : Spread(Partition(orders), orders, m)
         /\ \A j \in 1..Len(Partition(orders)) : OneJob(Partition(orders)[j])
  <1> DEFINE all == 1..Len(orders)
             A   == {i \in all : ~IsPairLeg(orders[i])}
             F   == {i \in all : /\ IsPairLeg(orders[i])
                                 /\ \A j \in 1..i - 1 : orders[j].pair # orders[i].pair}
             G(p) == {i \in all : orders[i].pair = p}
             alone  == Keep(orders, A)
             firsts == Keep(orders, F)
             a == [i \in 1..Len(alone) |-> <<alone[i]>>]
             b == [k \in 1..Len(firsts) |-> Keep(orders, G(firsts[k].pair))]
             js == a \o b
             na == Len(alone)
             nb == Len(firsts)
             m == [j \in 1..na + nb |-> IF j <= na THEN <<Ascending(A)[j]>>
                                        ELSE Ascending(G(firsts[j - na].pair))]
  <1>1. Partition(orders) = js
    BY DEF Partition
  <1>2. /\ A \in SUBSET all /\ F \in SUBSET all /\ \A p : G(p) \in SUBSET all
        /\ \A i \in A : ~IsPairLeg(orders[i])
        /\ \A i \in F : IsPairLeg(orders[i])
        /\ \A p : \A i \in G(p) : orders[i].pair = p
        /\ \A i \in F : i \in G(orders[i].pair)
    OBVIOUS
  <1>3. \A i, j \in F : orders[i].pair = orders[j].pair => i = j
    <2> SUFFICES ASSUME NEW i \in F, NEW j \in F, orders[i].pair = orders[j].pair, i < j PROVE FALSE
      <3>1. \A i \in F : i \in Nat
        OBVIOUS
      <3>2. QED
        BY <3>1
    <2>1. i \in 1..j - 1
      OBVIOUS
    <2>2. QED
      BY <2>1
  <1> HIDE DEF A, F, G
  <1>4. /\ IsOrder(Ascending(A), A) /\ IsSeq(alone) /\ na = Cardinality(A) /\ na \in Nat
        /\ \A k \in 1..na : alone[k] = orders[Ascending(A)[k]]
    BY <1>2, Kept
  <1>5. /\ IsOrder(Ascending(F), F) /\ IsSeq(firsts) /\ nb = Cardinality(F) /\ nb \in Nat
        /\ \A k \in 1..nb : firsts[k] = orders[Ascending(F)[k]]
    BY <1>2, Kept
  <1>6. ASSUME NEW p
        PROVE  /\ IsOrder(Ascending(G(p)), G(p)) /\ IsSeq(Keep(orders, G(p)))
               /\ Len(Keep(orders, G(p))) = Cardinality(G(p)) /\ Cardinality(G(p)) \in Nat
               /\ \A k \in 1..Cardinality(G(p)) : Keep(orders, G(p))[k] = orders[Ascending(G(p))[k]]
    BY <1>2, Kept
  <1> HIDE DEF alone, firsts
  <1>7. IsSeq(a) /\ Len(a) = na /\ \A j \in 1..na : a[j] = <<alone[j]>>
    <2>1. a \in [1..na -> {<<alone[i]>> : i \in 1..na}] /\ \A j \in 1..na : a[j] = <<alone[j]>>
      OBVIOUS
    <2> HIDE DEF a
    <2>2. QED
      BY <1>4, <2>1, FunSeq
  <1>8. IsSeq(b) /\ Len(b) = nb /\ \A k \in 1..nb : b[k] = Keep(orders, G(firsts[k].pair))
    <2>1. /\ b \in [1..nb -> {Keep(orders, G(firsts[k].pair)) : k \in 1..nb}]
          /\ \A k \in 1..nb : b[k] = Keep(orders, G(firsts[k].pair))
      OBVIOUS
    <2> HIDE DEF b
    <2>2. QED
      BY <1>5, <2>1, FunSeq
  <1> HIDE DEF a, b
  <1>9. /\ IsSeq(js) /\ Len(js) = na + nb
        /\ \A j \in 1..na + nb : js[j] = IF j <= na THEN a[j] ELSE b[j - na]
    <2>1. /\ IsSeq(a \o b) /\ Len(a \o b) = Len(a) + Len(b)
          /\ \A j \in 1..Len(a) + Len(b) : (a \o b)[j] = IF j <= Len(a) THEN a[j] ELSE b[j - Len(a)]
      BY <1>7, <1>8, AppendSeqs
    <2>2. Len(a) = na /\ Len(b) = nb
      BY <1>7, <1>8
    <2>3. QED
      BY <2>1, <2>2
  <1> HIDE DEF js
  \* a single
  <1>10. ASSUME NEW j \in 1..na
         PROVE  /\ j \in 1..na + nb /\ IsSeq(js[j]) /\ Len(js[j]) = 1 /\ js[j] # <<>>
                /\ m[j][1] \in A /\ m[j] = <<Ascending(A)[j]>> /\ js[j][1] = orders[m[j][1]]
    <2>1. j \in 1..na + nb /\ j <= na
      BY <1>4, <1>5
    <2>2. js[j] = <<alone[j]>>
      BY <1>7, <1>9, <2>1
    <2>3. m[j] = <<Ascending(A)[j]>>
      BY <2>1
    <2>4. Ascending(A)[j] \in A /\ alone[j] = orders[Ascending(A)[j]]
      BY <1>4 DEF IsOrder
    <2> HIDE DEF m
    <2>5. <<alone[j]>> \in Seq({alone[j]}) /\ Len(<<alone[j]>>) = 1 /\ <<alone[j]>>[1] = alone[j]
      OBVIOUS
    <2>6. IsSeq(js[j]) /\ Len(js[j]) = 1
      BY <2>2, <2>5, SeqOfSet
    <2>7. js[j] # <<>>
      <3>1. Len(<<>>) # 1
        OBVIOUS
      <3>2. QED
        BY <2>6, <3>1, Zenon
    <2>8. QED
      BY <2>1, <2>2, <2>3, <2>4, <2>5, <2>6, <2>7
  \* a pair
  <1> DEFINE pairOf(j) == firsts[j - na].pair
  <1>11. ASSUME NEW j \in na + 1..na + nb
         PROVE  /\ j \in 1..na + nb /\ IsSeq(js[j]) /\ js[j] # <<>> /\ pairOf(j) # NoPair
                /\ IsOrder(m[j], G(pairOf(j))) /\ Len(js[j]) = Cardinality(G(pairOf(j)))
                /\ \A l \in 1..Len(js[j]) : js[j][l] = orders[m[j][l]]
                /\ j - na \in 1..nb
    <2>1. j \in 1..na + nb /\ ~(j <= na) /\ j - na \in 1..nb
      BY <1>4, <1>5
    <2>2. js[j] = Keep(orders, G(pairOf(j)))
      BY <1>8, <1>9, <2>1
    <2>3. m[j] = Ascending(G(pairOf(j)))
      BY <2>1
    <2>4. Ascending(F)[j - na] \in F /\ firsts[j - na] = orders[Ascending(F)[j - na]]
      BY <1>5, <2>1 DEF IsOrder
    <2>5. pairOf(j) # NoPair /\ Ascending(F)[j - na] \in G(pairOf(j))
      BY <1>2, <2>4 DEF IsPairLeg
    <2> HIDE DEF m
    <2> DEFINE p == pairOf(j)
    <2>6. /\ IsOrder(Ascending(G(p)), G(p)) /\ IsSeq(Keep(orders, G(p)))
          /\ Len(Keep(orders, G(p))) = Cardinality(G(p)) /\ Cardinality(G(p)) \in Nat
          /\ \A k \in 1..Cardinality(G(p)) : Keep(orders, G(p))[k] = orders[Ascending(G(p))[k]]
      BY <1>6
    <2> HIDE DEF p, pairOf
    <2>7. Cardinality(G(p)) # 0
      <3>1. \E k \in 1..Cardinality(G(p)) : TRUE
        BY <2>5, <2>6 DEF p, IsOrder
      <3>2. QED
        BY <2>6, <3>1
    <2>8. js[j] # <<>> /\ IsSeq(js[j])
      BY <2>2, <2>6, <2>7, SeqFacts DEF p
    <2>9. QED
      BY <2>1, <2>2, <2>3, <2>5, <2>6, <2>8 DEF p
  <1> HIDE DEF m, pairOf
  <1>12. /\ \A j \in 1..na + nb : j \in 1..na \/ j \in na + 1..na + nb
         /\ \A j \in 1..na : j \notin na + 1..na + nb
    BY <1>4, <1>5
  <1>13. ASSUME NEW j \in 1..na + nb, NEW l \in 1..Len(js[j])
         PROVE  /\ m[j][l] \in all /\ js[j][l] = orders[m[j][l]]
                /\ j \in 1..na => l = 1 /\ m[j][l] \in A
                /\ j \in na + 1..na + nb => m[j][l] \in G(pairOf(j))
    <2>1. CASE j \in 1..na
      <3>0. Len(js[j]) = 1
        BY <1>10, <2>1
      <3>1. l = 1 /\ j \notin na + 1..na + nb
        <4>1. \A k \in 1..1 : k = 1
          OBVIOUS
        <4>2. l \in 1..1
          BY <1>13, <3>0
        <4>3. QED
          BY <1>12, <2>1, <4>1, <4>2
      <3>2. m[j][1] \in A /\ js[j][1] = orders[m[j][1]]
        BY <1>10, <2>1
      <3>3. m[j][l] \in all
        BY <1>2, <3>1, <3>2
      <3>4. QED
        BY <2>1, <3>1, <3>2, <3>3
    <2>2. CASE j \in na + 1..na + nb
      <3>0. j \notin 1..na
        BY <1>12, <2>2
      <3>1. m[j][l] \in G(pairOf(j))
        <4>1. IsOrder(m[j], G(pairOf(j))) /\ l \in 1..Cardinality(G(pairOf(j)))
          BY <1>11, <2>2
        <4>2. QED
          BY <4>1 DEF IsOrder
      <3>2. m[j][l] \in all
        BY <1>2, <3>1
      <3>3. QED
        BY <1>11, <2>2, <3>0, <3>1, <3>2
    <2>3. QED
      BY <1>12, <2>1, <2>2
  <1>14. ASSUME NEW j \in 1..na + nb, NEW k \in 1..na + nb,
                NEW l \in 1..Len(js[j]), NEW q \in 1..Len(js[k]), m[j][l] = m[k][q]
         PROVE  j = k /\ l = q
    <2>1. CASE j \in 1..na /\ k \in 1..na
      <3>1. l = 1 /\ q = 1 /\ m[j] = <<Ascending(A)[j]>> /\ m[k] = <<Ascending(A)[k]>>
        BY <1>10, <1>13, <2>1
      <3>2. Ascending(A)[j] = Ascending(A)[k]
        BY <1>14, <3>1
      <3>3. QED
        BY <1>4, <2>1, <3>1, <3>2 DEF IsOrder
    <2>2. CASE j \in na + 1..na + nb /\ k \in na + 1..na + nb
      <3>1. m[j][l] \in G(pairOf(j)) /\ m[k][q] \in G(pairOf(k))
        BY <1>13, <2>2
      <3>2. pairOf(j) = pairOf(k)
        BY <1>2, <1>14, <3>1
      <3>3. j - na \in 1..nb /\ k - na \in 1..nb
        BY <1>11, <2>2
      <3>4. Ascending(F)[j - na] = Ascending(F)[k - na]
        <4>1. /\ Ascending(F)[j - na] \in F /\ Ascending(F)[k - na] \in F
              /\ firsts[j - na] = orders[Ascending(F)[j - na]]
              /\ firsts[k - na] = orders[Ascending(F)[k - na]]
          BY <1>5, <3>3 DEF IsOrder
        <4>2. orders[Ascending(F)[j - na]].pair = orders[Ascending(F)[k - na]].pair
          BY <3>2, <4>1 DEF pairOf
        <4>3. QED
          BY <1>3, <4>1, <4>2
      <3>5. j - na = k - na
        BY <1>5, <3>3, <3>4 DEF IsOrder
      <3>6. j = k
        BY <1>4, <3>5
      <3>7. l = q
        BY <1>11, <1>14, <2>2, <3>6 DEF IsOrder
      <3>8. QED
        BY <3>6, <3>7
    <2>3. CASE j \in 1..na /\ k \in na + 1..na + nb
      <3>1. m[j][l] \in A /\ m[k][q] \in G(pairOf(k)) /\ pairOf(k) # NoPair
        BY <1>11, <1>13, <2>3
      <3>2. QED
        BY <1>2, <1>14, <3>1 DEF IsPairLeg
    <2>4. CASE k \in 1..na /\ j \in na + 1..na + nb
      <3>1. m[k][q] \in A /\ m[j][l] \in G(pairOf(j)) /\ pairOf(j) # NoPair
        BY <1>11, <1>13, <2>4
      <3>2. QED
        BY <1>2, <1>14, <3>1 DEF IsPairLeg
    <2>5. QED
      BY <1>12, <2>1, <2>2, <2>3, <2>4
  <1>15. \A j \in 1..na + nb : IsSeq(js[j]) /\ js[j] # <<>>
    BY <1>10, <1>11, <1>12
  <1>16. Spread(js, orders, m)
    BY <1>9, <1>13, <1>14, <1>15 DEF Spread
  <1>17. ASSUME NEW j \in 1..na + nb PROVE OneJob(js[j])
    <2>1. CASE j \in 1..na
      <3>1. Len(js[j]) = 1 /\ ~IsPairLeg(js[j][1])
        BY <1>2, <1>10, <2>1
      <3>2. QED
        BY <3>1 DEF OneJob
    <2>2. CASE j \in na + 1..na + nb
      <3>1. ASSUME NEW l \in 1..Len(js[j]) PROVE js[j][l].pair = pairOf(j)
        <4>1. js[j][l] = orders[m[j][l]] /\ m[j][l] \in G(pairOf(j))
          BY <1>13, <2>2
        <4>2. QED
          BY <1>2, <4>1
      <3>2. 1 \in 1..Len(js[j])
        BY <1>15, SeqFacts
      <3>3. QED
        BY <3>1, <3>2, <1>11, <2>2 DEF OneJob, IsPairLeg
    <2>3. QED
      BY <1>12, <2>1, <2>2
  <1>18. QED
    BY <1>1, <1>9, <1>16, <1>17

-----------------------------------------------------------------------------
(* The jobs                                                                *)

JobSeqs(js) == IsSeq(js) /\ \A j \in 1..Len(js) : IsSeq(js[j]) /\ js[j] # <<>>
JobsMade(n, js) ==
  /\ \A j \in 1..Len(js) : OneJob(js[j]) /\ \A l \in 1..Len(js[j]) : Fair(n, js[j][l])
  /\ \A j, k \in 1..Len(js) : \A l \in 1..Len(js[j]), q \in 1..Len(js[k]) :
        j # k \/ l # q => Matching(js[j][l], js[k][q]) /\ Apart(n, js[j][l], js[k][q])

\* The jobs of entries that are apart are whole and apart.
LEMMA PartitionMade ==
  ASSUME NEW n, NEW orders, WellMade(n, orders), AllApart(n, orders)
  PROVE  JobSeqs(Partition(orders)) /\ JobsMade(n, Partition(orders))
  <1> DEFINE js == Partition(orders)
  <1>1. IsSeq(orders)
    BY DEF WellMade
  <1>2. PICK m : Spread(js, orders, m)
    BY <1>1, PartitionSpreads
  <1>3. \A j \in 1..Len(js) : OneJob(js[j])
    BY <1>1, PartitionSpreads
  <1> HIDE DEF js
  <1>4. ASSUME NEW j \in 1..Len(js), NEW l \in 1..Len(js[j]) PROVE Fair(n, js[j][l])
    <2>1. m[j][l] \in 1..Len(orders) /\ js[j][l] = orders[m[j][l]]
      BY <1>2 DEF Spread
    <2>2. QED
      BY <2>1 DEF WellMade
  <1>5. ASSUME NEW j \in 1..Len(js), NEW k \in 1..Len(js),
               NEW l \in 1..Len(js[j]), NEW q \in 1..Len(js[k]), j # k \/ l # q
        PROVE  Matching(js[j][l], js[k][q]) /\ Apart(n, js[j][l], js[k][q])
    <2>1. /\ m[j][l] \in 1..Len(orders) /\ js[j][l] = orders[m[j][l]]
          /\ m[k][q] \in 1..Len(orders) /\ js[k][q] = orders[m[k][q]]
      BY <1>2 DEF Spread
    <2>2. m[j][l] # m[k][q]
      BY <1>2, <1>5 DEF Spread
    <2>3. QED
      BY <2>1, <2>2 DEF WellMade, AllApart
  <1>6. JobSeqs(js)
    BY <1>2 DEF Spread, JobSeqs
  <1>7. JobsMade(n, js)
    BY <1>3, <1>4, <1>5 DEF JobsMade
  <1>8. QED
    BY <1>6, <1>7 DEF js

\* The jobs that are left are such jobs.
LEMMA TailMade ==
  ASSUME NEW n, NEW js, JobSeqs(js), js # <<>>
  PROVE  /\ JobSeqs(Tail(js)) /\ Len(Tail(js)) = Len(js) - 1 /\ Head(js) = js[1] /\ 1 \in 1..Len(js)
         /\ JobsMade(n, js) => JobsMade(n, Tail(js))
         /\ \A j \in 1..Len(Tail(js)) : Tail(js)[j] = js[j + 1] /\ j + 1 \in 1..Len(js) /\ j + 1 # 1
  <1> DEFINE t == Tail(js)
  <1>1. IsSeq(js)
    BY DEF JobSeqs
  <1>2. Len(js) \in Nat /\ Len(js) # 0
    BY <1>1, SeqFacts
  <1>3. /\ IsSeq(t) /\ Len(t) = Len(js) - 1 /\ Head(js) = js[1]
        /\ \A j \in 1..Len(js) - 1 : t[j] = js[j + 1]
    BY <1>1, TailSeq
  <1> HIDE DEF t
  <1>4. \A j \in 1..Len(t) : t[j] = js[j + 1] /\ j + 1 \in 1..Len(js) /\ j + 1 # 1
    BY <1>2, <1>3
  <1>5. JobSeqs(t)
    BY <1>3, <1>4 DEF JobSeqs
  <1>6. JobsMade(n, js) => JobsMade(n, t)
    <2> SUFFICES ASSUME JobsMade(n, js) PROVE JobsMade(n, t)
      OBVIOUS
    <2>1. \A j \in 1..Len(t) : OneJob(t[j]) /\ \A l \in 1..Len(t[j]) : Fair(n, t[j][l])
      BY <1>4 DEF JobsMade
    <2>2. ASSUME NEW j \in 1..Len(t), NEW k \in 1..Len(t),
                 NEW l \in 1..Len(t[j]), NEW q \in 1..Len(t[k]), j # k \/ l # q
          PROVE  Matching(t[j][l], t[k][q]) /\ Apart(n, t[j][l], t[k][q])
      <3>1. j + 1 # k + 1 \/ l # q
        BY <2>2
      <3>2. t[j] = js[j + 1] /\ t[k] = js[k + 1] /\ j + 1 \in 1..Len(js) /\ k + 1 \in 1..Len(js)
        BY <1>4
      <3>3. QED
        BY <3>1, <3>2 DEF JobsMade
    <2>3. QED
      BY <2>1, <2>2 DEF JobsMade
  <1>7. 1 \in 1..Len(js)
    BY <1>2
  <1>8. QED
    BY <1>3, <1>4, <1>5, <1>6, <1>7 DEF t

-----------------------------------------------------------------------------
(* Symbols of groups                                                       *)

\* What FlattenSeq makes of the first k sequences, for each k
Flattens(ss, F) == \A i \in 1..Len(ss) : F[i] = IF i = 1 THEN ss[i] ELSE F[i - 1] \o ss[i]

\* FlattenSeq appends one sequence after the other.  What it computes exists, up to
\* a first position where it would not.
LEMMA FlattenUnfolds ==
  ASSUME NEW ss, IsSeq(ss), Len(ss) # 0
  PROVE  \E F : Flattens(ss, F) /\ FlattenSeq(ss) = F[Len(ss)]
  <1> DEFINE n == Len(ss)
             Good(f, k) == f = [i \in 1..k |-> IF i = 1 THEN ss[i] ELSE f[i - 1] \o ss[i]]
  <1>1. n \in Nat
    BY SeqFacts
  <1>3. n # 0
    OBVIOUS
  <1>4. QED
    <2> DEFINE bad == {k \in 1..n : ~\E f : Good(f, k)}
    <2>1. bad = {}
      <3> SUFFICES ASSUME bad # {} PROVE FALSE
        OBVIOUS
      <3>1. bad \in SUBSET (1..n)
        OBVIOUS
      <3>2. IsFiniteSet(bad) /\ bad \subseteq Nat
        <4> HIDE DEF bad
        <4>1. QED
          BY <3>1, Positions
      <3> DEFINE b == Min(bad)
      <3>3. b \in bad
        <4> HIDE DEF bad
        <4>1. QED
          BY <3>2, HasMin
      <3>4. \A k \in bad : b <= k
        <4> HIDE DEF bad
        <4>1. QED
          BY <3>2, MinIsLeast
      <3>9. \A k \in 1..n : k \notin bad => \E f : Good(f, k)
        <4> HIDE DEF Good
        <4>1. QED
          OBVIOUS
      <3>10. ~\E f : Good(f, b)
        <4> HIDE DEF Good, b
        <4>1. QED
          BY <3>3
      <3> HIDE DEF b, bad
      <3>5. b \in 1..n
        BY <3>1, <3>3
      <3>6. CASE b = 1
        <4>1. Good([i \in 1..1 |-> ss[i]], 1)
          OBVIOUS
        <4> HIDE DEF Good
        <4>2. QED
          BY <3>6, <3>10, <4>1
      <3>7. CASE b # 1
        <4>1. b - 1 \in 1..n /\ b - 1 < b /\ b \in Nat
          BY <1>1, <3>5, <3>7
        <4>2. b - 1 \notin bad
          BY <3>4, <4>1
        <4>3. PICK f : Good(f, b - 1)
          BY <3>9, <4>1, <4>2
        <4> DEFINE g == [i \in 1..b |-> IF i < b THEN f[i] ELSE f[b - 1] \o ss[b]]
        <4>4. ASSUME NEW i \in 1..b PROVE g[i] = IF i = 1 THEN ss[i] ELSE g[i - 1] \o ss[i]
          <5>1. CASE i < b
            <6>1. g[i] = f[i] /\ i \in 1..b - 1
              BY <3>5, <5>1
            <6>2. f[i] = IF i = 1 THEN ss[i] ELSE f[i - 1] \o ss[i]
              BY <4>3, <6>1
            <6>3. i # 1 => g[i - 1] = f[i - 1]
              BY <3>5, <5>1
            <6>4. QED
              BY <6>1, <6>2, <6>3
          <5>2. CASE i = b
            <6>0. b \in 1..b /\ b - 1 \in 1..b /\ b - 1 < b /\ ~(b < b)
              BY <3>5, <3>7
            <6>1. g[b] = f[b - 1] \o ss[b] /\ g[b - 1] = f[b - 1]
              BY <6>0
            <6>2. QED
              BY <3>7, <5>2, <6>1
          <5>3. QED
            BY <3>5, <5>1, <5>2
        <4>5. g = [i \in 1..b |-> g[i]]
          OBVIOUS
        <4> HIDE DEF g
        <4>6. Good(g, b)
          BY <4>4, <4>5
        <4> HIDE DEF Good
        <4>7. QED
          BY <3>10, <4>6
      <3>8. QED
        BY <3>6, <3>7
    <2>0. n \in 1..n
      BY <1>1, <1>3
    <2>2. \E f : Good(f, n)
      <3> HIDE DEF Good
      <3>1. QED
        BY <2>0, <2>1
    <2> DEFINE F == CHOOSE f : Good(f, n)
    <2>3. Good(F, n)
      BY <2>2
    <2>4. FlattenSeq(ss) = F[n]
      BY <1>3 DEF FlattenSeq
    <2> HIDE DEF F, bad
    <2>5. Flattens(ss, F)
      BY <2>3 DEF Flattens
    <2>6. QED
      BY <2>4, <2>5

\* FlattenSeq has the elements of all sequences.  It
\* is right up to a first position where it would not be.
LEMMA FlattenIs ==
  ASSUME NEW ss, IsSeq(ss), \A i \in 1..Len(ss) : IsSeq(ss[i])
  PROVE  /\ IsSeq(FlattenSeq(ss))
         /\ \A x : (\E l \in 1..Len(FlattenSeq(ss)) : FlattenSeq(ss)[l] = x)
                      <=> \E i \in 1..Len(ss) : \E l \in 1..Len(ss[i]) : ss[i][l] = x
  <1> DEFINE n == Len(ss)
  <1>1. n \in Nat
    BY SeqFacts
  <1>2. CASE n = 0
    <2>1. FlattenSeq(ss) = ss
      BY <1>2 DEF FlattenSeq
    <2>2. 1..n = {}
      BY <1>2
    <2>3. QED
      BY <2>1, <2>2
  <1>3. CASE n # 0
    <2>0. n \in 1..n
      BY <1>1, <1>3
    <2>4. PICK F : Flattens(ss, F) /\ FlattenSeq(ss) = F[n]
      BY <1>3, FlattenUnfolds
    <2>5. \A i \in 1..n : F[i] = IF i = 1 THEN ss[i] ELSE F[i - 1] \o ss[i]
      BY <2>4 DEF Flattens
    <2> DEFINE Right(k) ==
                 /\ IsSeq(F[k])
                 /\ \A x : (\E l \in 1..Len(F[k]) : F[k][l] = x)
                              <=> \E i \in 1..k : \E l \in 1..Len(ss[i]) : ss[i][l] = x
               wrong == {k \in 1..n : ~Right(k)}
    <2>6. wrong = {}
      <3> SUFFICES ASSUME wrong # {} PROVE FALSE
        OBVIOUS
      <3>1. wrong \in SUBSET (1..n)
        OBVIOUS
      <3>2. \A k \in 1..n : k \in wrong <=> ~Right(k)
        OBVIOUS
      <3> HIDE DEF wrong, Right
      <3>3. IsFiniteSet(wrong) /\ wrong \subseteq Nat
        BY <3>1, Positions
      <3> DEFINE b == Min(wrong)
      <3>4. b \in wrong /\ \A k \in wrong : b <= k
        BY <3>3, HasMin, MinIsLeast
      <3> HIDE DEF b
      <3>5. b \in 1..n /\ ~Right(b)
        BY <3>1, <3>2, <3>4
      <3>6. CASE b = 1
        <4>1. F[1] = ss[1] /\ 1 \in 1..n
          BY <2>5, <3>5, <3>6
        <4>2. 1..1 = {1}
          OBVIOUS
        <4>3. Right(1)
          BY <4>1, <4>2 DEF Right
        <4>4. QED
          BY <3>5, <3>6, <4>3
      <3>7. CASE b # 1
        <4>1. b - 1 \in 1..n /\ b - 1 < b
          BY <1>1, <3>5, <3>7
        <4>2. b - 1 \notin wrong
          BY <1>1, <3>4, <3>5, <4>1
        <4>3. Right(b - 1)
          BY <3>2, <4>1, <4>2
        <4>4. F[b] = F[b - 1] \o ss[b] /\ IsSeq(ss[b]) /\ IsSeq(F[b - 1])
          BY <2>5, <3>5, <3>7, <4>3 DEF Right
        <4> DEFINE p == F[b - 1]
                   q == ss[b]
        <4>5. /\ IsSeq(p \o q) /\ Len(p \o q) = Len(p) + Len(q)
              /\ \A i \in 1..Len(p) + Len(q) : (p \o q)[i] = IF i <= Len(p) THEN p[i] ELSE q[i - Len(p)]
          BY <4>4, AppendSeqs
        <4>6. Len(p) \in Nat /\ Len(q) \in Nat
          BY <4>4, SeqFacts
        <4>7. \A x : (\E i \in 1..b - 1 : \E l \in 1..Len(ss[i]) : ss[i][l] = x)
                        <=> \E l \in 1..Len(p) : p[l] = x
          BY <4>3 DEF Right
        <4>8. F[b] = p \o q
          BY <4>4
        <4> HIDE DEF p, q
        <4>9. ASSUME NEW x
              PROVE  (\E l \in 1..Len(p \o q) : (p \o q)[l] = x)
                        <=> (\E l \in 1..Len(p) : p[l] = x) \/ (\E l \in 1..Len(q) : q[l] = x)
          <5>1. ASSUME NEW l \in 1..Len(p) PROVE l \in 1..Len(p \o q) /\ (p \o q)[l] = p[l]
            BY <4>5, <4>6
          <5>2. ASSUME NEW l \in 1..Len(q)
                PROVE  Len(p) + l \in 1..Len(p \o q) /\ (p \o q)[Len(p) + l] = q[l]
            <6>1. Len(p) + l \in 1..Len(p) + Len(q) /\ ~(Len(p) + l <= Len(p)) /\ Len(p) + l - Len(p) = l
              BY <4>6
            <6>2. QED
              BY <4>5, <6>1
          <5>3. ASSUME NEW l \in 1..Len(p \o q)
                PROVE  \/ l \in 1..Len(p) /\ (p \o q)[l] = p[l]
                       \/ l - Len(p) \in 1..Len(q) /\ (p \o q)[l] = q[l - Len(p)]
            BY <4>5, <4>6
          <5>4. QED
            BY <5>1, <5>2, <5>3
        <4>10. \A i : i \in 1..b <=> i \in 1..b - 1 \/ i = b
          BY <3>5, <1>1
        <4>11. \A x : (\E i \in 1..b : \E l \in 1..Len(ss[i]) : ss[i][l] = x)
                         <=> \/ \E i \in 1..b - 1 : \E l \in 1..Len(ss[i]) : ss[i][l] = x
                             \/ \E l \in 1..Len(q) : q[l] = x
          BY <4>10 DEF q
        <4>12. Right(b)
          BY <4>5, <4>7, <4>8, <4>9, <4>11, ZenonT(40) DEF Right
        <4>13. QED
          BY <3>5, <4>12
      <3>8. QED
        BY <3>6, <3>7
    <2>7. Right(n)
      <3> HIDE DEF Right
      <3>1. QED
        BY <2>0, <2>6
    <2>8. QED
      BY <2>4, <2>7
  <1>4. QED
    BY <1>2, <1>3

Has(s, x) == \E l \in 1..Len(s) : s[l] = x

\* Without its repetitions a sequence has the same members.
LEMMA OnceHas ==
  ASSUME NEW s, IsSeq(s)
  PROVE  IsSeq(Once(s)) /\ \A x : Has(Once(s), x) <=> Has(s, x)
  <1> DEFINE S == {i \in 1..Len(s) : \A j \in 1..i - 1 : s[j] # s[i]}
             t == Once(s)
  <1>1. t = Keep(s, S)
    BY DEF Once
  <1>2. S \in SUBSET (1..Len(s)) /\ \A i \in 1..Len(s) : i \notin S => \E j \in 1..i - 1 : s[j] = s[i]
    OBVIOUS
  <1> HIDE DEF S, t
  <1>3. /\ IsSeq(t)
        /\ \A k \in 1..Len(t) : \E i \in S : t[k] = s[i]
        /\ \A i \in S : \E k \in 1..Len(t) : t[k] = s[i]
    BY <1>1, <1>2, Kept, KeptOnes
  <1>4. ASSUME NEW x, Has(s, x) PROVE \E i \in S : s[i] = x
    <2> DEFINE T == {l \in 1..Len(s) : s[l] = x}
    <2>1. T \in SUBSET (1..Len(s)) /\ T # {} /\ \A l : l \in T <=> l \in 1..Len(s) /\ s[l] = x
      BY <1>4 DEF Has
    <2> HIDE DEF T
    <2>2. IsFiniteSet(T) /\ T \subseteq Nat
      BY <2>1, Positions
    <2> DEFINE f == Min(T)
    <2>3. f \in T /\ \A l \in T : f <= l
      BY <2>1, <2>2, HasMin, MinIsLeast
    <2> HIDE DEF f
    <2>4. ASSUME NEW j \in 1..f - 1 PROVE s[j] # s[f]
      <3>1. f \in 1..Len(s) /\ s[f] = x /\ f \in Nat /\ Len(s) \in Nat
        BY <2>1, <2>2, <2>3, SeqFacts
      <3>2. j \in 1..Len(s) /\ ~(f <= j)
        BY <3>1
      <3>3. QED
        BY <2>1, <2>3, <3>1, <3>2
    <2>5. f \in S /\ s[f] = x
      BY <1>2, <2>1, <2>3, <2>4
    <2>6. QED
      BY <2>5
  <1>5. ASSUME NEW x PROVE Has(t, x) <=> Has(s, x)
    <2>1. Has(t, x) => Has(s, x)
      BY <1>2, <1>3 DEF Has
    <2>2. Has(s, x) => Has(t, x)
      BY <1>3, <1>4, ZenonT(40) DEF Has
    <2>3. QED
      BY <2>1, <2>2
  <1>6. QED
    BY <1>3, <1>5 DEF t

\* The symbols of some groups are those of each of them.
LEMMA SymbolsOfGroupsHas ==
  ASSUME NEW gs, IsSeq(gs), \A i \in 1..Len(gs) : IsSeq(gs[i].symbols)
  PROVE  /\ IsSeq(SymbolsOfGroups(gs))
         /\ \A x : Has(SymbolsOfGroups(gs), x) <=> \E i \in 1..Len(gs) : Has(gs[i].symbols, x)
  <1> DEFINE ss == [i \in 1..Len(gs) |-> gs[i].symbols]
  <1>1. Len(gs) \in Nat
    BY SeqFacts
  <1>2. /\ IsSeq(ss) /\ Len(ss) = Len(gs)
        /\ \A i \in 1..Len(gs) : ss[i] = gs[i].symbols
    <2>1. ss \in [1..Len(gs) -> {gs[i].symbols : i \in 1..Len(gs)}]
      OBVIOUS
    <2>2. \A i \in 1..Len(gs) : ss[i] = gs[i].symbols
      OBVIOUS
    <2> HIDE DEF ss
    <2>3. QED
      BY <1>1, <2>1, <2>2, FunSeq
  <1>3. SymbolsOfGroups(gs) = Once(FlattenSeq(ss))
    BY DEF SymbolsOfGroups
  <1> HIDE DEF ss
  <1>4. /\ IsSeq(FlattenSeq(ss))
        /\ \A x : (\E l \in 1..Len(FlattenSeq(ss)) : FlattenSeq(ss)[l] = x)
                     <=> \E i \in 1..Len(ss) : \E l \in 1..Len(ss[i]) : ss[i][l] = x
    BY <1>2, FlattenIs
  <1>5. \A x : Has(FlattenSeq(ss), x) <=> \E i \in 1..Len(gs) : Has(gs[i].symbols, x)
    <2> SUFFICES ASSUME NEW x
                 PROVE  Has(FlattenSeq(ss), x) <=> \E i \in 1..Len(gs) : Has(gs[i].symbols, x)
      OBVIOUS
    <2>1. Has(FlattenSeq(ss), x) <=> \E i \in 1..Len(ss) : \E l \in 1..Len(ss[i]) : ss[i][l] = x
      <3> DEFINE whole == FlattenSeq(ss)
      <3>1. \A y : (\E l \in 1..Len(whole) : whole[l] = y)
                     <=> \E i \in 1..Len(ss) : \E l \in 1..Len(ss[i]) : ss[i][l] = y
        BY <1>4
      <3> HIDE DEF whole
      <3>2. Has(whole, x) <=> \E i \in 1..Len(ss) : \E l \in 1..Len(ss[i]) : ss[i][l] = x
        BY <3>1 DEF Has
      <3>3. QED
        BY <3>2 DEF whole
    <2>2. ASSUME NEW i \in 1..Len(gs)
          PROVE  (\E l \in 1..Len(ss[i]) : ss[i][l] = x) <=> Has(gs[i].symbols, x)
      <3>1. ss[i] = gs[i].symbols
        BY <1>2
      <3>2. QED
        BY <3>1 DEF Has
    <2>3. QED
      BY <1>2, <2>1, <2>2
  <1>6. IsSeq(Once(FlattenSeq(ss))) /\ \A x : Has(Once(FlattenSeq(ss)), x) <=> Has(FlattenSeq(ss), x)
    BY <1>4, OnceHas
  <1>7. QED
    BY <1>3, <1>5, <1>6

\* Groups have different names.
LEMMA GroupsAre ==
  ASSUME NEW groups
  PROVE  /\ IsSeq(AssetGroups(groups))
         /\ \A i, j \in 1..Len(AssetGroups(groups)) :
               AssetGroups(groups)[i].name = AssetGroups(groups)[j].name => i = j
  <1> DEFINE One(name) ==
               [name      |-> name,
                symbols   |-> Setting(groups[name], "symbols", List(<< >>)).value,
                tradeable |-> Truth(Setting(groups[name], "tradeable", Flag(TRUE))),
                lots      |-> Setting(groups[name], "lot_multiplier", Number(100)).value]
             S     == {i \in 1..Len(GroupNames) : GroupNames[i] \in DOMAIN groups}
             names == Keep(GroupNames, S)
             gs    == [i \in 1..Len(names) |-> One(names[i])]
  <1>1. AssetGroups(groups) = gs
    BY DEF AssetGroups
  <1>2. IsSeq(GroupNames) /\ \A i, j \in 1..Len(GroupNames) : GroupNames[i] = GroupNames[j] => i = j
    BY SignalFlowAssumption, SeqOfSet
  <1>3. S \in SUBSET (1..Len(GroupNames))
    OBVIOUS
  <1> HIDE DEF S
  <1>4. /\ IsSeq(names) /\ IsOrder(Ascending(S), S) /\ Len(names) = Cardinality(S) /\ Len(names) \in Nat
        /\ \A k \in 1..Cardinality(S) : names[k] = GroupNames[Ascending(S)[k]]
    BY <1>2, <1>3, Kept
  <1> HIDE DEF names
  <1>5. ASSUME NEW i \in 1..Len(names), NEW j \in 1..Len(names), names[i] = names[j] PROVE i = j
    <2> DEFINE m == Ascending(S)
    <2>1. i \in 1..Cardinality(S) /\ j \in 1..Cardinality(S)
      BY <1>4
    <2>2. m[i] \in S /\ m[j] \in S /\ (m[i] = m[j] => i = j)
      BY <1>4, <2>1 DEF IsOrder
    <2>3. names[i] = GroupNames[m[i]] /\ names[j] = GroupNames[m[j]]
      BY <1>4, <2>1
    <2> HIDE DEF m
    <2>4. m[i] \in 1..Len(GroupNames) /\ m[j] \in 1..Len(GroupNames)
      BY <1>3, <2>2
    <2>5. QED
      BY <1>2, <1>5, <2>2, <2>3, <2>4
  <1>6. \A x : One(x).name = x
    OBVIOUS
  <1> HIDE DEF One
  <1>7. gs \in [1..Len(names) -> {One(names[i]) : i \in 1..Len(names)}] /\ \A i \in 1..Len(names) : gs[i] = One(names[i])
    OBVIOUS
  <1> HIDE DEF gs
  <1>8. IsSeq(gs) /\ Len(gs) = Len(names)
    BY <1>4, <1>7, FunSeq
  <1>9. \A i, j \in 1..Len(gs) : gs[i].name = gs[j].name => i = j
    BY <1>5, <1>6, <1>7, <1>8, SMTT(30)
  <1>10. QED
    BY <1>1, <1>8, <1>9
-----------------------------------------------------------------------------
(* The settings                                                            *)

\* The empty sequence.
LEMMA NoElements == IsSeq(<<>>) /\ Len(<<>>) = 0 /\ 1..Len(<<>>) = {}
  <1>1. Len(<<>>) = 0 /\ <<>> \in Seq({})
    BY EmptySeq
  <1>2. IsSeq(<<>>)
    BY <1>1, SeqOfSet
  <1>3. QED
    BY <1>1, <1>2

\* The settings come from a document.
LEMMA LoadedIs ==
  ASSUME NEW n \in DOMAIN Loaded
  PROVE  \E doc : Loaded[n] = AppConfig(doc)
  <1>1. n \in {m \in DOMAIN Setups : Loads(Setups[m])} /\ Loaded[n] = LoadConfig(Setups[n])
    BY DEF Loaded
  <1>2. QED
    BY <1>1 DEF LoadConfig

\* The groups have different names, and where there are groups, their symbols
\* are those of the settings.
LEMMA GroupsOfSettings ==
  ASSUME NEW n \in DOMAIN Loaded
  PROVE  LET gs == Loaded[n].groups
         IN  /\ IsSeq(gs)
             /\ \A i \in 1..Len(gs) : IsSeq(gs[i].symbols) /\ \A l \in 1..Len(gs[i].symbols) : gs[i].symbols[l] \in Symbols
             /\ \A i, j \in 1..Len(gs) : gs[i].name = gs[j].name => i = j
             /\ gs # <<>> => Loaded[n].symbols = SymbolsOfGroups(gs)
  <1>1. PICK doc : Loaded[n] = AppConfig(doc)
    BY LoadedIs
  <1> DEFINE gs == Loaded[n].groups
  <1>2. gs = GroupsIn(doc) /\ Loaded[n].symbols = SymbolsIn(doc)
    BY <1>1 DEF AppConfig
  <1>3. IsSeq(gs) /\ \A i, j \in 1..Len(gs) : gs[i].name = gs[j].name => i = j
    <2>1. CASE IsMapping(Section(doc, "asset_groups"))
      <3>1. gs = AssetGroups(Section(doc, "asset_groups"))
        BY <1>2, <2>1 DEF GroupsIn
      <3>2. QED
        BY <3>1, GroupsAre
    <2>2. CASE ~IsMapping(Section(doc, "asset_groups"))
      <3>1. gs = <<>>
        BY <1>2, <2>2 DEF GroupsIn
      <3>2. QED
        BY <3>1, NoElements
    <2>3. QED
      BY <2>1, <2>2
  <1>4. gs # <<>> => Loaded[n].symbols = SymbolsOfGroups(gs)
    BY <1>2 DEF SymbolsIn
  <1>5. ASSUME NEW i \in 1..Len(gs)
        PROVE  IsSeq(gs[i].symbols) /\ \A l \in 1..Len(gs[i].symbols) : gs[i].symbols[l] \in Symbols
    <2>1. gs[i] \in ToSet(gs)
      BY <1>3, SeqFacts DEF ToSet
    <2>2. gs[i].symbols \in Seq(Symbols)
      BY <2>1, SignalFlowAssumption
    <2>3. QED
      BY <2>2, SeqOfSet
  <1>6. QED
    BY <1>3, <1>4, <1>5

\* The symbols of the settings and those a run is asked for.
LEMMA SymbolsOfSettings ==
  ASSUME NEW n \in DOMAIN Loaded
  PROVE  /\ IsSeq(Loaded[n].symbols) /\ IsSeq(Setups[n].requested)
         /\ Named(n) \subseteq Symbols
         /\ \A s : Has(Loaded[n].symbols, s) => s \in Named(n)
         /\ \A s : Has(Setups[n].requested, s) => s \in Named(n)
  <1>1. Loaded[n].symbols \in Seq(Symbols) /\ Setups[n].requested \in Seq(Symbols)
    BY SignalFlowAssumption
  <1>2. IsSeq(Loaded[n].symbols) /\ IsSeq(Setups[n].requested)
    BY <1>1, SeqOfSet
  <1>3. Named(n) \subseteq Symbols
    BY DEF Named, NamedIn, Symbols
  <1>4. ASSUME NEW s, Has(Loaded[n].symbols, s) PROVE s \in Named(n)
    BY <1>2, <1>4, SeqFacts DEF Has, Named, ToSet
  <1>5. ASSUME NEW s, Has(Setups[n].requested, s) PROVE s \in Named(n)
    BY <1>2, <1>5, SeqFacts DEF Has, Named, ToSet
  <1>6. QED
    BY <1>2, <1>3, <1>4, <1>5

\* A symbol of a group is one of the settings, and its home is such a group.
LEMMA HomesAre ==
  ASSUME NEW n \in DOMAIN Loaded, NEW s \in Symbols, Homes[n][s] # NoGroup
  PROVE  /\ s \in Named(n)
         /\ \E i \in 1..Len(Loaded[n].groups) : Homes[n][s] = Loaded[n].groups[i]
  <1> DEFINE gs == Loaded[n].groups
  <1>1. /\ IsSeq(gs)
        /\ gs # <<>> => Loaded[n].symbols = SymbolsOfGroups(gs)
        /\ \A i \in 1..Len(gs) : IsSeq(gs[i].symbols)
    BY GroupsOfSettings
  <1>2. Homes[n][s] = GroupForSymbol(gs, s)
    BY DEF Homes
  <1> HIDE DEF gs
  <1>3. Members(gs, s) # {} /\ Members(gs, s) \in SUBSET (1..Len(gs))
    BY <1>2 DEF GroupForSymbol, Members
  <1> DEFINE first == CHOOSE i \in Members(gs, s) : \A j \in Members(gs, s) : i <= j
  <1>4. first \in Members(gs, s)
    <2>1. IsFiniteSet(Members(gs, s)) /\ Members(gs, s) \subseteq Nat
      BY <1>1, <1>3, Positions
    <2>2. Min(Members(gs, s)) \in Members(gs, s) /\ \A j \in Members(gs, s) : Min(Members(gs, s)) <= j
      BY <1>3, <2>1, HasMin, MinIsLeast
    <2>3. \E i \in Members(gs, s) : \A j \in Members(gs, s) : i <= j
      BY <2>2
    <2>4. QED
      BY <2>3
  <1>5. Homes[n][s] = gs[first]
    BY <1>2, <1>3 DEF GroupForSymbol
  <1> HIDE DEF first
  <1>6. first \in 1..Len(gs) /\ s \in ToSet(gs[first].symbols)
    BY <1>4 DEF Members
  <1>7. Has(gs[first].symbols, s)
    BY <1>1, <1>6, SeqFacts DEF Has, ToSet
  <1>8. gs # <<>>
    BY <1>1, <1>6, NoElements
  <1>9. Has(Loaded[n].symbols, s)
    BY <1>1, <1>6, <1>7, <1>8, SymbolsOfGroupsHas
  <1>10. QED
    BY <1>5, <1>6, <1>9, SymbolsOfSettings DEF gs

\* Two symbols in groups of the same name are in the same group.
LEMMA SameHome ==
  ASSUME NEW n \in DOMAIN Loaded, NEW s \in Symbols, NEW t \in Symbols,
         Homes[n][s] # NoGroup, Homes[n][t] # NoGroup, Homes[n][s].name = Homes[n][t].name
  PROVE  Homes[n][s] = Homes[n][t]
  <1>1. PICK i \in 1..Len(Loaded[n].groups) : Homes[n][s] = Loaded[n].groups[i]
    BY HomesAre
  <1>2. PICK j \in 1..Len(Loaded[n].groups) : Homes[n][t] = Loaded[n].groups[j]
    BY HomesAre
  <1>3. i = j
    BY <1>1, <1>2, GroupsOfSettings
  <1>4. QED
    BY <1>1, <1>2, <1>3

\* What is scanned is named by the settings or asked for.
LEMMA ScanIs ==
  ASSUME NEW n \in DOMAIN Loaded
  PROVE  IsSeq(Scans[n]) /\ \A i \in 1..Len(Scans[n]) : Scans[n][i] \in Named(n) /\ Scans[n][i] \in Symbols
  <1> DEFINE gs == Loaded[n].groups
             S  == {i \in 1..Len(gs) : gs[i].tradeable}
             kept == Keep(gs, S)
             universe == TradeableSymbols(gs, Loaded[n].symbols)
  <1>1. /\ IsSeq(gs)
        /\ gs # <<>> => Loaded[n].symbols = SymbolsOfGroups(gs)
        /\ \A i \in 1..Len(gs) : IsSeq(gs[i].symbols)
    BY GroupsOfSettings
  <1>2. /\ IsSeq(Loaded[n].symbols) /\ IsSeq(Setups[n].requested)
        /\ Named(n) \subseteq Symbols
        /\ \A s : Has(Loaded[n].symbols, s) => s \in Named(n)
        /\ \A s : Has(Setups[n].requested, s) => s \in Named(n)
    BY SymbolsOfSettings
  <1>3. S \in SUBSET (1..Len(gs))
    OBVIOUS
  <1>4. Scans[n] \in {universe, Setups[n].requested, Loaded[n].symbols}
    BY DEF Scans, ScanSymbols
  <1>5. gs = <<>> => universe = Loaded[n].symbols
    BY DEF TradeableSymbols
  <1>6. gs # <<>> => universe = SymbolsOfGroups(kept)
    BY DEF TradeableSymbols
  <1> HIDE DEF gs, S, kept, universe
  <1>7. ASSUME gs # <<>> PROVE IsSeq(universe) /\ \A s : Has(universe, s) => s \in Named(n)
    <2>1. /\ IsSeq(kept) /\ \A k \in 1..Len(kept) : \E i \in S : kept[k] = gs[i]
      BY <1>1, <1>3, Kept, KeptOnes DEF kept
    <2>2. ASSUME NEW k \in 1..Len(kept)
          PROVE  IsSeq(kept[k].symbols) /\ \E i \in 1..Len(gs) : kept[k] = gs[i]
      BY <1>1, <1>3, <2>1
    <2>3. /\ IsSeq(universe)
          /\ \A x : Has(universe, x) <=> \E k \in 1..Len(kept) : Has(kept[k].symbols, x)
      BY <1>6, <1>7, <2>1, <2>2, SymbolsOfGroupsHas
    <2>4. \A x : Has(Loaded[n].symbols, x) <=> \E i \in 1..Len(gs) : Has(gs[i].symbols, x)
      BY <1>1, <1>7, SymbolsOfGroupsHas
    <2>5. ASSUME NEW s, Has(universe, s) PROVE s \in Named(n)
      <3>1. PICK k \in 1..Len(kept) : Has(kept[k].symbols, s)
        BY <2>3, <2>5
      <3>2. Has(Loaded[n].symbols, s)
        BY <2>2, <2>4, <3>1
      <3>3. QED
        BY <1>2, <3>2
    <2>6. QED
      BY <2>3, <2>5
  <1>8. IsSeq(Scans[n]) /\ \A s : Has(Scans[n], s) => s \in Named(n)
    BY <1>2, <1>4, <1>5, <1>7
  <1>9. \A i \in 1..Len(Scans[n]) : Has(Scans[n], Scans[n][i])
    BY DEF Has
  <1>10. QED
    BY <1>2, <1>8, <1>9

\* The pairs of the settings are of two symbols, and listed once.
LEMMA PairsOfSettings ==
  ASSUME NEW n \in DOMAIN Loaded
  PROVE  /\ IsSeq(Loaded[n].pairs) /\ Len(Loaded[n].pairs) \in Nat
         /\ \A i, j \in 1..Len(Loaded[n].pairs) : Loaded[n].pairs[i] = Loaded[n].pairs[j] => i = j
         /\ \A i \in 1..Len(Loaded[n].pairs) :
               LET p == Loaded[n].pairs[i]
               IN  /\ p # NoPair /\ p = <<p[1], p[2]>> /\ p[1] \in Symbols /\ p[2] \in Symbols
                   /\ p \in ToSet(Loaded[n].pairs)
  <1>1. Loaded[n].pairs \in Seq(Seq(Symbols))
    BY SignalFlowAssumption
  <1>2. /\ IsSeq(Loaded[n].pairs) /\ Len(Loaded[n].pairs) \in Nat
        /\ \A i \in 1..Len(Loaded[n].pairs) : Loaded[n].pairs[i] \in Seq(Symbols)
    BY <1>1, SeqOfSet
  <1>3. ASSUME NEW i \in 1..Len(Loaded[n].pairs)
        PROVE  LET p == Loaded[n].pairs[i]
               IN  /\ p # NoPair /\ p = <<p[1], p[2]>> /\ p[1] \in Symbols /\ p[2] \in Symbols
                   /\ p \in ToSet(Loaded[n].pairs)
    <2> DEFINE p == Loaded[n].pairs[i]
    <2>1. p \in Seq(Symbols) /\ Len(p) = 2
      BY <1>2, <1>3, SignalFlowAssumption
    <2>2. p \in ToSet(Loaded[n].pairs)
      BY <1>2, <1>3, SeqFacts DEF ToSet
    <2> HIDE DEF p
    <2>3. p[1] \in Symbols /\ p[2] \in Symbols
      BY <2>1, SMTT(30)
    <2>4. p # NoPair
      <3>1. p = <<>> <=> Len(p) = 0
        BY <2>1, SeqOfSet, SeqFacts
      <3>2. QED
        BY <2>1, <3>1 DEF NoPair
    <2>5. p = <<p[1], p[2]>>
      BY <2>1
    <2>6. QED
      BY <2>2, <2>3, <2>4, <2>5 DEF p
  <1>4. QED
    BY <1>2, <1>3, SignalFlowAssumption

-----------------------------------------------------------------------------
(* The invariant                                                           *)

\* The settings are loaded, and main.py has let the run begin with them.
Begun(n, l) == n \in DOMAIN Loaded /\ ValidateStage(Loaded[n]) /\ MayConnect(Loaded[n], l)

Pool(ph, q, f, wait) ==
  /\ IsSeq(q) /\ (\A i \in 1..Len(q) : q[i] \in Tasks)
  /\ IsFiniteSet(f) /\ f \in SUBSET Tasks /\ (ph # "analysis" => f = {})
  /\ wait \in BOOLEAN

\* What the scan has found before position c: entries of their own, and the two
\* legs of each pair it came by.
OfPair(n, x, c) ==
  /\ x.strategy = "pairs" /\ Listed(n, x.pair)
  /\ \E k \in 1..Len(Loaded[n].pairs) : x.pair = Loaded[n].pairs[k] /\ Len(Scans[n]) + k < c
Alone(x) == x.strategy # "pairs" /\ x.pair = NoPair
Found(n, x, c) == HasFields(x) /\ Traded(n, x.symbol) /\ (Alone(x) \/ OfPair(n, x, c))
Legs(x, y) ==
  \/ x.pair # y.pair
  \/ x.pair = NoPair
  \/ y.side = Opposite(x.side) /\ Joins(x.pair, x.symbol, y.symbol)
Gathered(n, s, c) ==
  /\ IsSeq(s)
  /\ \A i \in 1..Len(s) : Found(n, s[i], c)
  /\ \A i, j \in 1..Len(s) : i # j => Legs(s[i], s[j])

Before    == {"analysis", "gate"}
Arranging == {"construct", "adapt", "vote", "decide"}
Reviewing == {"risk", "cost"}
Signalled(ph, n, s, c) ==
  /\ c \in Nat \ {0}
  /\ ph \in Before => s = <<>> /\ c = 1
  /\ ph = "scan" => Gathered(n, s, c)
  /\ ph \in Arranging => WellMade(n, s) /\ AllApart(n, s)

\* What is ready is the beginning of the first job.
Halfway(js, rd) ==
  /\ IsSeq(rd)
  /\ js # <<>> => /\ Len(rd) < Len(Head(js))
                  /\ \A l \in 1..Len(rd) : rd[l] = Head(js)[l]
AtCost(js, op) == js # <<>> /\ Complete(Head(js)) /\ "Risk" \notin op

\* Legs that were sent, and the entries still to come.
SentAlone(n, st) ==
  /\ \A x \in st : HasFields(x) /\ Traded(n, x.symbol)
  /\ \A x, y \in st : x # y => Apart(n, x, y)
SentApart(n, st, js) ==
  \A x \in st : \A j \in 1..Len(js) : \A l \in 1..Len(js[j]) : Apart(n, x, js[j][l])
Opposed(n, x, y) ==
  /\ y.strategy = "pairs" /\ y.side = Opposite(x.side)
  /\ \E p \in ToSet(Loaded[n].pairs) :
        Joins(p, x.symbol, y.symbol) /\ Homes[n][p[1]].name = Homes[n][p[2]].name
SentWhole(n, st) == \A x \in st : x.strategy = "pairs" => \E y \in st : Opposed(n, x, y)

Working(ph, n, js, rd, st, op) ==
  /\ ph \in Before \union {"scan"} \union Arranging => st = {} /\ js = <<>> /\ rd = <<>>
  /\ ph \in Reviewing => JobSeqs(js) /\ JobsMade(n, js) /\ Halfway(js, rd) /\ SentApart(n, st, js)
  /\ ph = "cost" => AtCost(js, op)
  /\ SentAlone(n, st)
  /\ ApplyThreshold \/ SentWhole(n, st)

FlowInv ==
  /\ phase \in DOMAIN Stages
  /\ Begun(setup, login)
  /\ Pool(phase, queue, flying, late)
  /\ Signalled(phase, setup, signals, cursor)
  /\ Working(phase, setup, jobs, ready, sent, opened)

\* The invariant holds where a run begins.
LEMMA FlowBegins == Init => FlowInv
  <1> SUFFICES ASSUME Init PROVE FlowInv
    OBVIOUS
  <1>1. phase \in DOMAIN Stages
    BY DEF Init, Stages
  <1>2. Begun(setup, login)
    BY DEF Init, Begun, config
  <1>3. IsSeq(scan) /\ \A i \in 1..Len(scan) : scan[i] \in Symbols
    BY <1>2, ScanIs DEF Begun, scan
  <1>4. Pool(phase, queue, flying, late)
    <2> DEFINE first == <<"research", "market">>
    <2>1. first \in Seq(Tasks) /\ Len(first) = 2
      BY DEF Tasks
    <2>2. IsSeq(first) /\ \A i \in 1..2 : first[i] \in Tasks
      BY <2>1, SeqOfSet
    <2> HIDE DEF first
    <2>3. /\ IsSeq(first \o scan) /\ Len(first \o scan) = 2 + Len(scan)
          /\ \A i \in 1..2 + Len(scan) : (first \o scan)[i] = IF i <= 2 THEN first[i] ELSE scan[i - 2]
      <3>1. /\ IsSeq(first \o scan) /\ Len(first \o scan) = Len(first) + Len(scan)
            /\ \A i \in 1..Len(first) + Len(scan) :
                  (first \o scan)[i] = IF i <= Len(first) THEN first[i] ELSE scan[i - Len(first)]
        BY <1>3, <2>2, AppendSeqs
      <3>2. QED
        BY <2>1, <3>1
    <2>4. Len(scan) \in Nat
      BY <1>3, SeqFacts
    <2>5. ASSUME NEW i \in 1..2 + Len(scan) PROVE (first \o scan)[i] \in Tasks
      <3>1. CASE i <= 2
        <4>1. i \in 1..2
          BY <3>1
        <4>2. QED
          BY <2>2, <2>3, <3>1, <4>1
      <3>2. CASE ~(i <= 2)
        <4>1. i - 2 \in 1..Len(scan)
          BY <2>4, <3>2
        <4>2. scan[i - 2] \in Tasks
          BY <1>3, <4>1 DEF Tasks
        <4>3. QED
          BY <2>3, <3>2, <4>2
      <3>3. QED
        BY <3>1, <3>2
    <2>6. queue = first \o scan /\ flying = {} /\ late = FALSE
      BY DEF Init, first
    <2>7. IsFiniteSet({})
      BY FS_EmptySet
    <2>8. QED
      BY <2>3, <2>5, <2>6, <2>7 DEF Pool
  <1>5. Signalled(phase, setup, signals, cursor)
    BY DEF Init, Signalled, Before, Arranging
  <1>6. Working(phase, setup, jobs, ready, sent, opened)
    BY DEF Init, Working, Before, Arranging, Reviewing, SentAlone, SentWhole
  <1>7. QED
    BY <1>1, <1>2, <1>4, <1>5, <1>6 DEF FlowInv

-----------------------------------------------------------------------------
(* The analysis                                                            *)

\* As long as nothing has come to the jobs, nothing is disturbed there.
LEMMA NothingSent ==
  ASSUME FlowInv, phase \in Before \union {"scan"} \union Arranging,
         phase' \in Before \union {"scan"} \union Arranging \union {"failed"},
         UNCHANGED <<setup, jobs, ready, sent>>
  PROVE  Working(phase, setup, jobs, ready, sent, opened)'
  BY DEF FlowInv, Working, Before, Arranging, Reviewing

\* A task that is started leaves the queue for the pool.
LEMMA PoolStarts ==
  ASSUME FlowInv, StartTask
  PROVE  Pool(phase, queue, flying, late)'
  <1>1. Pool(phase, queue, flying, late) /\ phase = "analysis" /\ queue # <<>>
    BY DEF FlowInv, StartTask
  <1>2. /\ IsSeq(Tail(queue)) /\ Len(Tail(queue)) = Len(queue) - 1 /\ Head(queue) = queue[1]
        /\ \A i \in 1..Len(queue) - 1 : Tail(queue)[i] = queue[i + 1]
    BY <1>1, TailSeq DEF Pool
  <1>3. Len(queue) \in Nat /\ Len(queue) # 0
    BY <1>1, SeqFacts DEF Pool
  <1>4. Head(queue) \in Tasks
    BY <1>1, <1>2, <1>3 DEF Pool
  <1>5. \A i \in 1..Len(Tail(queue)) : Tail(queue)[i] \in Tasks
    <2> SUFFICES ASSUME NEW i \in 1..Len(Tail(queue)) PROVE Tail(queue)[i] \in Tasks
      OBVIOUS
    <2>1. i + 1 \in 1..Len(queue) /\ Tail(queue)[i] = queue[i + 1]
      BY <1>2, <1>3
    <2>2. QED
      BY <1>1, <2>1 DEF Pool
  <1>6. queue' = Tail(queue) /\ late' = late /\ phase' = phase
    BY DEF StartTask, analysing
  <1>7. IsFiniteSet(flying') /\ flying' \in SUBSET Tasks
    <2>1. flying' = flying \/ flying' = flying \union {Head(queue)}
      BY DEF StartTask
    <2>2. IsFiniteSet(flying \union {Head(queue)})
      BY <1>1, FS_AddElement DEF Pool
    <2>3. QED
      BY <1>1, <1>4, <2>1, <2>2 DEF Pool
  <1>8. QED
    BY <1>1, <1>2, <1>5, <1>6, <1>7 DEF Pool

\* A task that ends leaves the pool.
LEMMA PoolEnds ==
  ASSUME FlowInv, NEW t \in Tasks, EndTask(t) \/ TaskRaises(t)
  PROVE  /\ Pool(phase, queue, flying, late)' /\ UNCHANGED <<queue, late, analysing>>
         /\ t \in flying /\ flying' = flying \ {t} /\ phase = "analysis"
  <1>1. Pool(phase, queue, flying, late)
    BY DEF FlowInv
  <1>2. t \in flying /\ flying' = flying \ {t} /\ UNCHANGED <<queue, late, analysing>>
    BY DEF EndTask, TaskRaises
  <1>3. phase = "analysis"
    BY <1>1, <1>2 DEF Pool
  <1>4. IsFiniteSet(flying \ {t})
    BY <1>1, FS_RemoveElement DEF Pool
  <1>5. Pool(phase, queue, flying, late)'
    BY <1>1, <1>2, <1>3, <1>4 DEF Pool, analysing
  <1>6. QED
    BY <1>2, <1>3, <1>5

\* A step of the analysis leaves the signals and the jobs alone.
LEMMA AnalysisKeeps ==
  ASSUME FlowInv,
         StartTask \/ WaitTimesOut \/ EndAnalysis \/ \E t \in Tasks : EndTask(t) \/ TaskRaises(t)
  PROVE  FlowInv'
  <1>1. /\ UNCHANGED <<setup, login, signals, cursor, jobs, ready, sent>>
        /\ phase = "analysis" /\ phase' \in {"analysis", "gate", "failed"}
    <2>1. CASE StartTask
      BY <2>1 DEF StartTask, analysing
    <2>2. CASE WaitTimesOut
      BY <2>2 DEF WaitTimesOut, analysing
    <2>3. CASE EndAnalysis
      BY <2>3 DEF EndAnalysis
    <2>4. CASE \E t \in Tasks : EndTask(t) \/ TaskRaises(t)
      BY <2>4, PoolEnds DEF analysing
    <2>5. QED
      BY <2>1, <2>2, <2>3, <2>4
  <1>2. phase' \in DOMAIN Stages
    BY <1>1 DEF Stages
  <1>3. Begun(setup, login)'
    BY <1>1 DEF FlowInv
  <1>4. Pool(phase, queue, flying, late)'
    <2>1. CASE StartTask
      BY <2>1, PoolStarts
    <2>2. CASE WaitTimesOut
      BY <2>2 DEF WaitTimesOut, analysing, FlowInv, Pool
    <2>3. CASE EndAnalysis
      BY <2>3 DEF EndAnalysis, FlowInv, Pool
    <2>4. CASE \E t \in Tasks : EndTask(t) \/ TaskRaises(t)
      BY <2>4, PoolEnds
    <2>5. QED
      BY <2>1, <2>2, <2>3, <2>4
  <1>5. Signalled(phase, setup, signals, cursor)'
    BY <1>1 DEF FlowInv, Signalled, Before, Arranging
  <1>6. Working(phase, setup, jobs, ready, sent, opened)'
    BY <1>1, NothingSent DEF Before, Arranging
  <1>7. QED
    BY <1>2, <1>3, <1>4, <1>5, <1>6 DEF FlowInv
-----------------------------------------------------------------------------
(* The scan                                                                *)

\* What was found before a position was found before a later one.
LEMMA LaterFound ==
  ASSUME NEW n \in DOMAIN Loaded, NEW s, NEW c \in Nat, Gathered(n, s, c)
  PROVE  Gathered(n, s, c + 1)
  <1>1. Len(Loaded[n].pairs) \in Nat /\ Len(Scans[n]) \in Nat
    BY PairsOfSettings, ScanIs, SeqFacts
  <1>2. ASSUME NEW x, Found(n, x, c) PROVE Found(n, x, c + 1)
    BY <1>1, <1>2 DEF Found, OfPair
  <1>3. QED
    BY <1>2 DEF Gathered

\* An agent answers nothing or one of its signals.
LEMMA OneAnswer ==
  ASSUME NEW asked, NEW answers, NEW answer \in Answers(asked, answers)
  PROVE  answer = <<>> \/ \E sig \in answers : answer = <<sig>>
  BY DEF Answers

\* An answer is added to what the scan has found.
LEMMA AnswersAdded ==
  ASSUME NEW n \in DOMAIN Loaded, NEW s, NEW c, Gathered(n, s, c), NEW answer,
         answer = <<>> \/ \E x : answer = <<x>> /\ HasFields(x) /\ Traded(n, x.symbol) /\ Alone(x)
  PROVE  Gathered(n, AddNew(s, answer), c)
  <1>1. CASE AddNew(s, answer) = s
    BY <1>1
  <1>2. CASE answer = <<>> /\ AddNew(s, answer) = s \o answer
    <2>1. s \o <<>> = s
      <3>1. s \in Seq({s[i] : i \in 1..Len(s)})
        BY DEF Gathered, IsSeq
      <3>2. QED
        BY <3>1, ConcatEmptySeq
    <2>2. QED
      BY <1>2, <2>1
  <1>3. ASSUME NEW x, answer = <<x>>, HasFields(x), Traded(n, x.symbol), Alone(x),
               AddNew(s, answer) = s \o answer
        PROVE  Gathered(n, AddNew(s, answer), c)
    <2> DEFINE t == s \o <<x>>
               one == <<x>>
    <2>1. one \in Seq({x}) /\ Len(one) = 1 /\ one[1] = x
      OBVIOUS
    <2>2. IsSeq(one)
      BY <2>1, SeqOfSet
    <2>3. IsSeq(s) /\ Len(s) \in Nat
      BY SeqFacts DEF Gathered
    <2> HIDE DEF one
    <2>4. /\ IsSeq(s \o one) /\ Len(s \o one) = Len(s) + Len(one)
          /\ \A i \in 1..Len(s) + Len(one) : (s \o one)[i] = IF i <= Len(s) THEN s[i] ELSE one[i - Len(s)]
      BY <2>2, <2>3, AppendSeqs
    <2>5. t = s \o one
      BY DEF one
    <2> HIDE DEF t
    <2>6. /\ IsSeq(t) /\ Len(t) = Len(s) + 1
          /\ \A i \in 1..Len(t) : \/ i \in 1..Len(s) /\ t[i] = s[i]
                                  \/ i = Len(s) + 1 /\ t[i] = x
      BY <2>1, <2>3, <2>4, <2>5
    <2>7. \A i \in 1..Len(t) : Found(n, t[i], c)
      BY <1>3, <2>6 DEF Gathered, Found
    <2>8. ASSUME NEW i \in 1..Len(t), NEW j \in 1..Len(t), i # j PROVE Legs(t[i], t[j])
      <3>1. CASE i \in 1..Len(s) /\ j \in 1..Len(s) /\ t[i] = s[i] /\ t[j] = s[j]
        BY <2>8, <3>1 DEF Gathered
      <3>2. CASE t[i] = x
        BY <1>3, <3>2 DEF Legs, Alone
      <3>3. CASE t[j] = x
        BY <1>3, <3>3 DEF Legs, Alone
      <3>4. QED
        BY <2>6, <3>1, <3>2, <3>3
    <2>9. Gathered(n, t, c)
      BY <2>6, <2>7, <2>8 DEF Gathered
    <2>10. QED
      BY <1>3, <2>9 DEF t
  <1>4. AddNew(s, answer) = s \/ AddNew(s, answer) = s \o answer
    BY DEF AddNew
  <1>5. QED
    BY <1>1, <1>2, <1>3, <1>4

\* The legs of a pair that may be traded join what was found before it.
LEMMA PairAdded ==
  ASSUME NEW n \in DOMAIN Loaded, NEW s, NEW k \in 1..Len(Loaded[n].pairs),
         Gathered(n, s, Len(Scans[n]) + k), NEW side \in {"buy", "sell"}, NEW strength,
         LET p == Loaded[n].pairs[k]
         IN  Listed(n, p) /\ Traded(n, p[1]) /\ Traded(n, p[2])
  PROVE  Gathered(n, s \o PairLegs(Loaded[n].pairs[k], side, strength), Len(Scans[n]) + k + 1)
  <1> DEFINE p == Loaded[n].pairs[k]
             c == Len(Scans[n]) + k
             q == PairLegs(p, side, strength)
             t == s \o q
  <1>1. /\ Len(Loaded[n].pairs) \in Nat /\ Len(Scans[n]) \in Nat /\ k \in Nat /\ c \in Nat
        /\ \A i, j \in 1..Len(Loaded[n].pairs) : Loaded[n].pairs[i] = Loaded[n].pairs[j] => i = j
        /\ p # NoPair /\ p = <<p[1], p[2]>>
    BY PairsOfSettings, ScanIs, SeqFacts
  <1> HIDE DEF p
  <1>2. /\ Len(q) = 2 /\ q \in Seq({q[1], q[2]})
        /\ \A i \in 1..2 : HasFields(q[i]) /\ q[i].strategy = "pairs" /\ q[i].pair = p
        /\ q[1].symbol = p[1] /\ q[2].symbol = p[2] /\ q[1].side = side /\ q[2].side = Opposite(side)
    <2> DEFINE Half(x, own) == [Single(x, own, strength, strength, 500 * strength, "pairs") EXCEPT !.pair = p]
    <2>1. \A x, own : /\ HasFields(Half(x, own)) /\ Half(x, own).strategy = "pairs" /\ Half(x, own).pair = p
                      /\ Half(x, own).symbol = x /\ Half(x, own).side = own
      BY DEF Single, HasFields
    <2>2. q = <<Half(p[1], side), Half(p[2], Opposite(side))>>
      BY DEF PairLegs
    <2> HIDE DEF Half, q
    <2>3. Len(q) = 2 /\ q[1] = Half(p[1], side) /\ q[2] = Half(p[2], Opposite(side))
      BY <2>2
    <2>4. q \in Seq({q[1], q[2]})
      BY <2>2
    <2>5. 1..2 = {1, 2}
      OBVIOUS
    <2>6. QED
      BY <2>1, <2>3, <2>4, <2>5
  <1> HIDE DEF q, c
  <1>3. IsSeq(q) /\ IsSeq(s) /\ Len(s) \in Nat
    BY <1>2, SeqOfSet, SeqFacts DEF Gathered
  <1>4. /\ IsSeq(s \o q) /\ Len(s \o q) = Len(s) + Len(q)
        /\ \A i \in 1..Len(s) + Len(q) : (s \o q)[i] = IF i <= Len(s) THEN s[i] ELSE q[i - Len(s)]
    BY <1>3, AppendSeqs
  <1> HIDE DEF t
  <1>5. /\ IsSeq(t) /\ Len(t) = Len(s) + 2
        /\ \A i \in 1..Len(t) : \/ i \in 1..Len(s) /\ t[i] = s[i]
                                \/ i = Len(s) + 1 /\ t[i] = q[1]
                                \/ i = Len(s) + 2 /\ t[i] = q[2]
    <2>1. IsSeq(t) /\ Len(t) = Len(s) + 2
      BY <1>2, <1>4 DEF t
    <2>2. ASSUME NEW i \in 1..Len(t)
          PROVE  \/ i \in 1..Len(s) /\ t[i] = s[i]
                 \/ i = Len(s) + 1 /\ t[i] = q[1]
                 \/ i = Len(s) + 2 /\ t[i] = q[2]
      <3>1. i \in 1..Len(s) + Len(q) /\ t[i] = IF i <= Len(s) THEN s[i] ELSE q[i - Len(s)]
        BY <1>2, <1>4, <2>1 DEF t
      <3>2. \/ i \in 1..Len(s)
            \/ i = Len(s) + 1 /\ ~(i <= Len(s)) /\ i - Len(s) = 1
            \/ i = Len(s) + 2 /\ ~(i <= Len(s)) /\ i - Len(s) = 2
        BY <1>3, <2>1
      <3>3. QED
        BY <3>1, <3>2
    <2>3. QED
      BY <2>1, <2>2
  <1>6. \A i \in 1..Len(s) : Found(n, s[i], c)
    BY DEF Gathered, c, p
  <1>7. \A i \in 1..2 : Found(n, q[i], c + 1)
    <2>1. \A i \in 1..2 : OfPair(n, q[i], c + 1)
      <3>1. Len(Scans[n]) + k < c + 1 /\ p = Loaded[n].pairs[k]
        BY <1>1 DEF c, p
      <3>2. Listed(n, p)
        BY DEF p
      <3>3. QED
        BY <1>2, <3>1, <3>2 DEF OfPair
    <2>2. Traded(n, q[1].symbol) /\ Traded(n, q[2].symbol)
      BY <1>2 DEF p
    <2>3. 1..2 = {1, 2}
      OBVIOUS
    <2>4. QED
      BY <1>2, <2>1, <2>2, <2>3 DEF Found
  <1>8. \A i \in 1..Len(s) : Found(n, s[i], c + 1) /\ s[i].pair # p
    <2> SUFFICES ASSUME NEW i \in 1..Len(s) PROVE Found(n, s[i], c + 1) /\ s[i].pair # p
      OBVIOUS
    <2>1. Found(n, s[i], c)
      BY <1>6
    <2>2. CASE Alone(s[i])
      BY <1>1, <2>1, <2>2 DEF Found, Alone
    <2>3. CASE OfPair(n, s[i], c)
      <3>1. PICK l \in 1..Len(Loaded[n].pairs) : s[i].pair = Loaded[n].pairs[l] /\ Len(Scans[n]) + l < c
        BY <2>3 DEF OfPair
      <3>2. l # k
        BY <1>1, <3>1 DEF c
      <3>3. s[i].pair # p
        BY <1>1, <3>1, <3>2 DEF p
      <3>4. Len(Scans[n]) + l < c + 1
        BY <1>1, <3>1
      <3>5. OfPair(n, s[i], c + 1)
        BY <2>3, <3>1, <3>4 DEF OfPair
      <3>6. QED
        BY <2>1, <3>3, <3>5 DEF Found
    <2>4. QED
      BY <2>1, <2>2, <2>3 DEF Found
  <1>9. \A i \in 1..Len(t) : Found(n, t[i], c + 1)
    BY <1>5, <1>7, <1>8
  <1>10. Legs(q[1], q[2]) /\ Legs(q[2], q[1])
    <2>1. Opposite(Opposite(side)) = side
      BY DEF Opposite
    <2>2. Joins(p, q[1].symbol, q[2].symbol) /\ Joins(p, q[2].symbol, q[1].symbol)
      BY <1>1, <1>2 DEF Joins
    <2>3. q[1].pair = p /\ q[2].pair = p
      BY <1>2
    <2>4. QED
      BY <1>2, <2>1, <2>2, <2>3 DEF Legs
  <1>11. ASSUME NEW i \in 1..Len(t), NEW j \in 1..Len(t), i # j PROVE Legs(t[i], t[j])
    <2>1. q[1].pair = p /\ q[2].pair = p
      BY <1>2
    <2>2. CASE i \in 1..Len(s) /\ t[i] = s[i]
      <3>1. CASE j \in 1..Len(s) /\ t[j] = s[j]
        BY <1>11, <2>2, <3>1 DEF Gathered
      <3>2. CASE t[j].pair = p
        BY <1>8, <2>2, <3>2 DEF Legs
      <3>3. QED
        BY <1>5, <2>1, <3>1, <3>2
    <2>3. CASE i \notin 1..Len(s) /\ j \in 1..Len(s) /\ t[j] = s[j]
      <3>1. t[i].pair = p
        BY <1>5, <2>1, <2>3
      <3>2. QED
        BY <1>8, <2>3, <3>1 DEF Legs
    <2>4. CASE i \notin 1..Len(s) /\ j \notin 1..Len(s)
      BY <1>5, <1>10, <1>11, <2>4
    <2>5. QED
      BY <1>3, <1>5, <2>2, <2>3, <2>4
  <1>12. Gathered(n, t, c + 1)
    BY <1>5, <1>9, <1>11 DEF Gathered
  <1>13. QED
    BY <1>12 DEF t, q, p, c
\* The invariant of the run is kept by the registry.
LEMMA GatesKeep ==
  ASSUME FlowInv, LoadGates
  PROVE  FlowInv'
  <1>1. /\ phase = "gate" /\ phase' = "scan"
        /\ UNCHANGED <<setup, login, queue, flying, late, cursor, signals, jobs, ready, sent>>
    BY DEF LoadGates, settled
  <1>2. Signalled(phase, setup, signals, cursor)'
    <2>1. signals = <<>> /\ cursor = 1
      BY <1>1 DEF FlowInv, Signalled, Before
    <2>2. Gathered(setup, <<>>, 1)
      BY NoElements DEF Gathered
    <2>3. QED
      BY <1>1, <2>1, <2>2 DEF Signalled, Before, Arranging
  <1>3. Working(phase, setup, jobs, ready, sent, opened)'
    BY <1>1, NothingSent DEF Before, Arranging
  <1>4. QED
    BY <1>1, <1>2, <1>3 DEF FlowInv, Begun, Pool, Stages

\* What an agent answers for a symbol is an entry of its own in that symbol.
LEMMA AgentsAnswer ==
  ASSUME NEW s, NEW answer \in TrendAgent(s) \union MeanReversionAgent(s) \union Grid(s) \union MlAgent(s)
  PROVE  answer = <<>> \/ \E x : answer = <<x>> /\ HasFields(x) /\ x.symbol = s /\ Alone(x)
  <1> DEFINE Own(x) == HasFields(x) /\ x.symbol = s /\ Alone(x)
  <1>1. ASSUME NEW side, NEW strength, NEW conf, NEW edge, NEW strategy, strategy # "pairs"
        PROVE  Own(Single(s, side, strength, conf, edge, strategy))
    BY <1>1 DEF Single, HasFields, Alone
  <1>2. ASSUME NEW strategy, strategy # "pairs", NEW generator,
               answer \in RegimeAgent(s, strategy, generator)
        PROVE  answer = <<>> \/ \E x : answer = <<x>> /\ Own(x)
    <2> DEFINE offered == {sig \in {Weighted(s, o, strategy) : o \in Offers[generator]} : sig.strength > 1}
    <2>1. answer = <<>> \/ \E sig \in offered : answer = <<sig>>
      BY <1>2, OneAnswer DEF RegimeAgent
    <2>2. \A o : Own(Weighted(s, o, strategy))
      BY <1>1, <1>2 DEF Weighted
    <2> HIDE DEF Own
    <2>3. QED
      BY <2>1, <2>2
  <1> DEFINE grids == {Single(s, o[1], o[2], o[2] \div 2, 250 * o[2], "grid_dry_run") : o \in Offers["grid"]}
             mls   == {Single(s, o[1], o[2], o[3], o[4], "trend_following") : o \in Offers["ml"]}
  <1>3. (\A sig \in grids : Own(sig)) /\ \A sig \in mls : Own(sig)
    <2> HIDE DEF Own
    <2>1. QED
      BY <1>1
  <1>4. answer \in Grid(s) => answer = <<>> \/ \E x : answer = <<x>> /\ Own(x)
    <2> HIDE DEF Own
    <2>1. answer \in Grid(s) => answer = <<>> \/ \E sig \in grids : answer = <<sig>>
      BY OneAnswer DEF Grid
    <2> HIDE DEF grids
    <2>2. QED
      BY <1>3, <2>1
  <1>5. answer \in MlAgent(s) => answer = <<>> \/ \E x : answer = <<x>> /\ Own(x)
    <2> HIDE DEF Own
    <2>1. answer \in MlAgent(s) => answer = <<>> \/ \E sig \in mls : answer = <<sig>>
      BY OneAnswer DEF MlAgent
    <2> HIDE DEF mls
    <2>2. QED
      BY <1>3, <2>1
  <1>6. answer \in TrendAgent(s) \union MeanReversionAgent(s)
           => answer = <<>> \/ \E x : answer = <<x>> /\ Own(x)
    <2> HIDE DEF Own
    <2>1. QED
      BY <1>2 DEF TrendAgent, MeanReversionAgent
  <1>7. QED
    BY <1>4, <1>5, <1>6

\* The invariant is kept by the scan of a symbol.
LEMMA SymbolKeeps ==
  ASSUME FlowInv, ScanSymbol
  PROVE  FlowInv'
  <1> DEFINE s == scan[cursor]
             n == setup
  <1>1. /\ phase = "scan" /\ cursor <= Len(scan) /\ cursor' = cursor + 1
        /\ UNCHANGED <<phase, setup, login, queue, flying, late, jobs, ready, sent, opened>>
        /\ \/ UNCHANGED signals
           \/ /\ Home(s).tradeable
              /\ \E own \in TrendAgent(s) \union MeanReversionAgent(s), grid \in Grid(s), ml \in MlAgent(s) :
                    signals' = AddNew(AddNew(AddNew(signals, own), grid), ml)
    BY DEF ScanSymbol, settled
  <1>2. setup \in DOMAIN Loaded /\ cursor \in Nat \ {0} /\ Gathered(n, signals, cursor)
    BY <1>1 DEF FlowInv, Begun, Signalled
  <1>3. Gathered(n, signals', cursor)
    <2>1. CASE UNCHANGED signals
      BY <1>2, <2>1
    <2>2. ASSUME Home(s).tradeable,
                 NEW own \in TrendAgent(s) \union MeanReversionAgent(s), NEW grid \in Grid(s), NEW ml \in MlAgent(s),
                 signals' = AddNew(AddNew(AddNew(signals, own), grid), ml)
          PROVE  Gathered(n, signals', cursor)
      <3>1. Traded(n, s)
        <4>1. cursor \in 1..Len(scan)
          BY <1>1, <1>2, ScanIs, SeqFacts DEF scan
        <4>2. s \in Named(n)
          BY <1>2, <4>1, ScanIs DEF scan
        <4>3. QED
          BY <2>2, <4>2 DEF Traded, Home
      <3> HIDE DEF s, n
      <3>2. ASSUME NEW answer \in TrendAgent(s) \union MeanReversionAgent(s) \union Grid(s) \union MlAgent(s)
            PROVE  answer = <<>> \/ \E x : answer = <<x>> /\ HasFields(x) /\ Traded(n, x.symbol) /\ Alone(x)
        BY <3>1, AgentsAnswer
      <3>3. n \in DOMAIN Loaded
        BY <1>2 DEF n
      <3>4. Gathered(n, AddNew(signals, own), cursor)
        BY <1>2, <2>2, <3>2, <3>3, AnswersAdded
      <3>5. Gathered(n, AddNew(AddNew(signals, own), grid), cursor)
        BY <2>2, <3>2, <3>3, <3>4, AnswersAdded
      <3>6. Gathered(n, AddNew(AddNew(AddNew(signals, own), grid), ml), cursor)
        BY <2>2, <3>2, <3>3, <3>5, AnswersAdded
      <3>7. QED
        BY <2>2, <3>6
    <2>3. QED
      BY <1>1, <2>1, <2>2
  <1>4. Gathered(n, signals', cursor + 1) /\ cursor + 1 \in Nat \ {0}
    BY <1>2, <1>3, LaterFound
  <1>5. Signalled(phase, setup, signals, cursor)'
    BY <1>1, <1>4 DEF Signalled, Before, Arranging
  <1>6. Working(phase, setup, jobs, ready, sent, opened)'
    BY <1>1, NothingSent DEF Before, Arranging
  <1>7. QED
    BY <1>1, <1>5, <1>6 DEF FlowInv

\* The invariant is kept by the scan of a pair.
LEMMA PairKeeps ==
  ASSUME FlowInv, ScanPair
  PROVE  FlowInv'
  <1> DEFINE n == setup
             k == cursor - Len(scan)
             p == config.pairs[k]
  <1>1. /\ phase = "scan" /\ cursor' = cursor + 1
        /\ cursor \in Len(scan) + 1 .. Len(scan) + Len(config.pairs)
        /\ UNCHANGED <<phase, setup, login, queue, flying, late, jobs, ready, sent, opened>>
        /\ \/ UNCHANGED signals
           \/ /\ PairAllowed(p)
              /\ \E z \in ZScores : \E strength :
                    signals' = signals \o PairLegs(p, PairSide(z), strength)
    BY DEF ScanPair, settled
  <1>2. setup \in DOMAIN Loaded /\ cursor \in Nat \ {0} /\ Gathered(n, signals, cursor)
    BY <1>1 DEF FlowInv, Begun, Signalled
  <1>3. /\ Len(scan) \in Nat /\ Len(config.pairs) \in Nat /\ k \in 1..Len(config.pairs)
        /\ cursor = Len(scan) + k
    <2>1. Len(scan) \in Nat /\ Len(config.pairs) \in Nat
      BY <1>2, ScanIs, SeqFacts, PairsOfSettings DEF scan, config
    <2>2. QED
      BY <1>1, <1>2, <2>1
  <1>4. Gathered(n, signals', cursor + 1)
    <2>1. CASE UNCHANGED signals
      BY <1>2, <2>1, LaterFound
    <2>2. ASSUME PairAllowed(p), NEW z \in ZScores, NEW strength,
                 signals' = signals \o PairLegs(p, PairSide(z), strength)
          PROVE  Gathered(n, signals', cursor + 1)
      <3>1. p # NoPair /\ p[1] \in Symbols /\ p[2] \in Symbols /\ p \in ToSet(Loaded[n].pairs)
        BY <1>2, <1>3, PairsOfSettings DEF config
      <3> HIDE DEF p
      <3>2. /\ Homes[n][p[1]] # NoGroup /\ Homes[n][p[2]] # NoGroup
            /\ Homes[n][p[1]].name = Homes[n][p[2]].name /\ Homes[n][p[1]].tradeable
        BY <2>2 DEF PairAllowed, Home
      <3> HIDE DEF k, n
      <3>3. n \in DOMAIN Loaded
        BY <1>2 DEF n
      <3>4. Homes[n][p[1]] = Homes[n][p[2]]
        BY <3>1, <3>2, <3>3, SameHome
      <3>5. p[1] \in Named(n) /\ p[2] \in Named(n)
        BY <3>1, <3>2, <3>3, HomesAre
      <3>6. Listed(n, p) /\ Traded(n, p[1]) /\ Traded(n, p[2])
        BY <3>1, <3>2, <3>4, <3>5 DEF Listed, Traded
      <3>7. PairSide(z) \in {"buy", "sell"}
        BY DEF PairSide
      <3>8. p = Loaded[n].pairs[k] /\ k \in 1..Len(Loaded[n].pairs) /\ cursor = Len(Scans[n]) + k
        BY <1>3 DEF p, n, config, scan
      <3>9. Gathered(n, signals \o PairLegs(Loaded[n].pairs[k], PairSide(z), strength), Len(Scans[n]) + k + 1)
        BY <1>2, <3>3, <3>6, <3>7, <3>8, PairAdded
      <3>10. QED
        BY <2>2, <3>8, <3>9
    <2>3. QED
      BY <1>1, <2>1, <2>2
  <1>5. cursor + 1 \in Nat \ {0}
    BY <1>2
  <1>6. Signalled(phase, setup, signals, cursor)'
    BY <1>1, <1>4, <1>5 DEF Signalled, Before, Arranging
  <1>7. Working(phase, setup, jobs, ready, sent, opened)'
    BY <1>1, NothingSent DEF Before, Arranging
  <1>8. QED
    BY <1>1, <1>6, <1>7 DEF FlowInv
-----------------------------------------------------------------------------
(* From the signals to the jobs                                            *)

\* What the scan has gathered is well made.
LEMMA GatheredMade ==
  ASSUME NEW n, NEW s, NEW c, Gathered(n, s, c)
  PROVE  WellMade(n, s) /\ AllFields(s)
  <1>1. ASSUME NEW x, Found(n, x, c) PROVE Fair(n, x) /\ HasFields(x)
    BY <1>1 DEF Found, Fair, Alone, OfPair
  <1>2. ASSUME NEW x, NEW y, Legs(x, y) PROVE Matching(x, y)
    BY <1>2 DEF Legs, Matching
  <1>3. QED
    BY <1>1, <1>2 DEF Gathered, WellMade, AllFields

\* Well made signals have their fields.
LEMMA MadeFields ==
  ASSUME NEW n, NEW s, WellMade(n, s)
  PROVE  IsSeq(s) /\ AllFields(s)
  BY DEF WellMade, AllFields, Fair

\* What is left after both arbitrations is apart.
LEMMA ArbitratedApart ==
  ASSUME NEW n, n = setup, NEW c, Gathered(n, signals, c)
  PROVE  LET t == ResolveConflicts(SingleVsPair(signals)) IN WellMade(n, t) /\ AllApart(n, t)
  <1> DEFINE one == SingleVsPair(signals)
             t   == ResolveConflicts(one)
  <1>1. WellMade(n, signals) /\ IsSeq(signals)
    BY GatheredMade DEF WellMade
  <1>2. /\ Derived(one, signals)
        /\ \A k, l \in 1..Len(one) : IsPairLeg(one[k]) /\ ~IsPairLeg(one[l]) => one[k].symbol # one[l].symbol
        /\ \A k \in 1..Len(one) : \E i \in 1..Len(signals) : one[k] = signals[i]
    BY <1>1, SingleVsPairDerives
  <1> HIDE DEF one
  <1>3. WellMade(n, one) /\ IsSeq(one)
    BY <1>1, <1>2, DerivedKeeps DEF Derived
  <1>4. /\ Derived(t, one)
        /\ config.mode # "veto" => \A k, l \in 1..Len(t) : t[k].symbol = t[l].symbol => k = l
        /\ config.mode = "veto" => t = one
    BY <1>3, ResolveDerives
  <1> HIDE DEF t
  <1>5. WellMade(n, t)
    BY <1>3, <1>4, DerivedKeeps
  <1>6. ASSUME NEW k \in 1..Len(one) PROVE one[k].strategy = "pairs" <=> IsPairLeg(one[k])
    <2>1. PICK i \in 1..Len(signals) : one[k] = signals[i]
      BY <1>2
    <2>2. Found(n, signals[i], c)
      BY <2>1 DEF Gathered
    <2>3. QED
      BY <2>1, <2>2 DEF Found, Alone, OfPair, Listed, IsPairLeg
  <1>7. AllApart(n, t)
    <2>1. CASE config.mode = "veto"
      BY <1>2, <1>4, <1>6, <2>1 DEF AllApart, Apart, config
    <2>2. CASE config.mode # "veto"
      BY <1>4, <2>2 DEF AllApart, Apart
    <2>3. QED
      BY <2>1, <2>2
  <1>8. QED
    BY <1>5, <1>7 DEF t, one

\* Signals that are derived from others in the next stage.
LEMMA ArrangedKeeps ==
  ASSUME FlowInv, phase \in Arranging \union {"scan"}, phase' \in Arranging \union {"failed"},
         UNCHANGED <<setup, login, queue, flying, late, jobs, ready, sent>>,
         UNCHANGED cursor \/ cursor' = 1,
         phase' \in Arranging => WellMade(setup, signals') /\ AllApart(setup, signals')
  PROVE  FlowInv'
  <1>1. Pool(phase, queue, flying, late)'
    BY DEF FlowInv, Pool, Arranging
  <1>2. Signalled(phase, setup, signals, cursor)'
    BY DEF FlowInv, Signalled, Before, Arranging
  <1>3. Working(phase, setup, jobs, ready, sent, opened)'
    BY NothingSent DEF Before, Arranging
  <1>4. QED
    BY <1>1, <1>2, <1>3 DEF FlowInv, Begun, Stages, Arranging

\* The invariant is kept by the end of the scan.
LEMMA ArbitrateKeeps ==
  ASSUME FlowInv, Arbitrate \/ ScanRaises
  PROVE  FlowInv'
  <1>1. phase = "scan" /\ phase' = "construct" /\ cursor' = 1
        /\ UNCHANGED <<setup, login, queue, flying, late, jobs, ready, sent>>
    BY DEF Arbitrate, ScanRaises, settled
  <1>2. Gathered(setup, signals, cursor)
    BY <1>1 DEF FlowInv, Signalled
  <1>3. WellMade(setup, signals') /\ AllApart(setup, signals')
    <2>1. CASE Arbitrate
      BY <1>2, <2>1, ArbitratedApart DEF Arbitrate
    <2>2. CASE ScanRaises
      <3>1. signals' = <<>>
        BY <2>2 DEF ScanRaises
      <3>2. QED
        BY <3>1, NoElements DEF WellMade, AllApart
    <2>3. QED
      BY <2>1, <2>2
  <1>4. QED
    BY <1>1, <1>3, ArrangedKeeps DEF Arranging

\* The invariant is kept by a stage that derives its signals.
LEMMA DerivedStage ==
  ASSUME FlowInv, phase \in Arranging, phase' \in Arranging,
         UNCHANGED <<setup, login, queue, flying, late, jobs, ready, sent, cursor>>,
         Derived(signals', signals) \/ UNCHANGED signals
  PROVE  FlowInv'
  <1>1. WellMade(setup, signals) /\ AllApart(setup, signals)
    BY DEF FlowInv, Signalled
  <1>2. WellMade(setup, signals') /\ AllApart(setup, signals')
    BY <1>1, DerivedKeeps
  <1>3. QED
    BY <1>2, ArrangedKeeps

\* The invariant is kept by the allocation.
LEMMA ConstructKeeps ==
  ASSUME FlowInv, Construct
  PROVE  FlowInv'
  <1>1. /\ phase = "construct" /\ phase' = "adapt"
        /\ UNCHANGED <<setup, login, queue, flying, late, jobs, ready, sent, cursor>>
        /\ UNCHANGED signals \/ \E vol \in Vols, previous \in Previous : Allocates(vol, previous)
    BY DEF Construct, settled
  <1>2. WellMade(setup, signals) /\ setup \in DOMAIN Loaded
    BY <1>1 DEF FlowInv, Signalled, Begun, Arranging
  <1>3. IsSeq(signals) /\ AllFields(signals)
    BY <1>2, MadeFields
  <1>4. config.rotation.maxSymbols \in Int
    BY <1>2, SignalFlowAssumption DEF config
  <1>5. Derived(signals', signals) \/ UNCHANGED signals
    BY <1>1, <1>3, <1>4, AllocatesDerives
  <1>6. QED
    BY <1>1, <1>5, DerivedStage DEF Arranging

\* The invariant is kept by the adaptation.
LEMMA AdaptKeeps ==
  ASSUME FlowInv, Adapt
  PROVE  FlowInv'
  <1>1. /\ phase = "adapt" /\ phase' = "vote"
        /\ UNCHANGED <<setup, login, queue, flying, late, jobs, ready, sent, cursor>>
    BY DEF Adapt, shaped, settled
  <1>2. PICK least : signals' = IF ApplyThreshold THEN Adapted(signals, least) ELSE signals
    BY DEF Adapt
  <1>3. WellMade(setup, signals)
    BY <1>1 DEF FlowInv, Signalled, Arranging
  <1>4. IsSeq(signals) /\ AllFields(signals)
    BY <1>3, MadeFields
  <1>5. CASE ApplyThreshold
    <2>1. Derived(signals', signals)
      BY <1>2, <1>4, <1>5, AdaptedDerives
    <2>2. QED
      BY <1>1, <2>1, DerivedStage DEF Arranging
  <1>6. CASE ~ApplyThreshold
    <2>1. signals' = signals
      BY <1>2, <1>6
    <2>2. QED
      BY <1>1, <2>1, DerivedStage DEF Arranging
  <1>7. QED
    BY <1>5, <1>6

\* The invariant is kept by the vote.
LEMMA VoteKeeps ==
  ASSUME FlowInv, Vote
  PROVE  FlowInv'
  <1>1. /\ phase = "vote" /\ phase' = "decide"
        /\ UNCHANGED <<setup, login, queue, flying, late, jobs, ready, sent, cursor>>
        /\ UNCHANGED signals \/ \E S \in SUBSET (1..Len(signals)) : signals' = Keep(signals, S)
    BY DEF Vote, shaped, settled
  <1>2. WellMade(setup, signals)
    BY <1>1 DEF FlowInv, Signalled, Arranging
  <1>3. IsSeq(signals)
    BY <1>2, MadeFields
  <1>4. Derived(signals', signals) \/ UNCHANGED signals
    BY <1>1, <1>3, KeepDerives
  <1>5. QED
    BY <1>1, <1>4, DerivedStage DEF Arranging

\* The invariant is kept when the state cannot be built.
LEMMA StateKeeps ==
  ASSUME FlowInv, StateRaises
  PROVE  FlowInv'
  BY ArrangedKeeps DEF StateRaises, settled, Arranging

\* The orders are sized copies of the signals, and each of them is in one job.
LEMMA DecideKeeps ==
  ASSUME FlowInv, Decide
  PROVE  FlowInv' /\ IsSeq(jobs)'
  <1>1. /\ phase = "decide" /\ phase' = "risk" /\ signals' = <<>>
        /\ UNCHANGED <<setup, login, queue, flying, late, sent, cursor, ready>>
        /\ \E acct, vol, closed, unknown : jobs' = Partition(Decided(signals, acct, vol, closed, unknown))
    BY DEF Decide
  <1>2. WellMade(setup, signals) /\ AllApart(setup, signals)
    BY <1>1 DEF FlowInv, Signalled, Arranging
  <1>3. PICK acct, vol, closed, unknown : jobs' = Partition(Decided(signals, acct, vol, closed, unknown))
    BY <1>1
  <1> DEFINE orders == Decided(signals, acct, vol, closed, unknown)
             js     == jobs'
             n      == setup
  <1>4. WellMade(n, orders) /\ AllApart(n, orders)
    <2>1. IsSeq(signals)
      BY <1>2, MadeFields
    <2>2. Derived(orders, signals)
      BY <2>1, DecidedDerives
    <2> HIDE DEF orders
    <2>3. QED
      BY <1>2, <2>2, DerivedKeeps
  <1>5. JobSeqs(js) /\ JobsMade(n, js)
    <2>1. js = Partition(orders)
      BY <1>3
    <2> HIDE DEF orders, js, n
    <2>2. QED
      BY <1>4, <2>1, PartitionMade
  <1> HIDE DEF orders
  <1>6. sent = {} /\ ready = <<>>
    BY <1>1 DEF FlowInv, Working, Arranging
  <1>7. Halfway(js, <<>>)
    <2> HIDE DEF js
    <2>1. ASSUME js # <<>> PROVE Len(Head(js)) \in Nat \ {0}
      <3>1. Head(js) = js[1] /\ 1 \in 1..Len(js)
        BY <1>5, <2>1, TailMade
      <3>2. IsSeq(Head(js)) /\ Head(js) # <<>>
        BY <1>5, <3>1 DEF JobSeqs
      <3>3. QED
        BY <3>2, SeqFacts
    <2>2. QED
      BY <2>1, NoElements DEF Halfway
  <1>8. Working(phase, setup, jobs, ready, sent, opened)'
    BY <1>1, <1>5, <1>6, <1>7
       DEF Working, Before, Arranging, SentAlone, SentWhole, SentApart
  <1>9. Signalled(phase, setup, signals, cursor)'
    BY <1>1 DEF FlowInv, Signalled, Before, Arranging
  <1>10. Pool(phase, queue, flying, late)'
    BY <1>1 DEF FlowInv, Pool
  <1>11. QED
    BY <1>1, <1>5, <1>8, <1>9, <1>10 DEF FlowInv, Begun, Stages, JobSeqs
-----------------------------------------------------------------------------
(* From the jobs to execution                                              *)

\* What the gate of a leg leaves alone.
LEMMA GateKeeps ==
  ASSUME FlowInv, phase \in Reviewing, UNCHANGED gated, phase' \in Reviewing \union {"done", "failed"},
         Working(phase, setup, jobs, ready, sent, opened)'
  PROVE  FlowInv'
  <1>1. UNCHANGED <<setup, login, queue, flying, late, signals, cursor>>
    BY DEF gated
  <1>2. Pool(phase, queue, flying, late)'
    BY <1>1 DEF FlowInv, Pool, Reviewing
  <1>3. Signalled(phase, setup, signals, cursor)'
    BY <1>1 DEF FlowInv, Signalled, Before, Arranging, Reviewing
  <1>4. QED
    BY <1>1, <1>2, <1>3 DEF FlowInv, Begun, Stages, Reviewing

\* The jobs while they are reviewed.
LEMMA AtReview ==
  ASSUME FlowInv, phase \in Reviewing
  PROVE  /\ JobSeqs(jobs) /\ JobsMade(setup, jobs) /\ Halfway(jobs, ready) /\ SentApart(setup, sent, jobs)
         /\ SentAlone(setup, sent) /\ (ApplyThreshold \/ SentWhole(setup, sent))
         /\ setup \in DOMAIN Loaded
         /\ phase = "cost" => AtCost(jobs, opened)
  BY DEF FlowInv, Working, Begun

\* The next job, when no more than this one was sent.
LEMMA NextKeeps ==
  ASSUME FlowInv, phase \in Reviewing, UNCHANGED gated, jobs # <<>>, NextJob,
         SentApart(setup, sent', Tail(jobs)), SentAlone(setup, sent'),
         ApplyThreshold \/ SentWhole(setup, sent')
  PROVE  FlowInv'
  <1>1. phase' = "risk" /\ ready' = <<>> /\ jobs' = Tail(jobs)
    BY DEF NextJob
  <1>2. JobSeqs(jobs) /\ JobsMade(setup, jobs)
    BY AtReview
  <1> DEFINE js == Tail(jobs)
  <1>3. JobSeqs(js) /\ JobsMade(setup, js)
    BY <1>2, TailMade
  <1> HIDE DEF js
  <1>4. Halfway(js, <<>>)
    <2>1. ASSUME js # <<>> PROVE Len(Head(js)) \in Nat \ {0}
      <3>1. Head(js) = js[1] /\ 1 \in 1..Len(js)
        BY <1>3, <2>1, TailMade
      <3>2. IsSeq(Head(js)) /\ Head(js) # <<>>
        BY <1>3, <3>1 DEF JobSeqs
      <3>3. QED
        BY <3>2, SeqFacts
    <2>2. QED
      BY <2>1, NoElements DEF Halfway
  <1>5. setup' = setup /\ jobs' = js
    BY <1>1 DEF gated, js
  <1>6. SentApart(setup, sent', js)
    BY DEF js
  <1>7. Working(phase, setup, jobs, ready, sent, opened)'
    BY <1>1, <1>3, <1>4, <1>5, <1>6 DEF Working, Before, Arranging
  <1>8. QED
    BY <1>1, <1>7, GateKeeps DEF Reviewing

\* A job is dropped.
LEMMA DropKeeps ==
  ASSUME FlowInv, phase \in Reviewing, UNCHANGED gated, jobs # <<>>, NextJob, sent' = sent
  PROVE  FlowInv'
  <1>1. /\ JobSeqs(jobs) /\ SentApart(setup, sent, jobs)
        /\ SentAlone(setup, sent) /\ (ApplyThreshold \/ SentWhole(setup, sent))
    BY AtReview
  <1>2. \A j \in 1..Len(Tail(jobs)) : Tail(jobs)[j] = jobs[j + 1] /\ j + 1 \in 1..Len(jobs)
    BY <1>1, TailMade
  <1>3. SentApart(setup, sent, Tail(jobs))
    <2> DEFINE js == Tail(jobs)
    <2>1. \A j \in 1..Len(js) : js[j] = jobs[j + 1] /\ j + 1 \in 1..Len(jobs)
      BY <1>2
    <2> HIDE DEF js
    <2>2. SentApart(setup, sent, js)
      BY <1>1, <2>1 DEF SentApart
    <2>3. QED
      BY <2>2 DEF js
  <1>4. QED
    BY <1>1, <1>3, NextKeeps

\* A leg is ready, and the next one of the pair comes up.
LEMMA ReadyKeeps ==
  ASSUME FlowInv, phase = "cost", UNCHANGED <<gated, jobs, sent>>,
         Len(ready) + 1 < Len(Head(jobs)), ready' = Append(ready, Leg), phase' = "risk"
  PROVE  FlowInv'
  <1> DEFINE r == Append(ready, Leg)
             job == Head(jobs)
  <1>1. /\ JobSeqs(jobs) /\ JobsMade(setup, jobs) /\ Halfway(jobs, ready) /\ SentApart(setup, sent, jobs)
        /\ SentAlone(setup, sent) /\ (ApplyThreshold \/ SentWhole(setup, sent)) /\ jobs # <<>>
    BY AtReview DEF Reviewing, AtCost
  <1>2. IsSeq(ready) /\ Len(ready) \in Nat /\ \A l \in 1..Len(ready) : ready[l] = job[l]
    BY <1>1, SeqFacts DEF Halfway
  <1>3. Leg = job[Len(ready) + 1]
    BY DEF Leg
  <1>4. /\ IsSeq(r) /\ Len(r) = Len(ready) + 1
        /\ \A l \in 1..Len(ready) + 1 : r[l] = job[l]
    <2> DEFINE E == {ready[i] : i \in 1..Len(ready)} \union {Leg}
    <2>1. ready \in Seq({ready[i] : i \in 1..Len(ready)})
      BY <1>2 DEF IsSeq
    <2>2. ready \in Seq(E)
      BY <2>1, SeqMonotonic
    <2>3. Leg \in E
      OBVIOUS
    <2> HIDE DEF E
    <2>4. /\ r \in Seq(E) /\ Len(r) = Len(ready) + 1
          /\ \A i \in 1..Len(ready) + 1 : r[i] = IF i <= Len(ready) THEN ready[i] ELSE Leg
      BY <2>2, <2>3, AppendProperties
    <2>5. IsSeq(r)
      BY <2>4, SeqOfSet
    <2>6. ASSUME NEW l \in 1..Len(ready) + 1 PROVE r[l] = job[l]
      <3>1. CASE l <= Len(ready)
        <4>1. l \in 1..Len(ready)
          BY <3>1
        <4>2. QED
          BY <1>2, <2>4, <3>1, <4>1
      <3>2. CASE ~(l <= Len(ready))
        <4>1. l = Len(ready) + 1
          BY <1>2, <3>2
        <4>2. QED
          BY <1>3, <2>4, <3>2, <4>1
      <3>3. QED
        BY <3>1, <3>2
    <2>7. QED
      BY <2>4, <2>5, <2>6
  <1> HIDE DEF r
  <1>5. Halfway(jobs, r)
    BY <1>4 DEF Halfway
  <1>6. Working(phase, setup, jobs, ready, sent, opened)'
    BY <1>1, <1>5 DEF Working, Before, Arranging, r, gated
  <1>7. QED
    BY <1>6, GateKeeps DEF Reviewing
\* What execution is told of a leg.
Bare(l) == [symbol |-> l.symbol, side |-> l.side, strategy |-> l.strategy, pair |-> l.pair]

\* The last leg of a job has passed: all of its legs are sent.
LEMMA SendsJob ==
  ASSUME FlowInv, phase = "cost", PassLeg, ~(Len(ready) + 1 < Len(Head(jobs)))
  PROVE  LET job == Head(jobs)
         IN  /\ NextJob /\ jobs # <<>> /\ IsSeq(job) /\ job = jobs[1] /\ 1 \in 1..Len(jobs)
             /\ \A x \in sent' : x \in sent \/ \E l \in 1..Len(job) : x = Bare(job[l])
             /\ \A x \in sent : x \in sent'
             /\ \A l \in 1..Len(job) : Bare(job[l]) \in sent'
  <1> DEFINE job == Head(jobs)
             r   == Append(ready, Leg)
             E   == {ready[i] : i \in 1..Len(ready)} \union {Leg}
  <1>1. /\ JobSeqs(jobs) /\ Halfway(jobs, ready) /\ jobs # <<>>
    BY AtReview DEF Reviewing, AtCost
  <1>2. IsSeq(job) /\ job = jobs[1] /\ 1 \in 1..Len(jobs) /\ Len(job) \in Nat
    <2>1. job = jobs[1] /\ 1 \in 1..Len(jobs)
      BY <1>1, TailMade
    <2>2. IsSeq(job)
      BY <1>1, <2>1 DEF JobSeqs
    <2>3. QED
      BY <2>1, <2>2, SeqFacts
  <1>3. /\ IsSeq(ready) /\ Len(ready) \in Nat /\ Len(ready) < Len(job)
        /\ \A l \in 1..Len(ready) : ready[l] = job[l]
    BY <1>1, SeqFacts DEF Halfway
  <1>4. Len(job) = Len(ready) + 1
    BY <1>2, <1>3
  <1>5. Leg = job[Len(job)]
    BY <1>4 DEF Leg
  <1>6. NextJob /\ sent' = sent \union {Bare(l) : l \in ToSet(r)}
    BY DEF PassLeg, Bare
  <1>7. /\ r \in Seq(E) /\ Len(r) = Len(job)
        /\ \A i \in 1..Len(job) : r[i] = IF i <= Len(ready) THEN ready[i] ELSE Leg
    <2>1. ready \in Seq({ready[i] : i \in 1..Len(ready)})
      BY <1>3 DEF IsSeq
    <2>2. ready \in Seq(E)
      BY <2>1, SeqMonotonic
    <2>3. Leg \in E
      OBVIOUS
    <2> HIDE DEF E, job
    <2>4. QED
      BY <1>4, <2>2, <2>3, AppendProperties
  <1> HIDE DEF E, job, r
  <1>8. \A i \in 1..Len(job) : r[i] = job[i]
    <2> SUFFICES ASSUME NEW i \in 1..Len(job) PROVE r[i] = job[i]
      OBVIOUS
    <2>1. CASE i <= Len(ready)
      <3>1. i \in 1..Len(ready)
        BY <1>3, <2>1
      <3>2. QED
        BY <1>3, <1>7, <2>1, <3>1
    <2>2. CASE ~(i <= Len(ready))
      <3>1. i = Len(job)
        BY <1>3, <1>4, <2>2
      <3>2. QED
        BY <1>5, <1>7, <2>2, <3>1
    <2>3. QED
      BY <2>1, <2>2
  <1>9. ToSet(r) = {job[i] : i \in 1..Len(job)}
    <2>1. DOMAIN r = 1..Len(job)
      BY <1>7, LenProperties
    <2>2. QED
      BY <1>8, <2>1 DEF ToSet
  <1> HIDE DEF Bare
  <1>10. /\ \A x \in sent' : x \in sent \/ \E l \in 1..Len(job) : x = Bare(job[l])
         /\ \A x \in sent : x \in sent'
         /\ \A l \in 1..Len(job) : Bare(job[l]) \in sent'
    BY <1>6, <1>9
  <1>11. QED
    BY <1>1, <1>2, <1>6, <1>10 DEF job

\* What of a leg is sent.
LEMMA BareIs ==
  ASSUME NEW n, NEW l
  PROVE  /\ HasFields(Bare(l)) /\ Bare(l).symbol = l.symbol /\ Bare(l).side = l.side
         /\ Bare(l).strategy = l.strategy /\ Bare(l).pair = l.pair
         /\ \A y : (Apart(n, l, y) <=> Apart(n, Bare(l), y)) /\ (Apart(n, y, l) <=> Apart(n, y, Bare(l)))
  BY DEF Bare, HasFields, Apart

\* The two legs of a pair are each other's opposite.
LEMMA LegsOppose ==
  ASSUME NEW n, NEW x, NEW y, Fair(n, x), Fair(n, y), ~ApplyThreshold,
         x.strategy = "pairs", x.pair = y.pair, Matching(x, y)
  PROVE  Opposed(n, x, y)
  <1>1. Listed(n, x.pair)
    BY DEF Fair
  <1>2. x.pair # NoPair /\ x.pair \in ToSet(Loaded[n].pairs)
        /\ Homes[n][x.pair[1]].name = Homes[n][x.pair[2]].name
    BY <1>1 DEF Listed
  <1>3. y.strategy = "pairs"
    BY <1>2 DEF Fair
  <1>4. y.side = Opposite(x.side) /\ Joins(x.pair, x.symbol, y.symbol)
    BY <1>2 DEF Matching
  <1>5. QED
    BY <1>2, <1>3, <1>4 DEF Opposed

\* The invariant is kept when a job is sent.
LEMMA SendKeeps ==
  ASSUME FlowInv, phase = "cost", UNCHANGED gated, PassLeg, ~(Len(ready) + 1 < Len(Head(jobs)))
  PROVE  FlowInv'
  <1> DEFINE job == Head(jobs)
             n   == setup
             js  == Tail(jobs)
             st  == sent'
  <1>1. /\ JobSeqs(jobs) /\ JobsMade(n, jobs) /\ SentApart(n, sent, jobs)
        /\ SentAlone(n, sent) /\ (ApplyThreshold \/ SentWhole(n, sent)) /\ jobs # <<>> /\ Complete(job)
    BY AtReview DEF Reviewing, AtCost
  <1>2. /\ NextJob /\ job = jobs[1] /\ 1 \in 1..Len(jobs) /\ IsSeq(job)
        /\ \A x \in st : x \in sent \/ \E l \in 1..Len(job) : x = Bare(job[l])
        /\ \A x \in sent : x \in st
        /\ \A l \in 1..Len(job) : Bare(job[l]) \in st
    BY SendsJob
  <1>3. \A j \in 1..Len(js) : js[j] = jobs[j + 1] /\ j + 1 \in 1..Len(jobs) /\ j + 1 # 1
    BY <1>1, TailMade
  <1> HIDE DEF job, n, js, st
  <1>4. \A l \in 1..Len(job) : Fair(n, job[l])
    BY <1>1, <1>2 DEF JobsMade
  <1>5. \A l, q \in 1..Len(job) : l # q => Matching(job[l], job[q]) /\ Apart(n, job[l], job[q])
    BY <1>1, <1>2 DEF JobsMade
  <1>6. \A l \in 1..Len(job), j \in 1..Len(js) : \A q \in 1..Len(js[j]) : Apart(n, job[l], js[j][q])
    BY <1>1, <1>2, <1>3 DEF JobsMade
  <1>7. \A x \in sent : \A l \in 1..Len(job) : Apart(n, x, job[l]) /\ Apart(n, job[l], x)
    BY <1>1, <1>2 DEF SentApart, Apart
  <1>8. SentApart(n, st, js)
    <2>1. ASSUME NEW x \in sent, NEW j \in 1..Len(js), NEW q \in 1..Len(js[j]) PROVE Apart(n, x, js[j][q])
      BY <1>1, <1>3 DEF SentApart
    <2>2. ASSUME NEW l \in 1..Len(job), NEW j \in 1..Len(js), NEW q \in 1..Len(js[j])
          PROVE  Apart(n, Bare(job[l]), js[j][q])
      BY <1>6, BareIs
    <2>3. QED
      BY <1>2, <2>1, <2>2 DEF SentApart
  <1>9. SentAlone(n, st)
    <2>1. ASSUME NEW x \in st PROVE HasFields(x) /\ Traded(n, x.symbol)
      <3>1. CASE x \in sent
        BY <1>1, <3>1 DEF SentAlone
      <3>2. ASSUME NEW l \in 1..Len(job), x = Bare(job[l]) PROVE HasFields(x) /\ Traded(n, x.symbol)
        BY <1>4, <3>2, BareIs DEF Fair
      <3>3. QED
        BY <1>2, <3>1, <3>2
    <2>2. ASSUME NEW x \in st, NEW y \in st, x # y PROVE Apart(n, x, y)
      <3>1. CASE x \in sent /\ y \in sent
        BY <1>1, <2>2, <3>1 DEF SentAlone
      <3>2. ASSUME x \in sent, NEW l \in 1..Len(job), y = Bare(job[l]) PROVE Apart(n, x, y)
        BY <1>7, <3>2, BareIs
      <3>3. ASSUME y \in sent, NEW l \in 1..Len(job), x = Bare(job[l]) PROVE Apart(n, x, y)
        BY <1>7, <3>3, BareIs
      <3>4. ASSUME NEW l \in 1..Len(job), x = Bare(job[l]), NEW q \in 1..Len(job), y = Bare(job[q])
            PROVE  Apart(n, x, y)
        <4>1. l # q
          BY <2>2, <3>4
        <4>2. Apart(n, job[l], job[q])
          BY <1>5, <4>1
        <4>3. QED
          BY <3>4, <4>2, BareIs
      <3>5. QED
        BY <1>2, <3>1, <3>2, <3>3, <3>4
    <2>3. QED
      BY <2>1, <2>2 DEF SentAlone
  <1>10. ASSUME ~ApplyThreshold PROVE SentWhole(n, st)
    <2>1. ASSUME NEW x \in sent, x.strategy = "pairs" PROVE \E y \in st : Opposed(n, x, y)
      BY <1>1, <1>2, <1>10, <2>1 DEF SentWhole
    <2>2. ASSUME NEW l \in 1..Len(job), job[l].strategy = "pairs"
          PROVE  \E y \in st : Opposed(n, Bare(job[l]), y)
      <3>1. OneJob(job)
        BY <1>1, <1>2 DEF JobsMade
      <3>2. job[l].pair # NoPair
        BY <1>4, <1>10, <2>2 DEF Fair, Listed
      <3>3. IsPairLeg(job[1])
        <4>1. ASSUME ~IsPairLeg(job[1]) PROVE FALSE
          <5>1. Len(job) = 1
            BY <3>1, <4>1 DEF OneJob
          <5>2. l = 1
            BY <5>1
          <5>3. QED
            BY <3>2, <4>1, <5>2 DEF IsPairLeg
        <4>2. QED
          BY <4>1
      <3>4. Len(job) = 2 /\ \A q \in 1..Len(job) : job[q].pair = job[1].pair
        BY <1>1, <3>1, <3>3 DEF OneJob, Complete, IsPairJob
      <3> DEFINE q == 3 - l
      <3>5. q \in 1..Len(job) /\ q # l
        BY <3>4
      <3> HIDE DEF q
      <3>6. job[l].pair = job[q].pair /\ Matching(job[l], job[q])
        BY <1>5, <3>4, <3>5
      <3>7. Opposed(n, job[l], job[q])
        BY <1>4, <1>10, <2>2, <3>5, <3>6, LegsOppose
      <3>8. Opposed(n, Bare(job[l]), Bare(job[q]))
        BY <3>7, BareIs DEF Opposed
      <3>9. QED
        BY <1>2, <3>5, <3>8
    <2>3. ASSUME NEW x \in st, x.strategy = "pairs" PROVE \E y \in st : Opposed(n, x, y)
      <3>1. CASE x \in sent
        BY <2>1, <2>3, <3>1
      <3>2. ASSUME NEW l \in 1..Len(job), x = Bare(job[l]) PROVE \E y \in st : Opposed(n, x, y)
        <4>1. job[l].strategy = "pairs"
          BY <2>3, <3>2, BareIs
        <4>2. QED
          BY <2>2, <3>2, <4>1
      <3>3. QED
        BY <1>2, <3>1, <3>2
    <2>4. QED
      BY <2>3 DEF SentWhole
  <1>11. QED
    BY <1>1, <1>2, <1>8, <1>9, <1>10, NextKeeps DEF n, js, st, Reviewing
\* The invariant is kept by the review of risk.
LEMMA ReviewKeeps ==
  ASSUME FlowInv, SkipBrokenPair \/ RiskReview
  PROVE  FlowInv'
  <1>1. phase = "risk" /\ jobs # <<>> /\ UNCHANGED <<gated, sent>>
    BY DEF SkipBrokenPair, RiskReview
  <1>2. \/ NextJob
        \/ /\ Complete(Head(jobs)) /\ CallOk("Risk") /\ phase' = "cost" /\ UNCHANGED <<jobs, ready>>
    BY DEF SkipBrokenPair, RiskReview
  <1>3. CASE NextJob
    BY <1>1, <1>3, DropKeeps DEF Reviewing
  <1>4. CASE /\ Complete(Head(jobs)) /\ CallOk("Risk") /\ phase' = "cost" /\ UNCHANGED <<jobs, ready>>
    <2>1. /\ JobSeqs(jobs) /\ JobsMade(setup, jobs) /\ Halfway(jobs, ready) /\ SentApart(setup, sent, jobs)
          /\ SentAlone(setup, sent) /\ (ApplyThreshold \/ SentWhole(setup, sent))
      BY <1>1, AtReview DEF Reviewing
    <2>2. AtCost(jobs, opened)'
      BY <1>1, <1>4 DEF AtCost, CallOk
    <2>3. setup' = setup
      BY <1>1 DEF gated
    <2>4. Working(phase, setup, jobs, ready, sent, opened)'
      BY <1>1, <1>4, <2>1, <2>2, <2>3 DEF Working, Before, Arranging
    <2>5. QED
      BY <1>1, <1>4, <2>4, GateKeeps DEF Reviewing
  <1>5. QED
    BY <1>2, <1>3, <1>4

\* The invariant is kept by the cost gate.
LEMMA CostKeeps ==
  ASSUME FlowInv, CostGate
  PROVE  FlowInv'
  <1>1. phase = "cost" /\ UNCHANGED gated /\ (PassLeg \/ (NextJob /\ UNCHANGED sent))
    BY DEF CostGate
  <1>2. jobs # <<>>
    BY <1>1, AtReview DEF Reviewing, AtCost
  <1>3. CASE NextJob /\ UNCHANGED sent
    BY <1>1, <1>2, <1>3, DropKeeps DEF Reviewing
  <1>4. CASE PassLeg /\ Len(ready) + 1 < Len(Head(jobs))
    BY <1>1, <1>4, ReadyKeeps DEF PassLeg
  <1>5. CASE PassLeg /\ ~(Len(ready) + 1 < Len(Head(jobs)))
    BY <1>1, <1>5, SendKeeps
  <1>6. QED
    BY <1>1, <1>3, <1>4, <1>5

\* The invariant is kept where a run ends.
LEMMA EndKeeps ==
  ASSUME FlowInv, InfoRaises \/ Finish
  PROVE  FlowInv'
  <1>1. phase \in Reviewing /\ phase' \in {"done", "failed"} /\ UNCHANGED <<gated, jobs, ready, sent>>
    BY DEF InfoRaises, Finish, Reviewing
  <1>2. Working(phase, setup, jobs, ready, sent, opened)'
    BY <1>1, AtReview DEF Working, Before, Arranging, Reviewing, gated
  <1>3. QED
    BY <1>1, <1>2, GateKeeps

\* The invariant is kept by every step.
LEMMA StepKeeps == FlowInv /\ [Next]_vars => FlowInv'
  <1> SUFFICES ASSUME FlowInv, [Next]_vars PROVE FlowInv'
    OBVIOUS
  <1>1. CASE StartTask \/ WaitTimesOut \/ EndAnalysis \/ \E t \in Tasks : EndTask(t) \/ TaskRaises(t)
    BY <1>1, AnalysisKeeps
  <1>2. CASE LoadGates
    BY <1>2, GatesKeep
  <1>3. CASE ScanSymbol
    BY <1>3, SymbolKeeps
  <1>4. CASE ScanPair
    BY <1>4, PairKeeps
  <1>5. CASE Arbitrate \/ ScanRaises
    BY <1>5, ArbitrateKeeps
  <1>6. CASE Construct
    BY <1>6, ConstructKeeps
  <1>7. CASE Adapt
    BY <1>7, AdaptKeeps
  <1>8. CASE Vote
    BY <1>8, VoteKeeps
  <1>9. CASE Decide
    BY <1>9, DecideKeeps
  <1>10. CASE StateRaises
    BY <1>10, StateKeeps
  <1>11. CASE SkipBrokenPair \/ RiskReview
    BY <1>11, ReviewKeeps
  <1>12. CASE CostGate
    BY <1>12, CostKeeps
  <1>13. CASE InfoRaises \/ Finish
    BY <1>13, EndKeeps
  <1>14. CASE Ended \/ UNCHANGED vars
    BY <1>14 DEF Ended, vars, FlowInv
  <1>15. QED
    BY <1>1, <1>2, <1>3, <1>4, <1>5, <1>6, <1>7, <1>8, <1>9, <1>10, <1>11, <1>12, <1>13, <1>14
       DEF Next, Run

\* The invariant of the run: its phase, its settings, the pool of the analysis,
\* what is left of the signals, and the jobs and the legs sent.
THEOREM FlowInvariant == Spec => []FlowInv
  <1>1. Init => FlowInv
    BY FlowBegins
  <1>2. FlowInv /\ [Next]_vars => FlowInv'
    BY StepKeeps
  <1>3. QED
    BY <1>1, <1>2, PTL DEF Spec

-----------------------------------------------------------------------------
(* What the run promises                                                   *)

\* Once the circuit of the risk review is open, no leg is handed to execution:
\* a leg gets to the cost gate only by an answer of the review.
THEOREM FlowRiskFailsClosed == Spec => RiskFailsClosed
  <1>1. ASSUME FlowInv, [Next]_vars, "Risk" \in opened PROVE sent' = sent
    <2>1. phase # "cost"
      BY <1>1, AtReview DEF Reviewing, AtCost
    <2>2. ~CostGate
      BY <2>1 DEF CostGate
    <2>3. CASE StartTask \/ WaitTimesOut \/ \E t \in Tasks : EndTask(t) \/ TaskRaises(t)
      BY <2>3 DEF StartTask, WaitTimesOut, EndTask, TaskRaises, analysing
    <2>4. CASE EndAnalysis \/ LoadGates \/ ScanSymbol \/ ScanPair \/ Arbitrate \/ ScanRaises
      BY <2>4 DEF EndAnalysis, LoadGates, ScanSymbol, ScanPair, Arbitrate, ScanRaises, settled
    <2>5. CASE Construct \/ Adapt \/ Vote \/ Decide \/ StateRaises
      BY <2>5 DEF Construct, Adapt, Vote, Decide, StateRaises, shaped, settled
    <2>6. CASE SkipBrokenPair \/ RiskReview \/ InfoRaises \/ Finish
      BY <2>6 DEF SkipBrokenPair, RiskReview, InfoRaises, Finish
    <2>7. CASE Ended \/ UNCHANGED vars
      BY <2>7 DEF Ended, vars
    <2>8. QED
      BY <1>1, <2>2, <2>3, <2>4, <2>5, <2>6, <2>7 DEF Next, Run
  <1>2. FlowInv /\ [Next]_vars => [("Risk" \in opened) => sent' = sent]_vars
    BY <1>1
  <1>3. QED
    BY <1>2, FlowInvariant, PTL DEF Spec, RiskFailsClosed

\* No symbol is entered for a pair and on its own, and in the modes that choose
\* between rivals no symbol is entered twice: entries that are sent are apart from
\* each other, and from all that are still to come.
THEOREM FlowRivals == Spec => []RivalsAreArbitrated
  <1>1. FlowInv => RivalsAreArbitrated
    <2> SUFFICES ASSUME FlowInv, NEW x \in sent, NEW y \in sent, x.symbol = y.symbol
                 PROVE  /\ x.strategy = "pairs" <=> y.strategy = "pairs"
                        /\ config.mode # "veto" => x = y
      BY DEF RivalsAreArbitrated
    <2>1. x # y => Apart(setup, x, y)
      BY DEF FlowInv, Working, SentAlone
    <2>2. QED
      BY <2>1 DEF Apart, config
  <1>2. QED
    BY <1>1, FlowInvariant, PTL

\* Both legs of a pair are sent or none, as long as the adaptation, which drops
\* the pair a leg belongs to, is off.
THEOREM FlowPairsAreWhole ==
  ASSUME ~ApplyThreshold
  PROVE  Spec => []PairsAreWhole
  <1>1. FlowInv => PairsAreWhole
    <2> SUFFICES ASSUME FlowInv, NEW x \in sent, x.strategy = "pairs"
                 PROVE  \E y \in sent :
                          /\ y.strategy = "pairs" /\ y.side = Opposite(x.side)
                          /\ {<<x.symbol, y.symbol>>, <<y.symbol, x.symbol>>}
                                 \intersect ToSet(config.pairs) # {}
                          /\ Home(x.symbol).name = Home(y.symbol).name
      BY DEF PairsAreWhole
    <2>1. PICK y \in sent : Opposed(setup, x, y)
      BY DEF FlowInv, Working, SentWhole
    <2>2. y.strategy = "pairs" /\ y.side = Opposite(x.side)
      BY <2>1 DEF Opposed
    <2>3. PICK p \in ToSet(Loaded[setup].pairs) :
             Joins(p, x.symbol, y.symbol) /\ Homes[setup][p[1]].name = Homes[setup][p[2]].name
      BY <2>1 DEF Opposed
    <2>4. p = <<x.symbol, y.symbol>> \/ p = <<y.symbol, x.symbol>>
      BY <2>3 DEF Joins
    <2>5. {<<x.symbol, y.symbol>>, <<y.symbol, x.symbol>>} \intersect ToSet(config.pairs) # {}
      BY <2>3, <2>4 DEF config
    <2>6. Homes[setup][x.symbol].name = Homes[setup][y.symbol].name
      BY <2>3, <2>4
    <2>7. QED
      BY <2>2, <2>5, <2>6 DEF Home
  <1>2. QED
    BY <1>1, FlowInvariant, PTL
\* What is left of a stage.
LEMMA LeftIs ==
  /\ phase = "analysis" => Left = 2 * Len(queue) + Cardinality(flying) + (IF late THEN 0 ELSE 1)
  /\ phase = "scan" => Left = Len(scan) + Len(config.pairs) + 1 - cursor
  /\ phase \in {"risk", "cost"} /\ jobs # <<>> =>
        Left = 2 * (Len(Head(jobs)) - Len(ready)) + (IF phase = "cost" THEN 0 ELSE 1)
  BY DEF Left

Closer ==
  \/ Stage' < Stage
  \/ Stage' = Stage /\ Len(jobs') < Len(jobs)
  \/ Stage' = Stage /\ Len(jobs') = Len(jobs) /\ Left' \in 0..Left - 1

\* The tasks of the analysis are started and ended, one by one.
LEMMA AnalysisCloser ==
  ASSUME FlowInv, StartTask \/ WaitTimesOut \/ \E t \in Tasks : EndTask(t) \/ TaskRaises(t)
  PROVE  Closer
  <1> DEFINE late0 == IF late THEN 0 ELSE 1
             late1 == IF late' THEN 0 ELSE 1
             L  == Len(queue)
             L1 == Len(queue')
             C  == Cardinality(flying)
             C1 == Cardinality(flying')
  <1>1. Pool(phase, queue, flying, late) /\ late \in BOOLEAN /\ IsFiniteSet(flying)
    BY DEF FlowInv, Pool
  <1>2. L \in Nat /\ C \in Nat
    BY <1>1, SeqFacts, FS_CardinalityType DEF Pool
  <1>3. /\ phase = "analysis" /\ UNCHANGED <<phase, jobs>> /\ L1 \in Nat /\ C1 \in Nat
        /\ late0 \in 0..1 /\ late1 \in 0..1
        /\ \/ L1 = L - 1 /\ C1 \in {C, C + 1} /\ late1 = late0
           \/ L1 = L /\ C1 = C - 1 /\ late1 = late0
           \/ L1 = L /\ C1 = C /\ late0 = 1 /\ late1 = 0
    <2>1. CASE StartTask
      <3>1. queue # <<>> /\ queue' = Tail(queue) /\ UNCHANGED <<phase, jobs, late>> /\ phase = "analysis"
            /\ (flying' = flying \/ flying' = flying \union {Head(queue)})
        BY <2>1 DEF StartTask, analysing
      <3>2. Len(Tail(queue)) = L - 1 /\ L # 0
        BY <1>1, <3>1, TailSeq, SeqFacts DEF Pool
      <3>3. C1 \in {C, C + 1}
        <4>1. Cardinality(flying \union {Head(queue)}) \in {C, C + 1}
          BY <1>1, FS_AddElement DEF Pool
        <4>2. QED
          BY <3>1, <4>1
      <3>4. late0 \in 0..1 /\ late1 = late0
        BY <1>1, <3>1
      <3>5. L1 = L - 1 /\ L1 \in Nat /\ C1 \in Nat
        BY <1>2, <3>1, <3>2, <3>3
      <3> HIDE DEF L, L1, C, C1, late0, late1
      <3>6. QED
        BY <3>1, <3>3, <3>4, <3>5
    <2>2. CASE WaitTimesOut
      BY <1>1, <1>2, <2>2 DEF WaitTimesOut, analysing
    <2>3. ASSUME NEW t \in Tasks, EndTask(t) \/ TaskRaises(t)
          PROVE  /\ phase = "analysis" /\ UNCHANGED <<phase, jobs, late>> /\ L1 = L
                 /\ C1 = C - 1 /\ C1 \in Nat
      <3>1. UNCHANGED <<queue, late, phase, jobs>> /\ t \in flying /\ flying' = flying \ {t} /\ phase = "analysis"
        BY <2>3, PoolEnds DEF analysing
      <3>2. C1 = C - 1 /\ IsFiniteSet(flying \ {t})
        BY <1>1, <3>1, FS_RemoveElement DEF Pool
      <3>3. C1 \in Nat
        BY <3>1, <3>2, FS_CardinalityType
      <3>4. QED
        BY <3>1, <3>2, <3>3
    <2>4. CASE \E t \in Tasks : EndTask(t) \/ TaskRaises(t)
      BY <1>1, <1>2, <2>3, <2>4
    <2>5. QED
      BY <2>1, <2>2, <2>4
  <1>4. Left = 2 * L + C + late0
    BY <1>3, LeftIs
  <1>5. Left' = 2 * L1 + C1 + late1
    BY <1>3 DEF Left
  <1> HIDE DEF L, L1, C, C1, late0, late1
  <1>6. Left' \in 0..Left - 1
    BY <1>2, <1>3, <1>4, <1>5
  <1>7. QED
    BY <1>3, <1>6 DEF Closer, Stage

\* The scan moves on.
LEMMA ScanCloser ==
  ASSUME FlowInv, ScanSymbol \/ ScanPair
  PROVE  Closer
  <1>1. /\ phase = "scan" /\ cursor' = cursor + 1 /\ UNCHANGED <<phase, setup, jobs>>
        /\ cursor <= Len(scan) \/ cursor \in Len(scan) + 1 .. Len(scan) + Len(config.pairs)
    BY DEF ScanSymbol, ScanPair, settled
  <1>2. setup \in DOMAIN Loaded /\ cursor \in Nat \ {0}
    BY <1>1 DEF FlowInv, Begun, Signalled
  <1>3. Len(scan) \in Nat /\ Len(config.pairs) \in Nat
    BY <1>2, ScanIs, SeqFacts, PairsOfSettings DEF scan, config
  <1>4. Left = Len(scan) + Len(config.pairs) + 1 - cursor
    BY <1>1, LeftIs
  <1>5. Left' = Len(scan) + Len(config.pairs) + 1 - cursor'
    BY <1>1 DEF Left, scan, config
  <1> DEFINE a == Len(scan)
             b == Len(config.pairs)
  <1>6. cursor <= a + b /\ a \in Nat /\ b \in Nat
    BY <1>1, <1>2, <1>3
  <1>7. Left' \in 0..Left - 1
    <2>1. Left = a + b + 1 - cursor /\ Left' = a + b + 1 - (cursor + 1)
      BY <1>1, <1>4, <1>5
    <2> HIDE DEF a, b
    <2>2. QED
      BY <1>2, <1>6, <2>1
  <1>8. QED
    BY <1>1, <1>7 DEF Closer, Stage

\* A leg is reviewed, or passes, or its job is over.
LEMMA ReviewCloser ==
  ASSUME FlowInv, SkipBrokenPair \/ RiskReview \/ CostGate
  PROVE  Closer
  <1> DEFINE rest == Len(Head(jobs)) - Len(ready)
  <1>1. phase \in Reviewing
    BY DEF SkipBrokenPair, RiskReview, CostGate, Reviewing
  <1>2. JobSeqs(jobs) /\ Halfway(jobs, ready) /\ jobs # <<>>
    BY <1>1, AtReview DEF SkipBrokenPair, RiskReview, CostGate, AtCost
  <1>3. IsSeq(Head(jobs)) /\ Len(Head(jobs)) \in Nat /\ Len(jobs) \in Nat /\ Len(Tail(jobs)) = Len(jobs) - 1
    <2>1. Head(jobs) = jobs[1] /\ 1 \in 1..Len(jobs) /\ Len(Tail(jobs)) = Len(jobs) - 1
      BY <1>2, TailMade
    <2>2. QED
      BY <1>2, <2>1, SeqFacts DEF JobSeqs
  <1>4. Len(ready) \in Nat /\ Len(ready) < Len(Head(jobs)) /\ IsSeq(ready)
    BY <1>2, SeqFacts DEF Halfway
  <1>5. rest \in Nat \ {0}
    BY <1>3, <1>4
  <1>6. Left = 2 * rest + (IF phase = "cost" THEN 0 ELSE 1)
    BY <1>1, <1>2, LeftIs DEF Reviewing
  <1>7. Stage = 1 /\ (phase' \in Reviewing => Stage' = 1)
    BY <1>1 DEF Stage, Stages, Reviewing
  <1>8. \/ NextJob
        \/ phase = "risk" /\ phase' = "cost" /\ UNCHANGED <<jobs, ready>>
        \/ /\ phase = "cost" /\ phase' = "risk" /\ jobs' = jobs
           /\ ready' = Append(ready, Leg) /\ Len(ready) + 1 < Len(Head(jobs))
    BY DEF SkipBrokenPair, RiskReview, CostGate, PassLeg
  <1>9. CASE NextJob
    BY <1>3, <1>7, <1>9 DEF NextJob, Closer, Reviewing
  <1>10. CASE phase = "risk" /\ phase' = "cost" /\ UNCHANGED <<jobs, ready>>
    <2>1. Left' = 2 * rest
      BY <1>2, <1>10 DEF Left
    <2>2. Left = 2 * rest + 1
      BY <1>6, <1>10
    <2> HIDE DEF rest
    <2>3. Left' \in 0..Left - 1
      BY <1>5, <2>1, <2>2
    <2>4. QED
      BY <1>7, <1>10, <2>3 DEF Closer, Reviewing
  <1>11. CASE /\ phase = "cost" /\ phase' = "risk" /\ jobs' = jobs
              /\ ready' = Append(ready, Leg) /\ Len(ready) + 1 < Len(Head(jobs))
    <2>1. Len(ready') = Len(ready) + 1
      <3> DEFINE E == {ready[i] : i \in 1..Len(ready)} \union {Leg}
      <3>1. ready \in Seq({ready[i] : i \in 1..Len(ready)})
        BY <1>4 DEF IsSeq
      <3>2. ready \in Seq(E) /\ Leg \in E
        BY <3>1, SeqMonotonic
      <3> HIDE DEF E
      <3>3. Len(Append(ready, Leg)) = Len(ready) + 1
        BY <3>2, AppendProperties
      <3>4. QED
        BY <1>11, <3>3
    <2>2. Left' = 2 * (Len(Head(jobs)) - Len(ready')) + 1
      BY <1>2, <1>11 DEF Left
    <2>3. Left = 2 * rest
      BY <1>6, <1>11
    <2>4. Left' \in 0..Left - 1
      BY <1>3, <1>4, <1>11, <2>1, <2>2, <2>3
    <2>5. QED
      BY <1>7, <1>11, <2>4 DEF Closer, Reviewing
  <1>12. QED
    BY <1>8, <1>9, <1>10, <1>11

\* Every step brings the run closer to its end.
THEOREM FlowComesToAnEnd == Spec => ComesToAnEnd
  <1>1. ASSUME FlowInv, Next, ~UNCHANGED vars PROVE Closer
    <2>1. CASE StartTask \/ WaitTimesOut \/ \E t \in Tasks : EndTask(t) \/ TaskRaises(t)
      BY <1>1, <2>1, AnalysisCloser
    <2>2. CASE ScanSymbol \/ ScanPair
      BY <1>1, <2>2, ScanCloser
    <2>3. CASE SkipBrokenPair \/ RiskReview \/ CostGate
      BY <1>1, <2>3, ReviewCloser
    <2>4. CASE EndAnalysis \/ LoadGates \/ Arbitrate \/ ScanRaises
      BY <2>4 DEF EndAnalysis, LoadGates, Arbitrate, ScanRaises, Closer, Stage, Stages
    <2>5. CASE Construct \/ Adapt \/ Vote \/ Decide \/ StateRaises
      BY <2>5 DEF Construct, Adapt, Vote, Decide, StateRaises, Closer, Stage, Stages
    <2>6. CASE InfoRaises \/ Finish
      BY <2>6 DEF InfoRaises, Finish, Closer, Stage, Stages
    <2>7. ~Ended
      BY <1>1 DEF Ended
    <2>8. QED
      BY <1>1, <2>1, <2>2, <2>3, <2>4, <2>5, <2>6, <2>7 DEF Next, Run
  <1>2. FlowInv /\ [Next]_vars => [Closer]_vars
    BY <1>1
  <1>3. FlowInv /\ [Next]_vars =>
          [\/ Stage' < Stage
           \/ Stage' = Stage /\ Len(jobs') < Len(jobs)
           \/ Stage' = Stage /\ Len(jobs') = Len(jobs) /\ Left' \in 0..Left - 1]_vars
    BY <1>2 DEF Closer
  <1>4. QED
    BY <1>3, FlowInvariant, PTL DEF Spec, ComesToAnEnd
-----------------------------------------------------------------------------
(* The settings a run trades with                                          *)

\* An entry of a section of the merged settings is the one of the local file,
\* if it has it, and else the one of the base file.  Only where both have a
\* table there, the tables are merged.
LEMMA MergedEntry ==
  ASSUME NEW b, NEW l, NEW sec, NEW key, IsMapping(Section(DeepMerge(b, l), sec))
  PROVE  LET m == Section(DeepMerge(b, l), sec)
         IN  /\ Says(l, sec, key) =>
                  /\ key \in DOMAIN m
                  /\ \/ m[key] = l[sec][key]
                     \/ /\ IsMapping(m[key]) /\ IsMapping(l[sec][key])
                        /\ DOMAIN l[sec][key] \subseteq DOMAIN m[key]
             /\ ~Says(l, sec, key) /\ Says(b, sec, key) => key \in DOMAIN m /\ m[key] = b[sec][key]
             /\ ~Says(l, sec, key) /\ ~Says(b, sec, key) => key \notin DOMAIN m
  <1> DEFINE doc == DeepMerge(b, l)
             m   == Section(doc, sec)
             both == MergeSections(b[sec], l[sec])
             table == MergeTables(b[sec][key], l[sec][key])
  <1>1. /\ sec \in DOMAIN doc <=> sec \in DOMAIN b \/ sec \in DOMAIN l
        /\ sec \notin DOMAIN l /\ sec \in DOMAIN b => doc[sec] = b[sec]
        /\ sec \in DOMAIN l /\ sec \notin DOMAIN b => doc[sec] = l[sec]
        /\ sec \in DOMAIN l /\ sec \in DOMAIN b =>
              doc[sec] = IF IsMapping(b[sec]) /\ IsMapping(l[sec]) THEN both ELSE l[sec]
    BY DEF DeepMerge, MergeWith
  <1>2. /\ key \in DOMAIN both <=> key \in DOMAIN b[sec] \/ key \in DOMAIN l[sec]
        /\ key \notin DOMAIN l[sec] /\ key \in DOMAIN b[sec] => both[key] = b[sec][key]
        /\ key \in DOMAIN l[sec] /\ key \notin DOMAIN b[sec] => both[key] = l[sec][key]
        /\ key \in DOMAIN l[sec] /\ key \in DOMAIN b[sec] =>
              both[key] = IF IsMapping(b[sec][key]) /\ IsMapping(l[sec][key]) THEN table ELSE l[sec][key]
    BY DEF MergeSections, MergeWith
  <1>3. DOMAIN table = DOMAIN b[sec][key] \union DOMAIN l[sec][key]
    BY DEF MergeTables, MergeWith
  <1>4. IsMapping(b[sec][key]) /\ IsMapping(l[sec][key]) => IsMapping(table)
    BY <1>3 DEF IsMapping
  <1>5. /\ sec \in DOMAIN doc => m = doc[sec]
        /\ sec \notin DOMAIN doc => DOMAIN m = {}
    BY DEF Section, Nothing
  <1>6. IsMapping(m)
    OBVIOUS
  <1> HIDE DEF doc, m, both, table
  <1>7. CASE sec \in DOMAIN l /\ sec \in DOMAIN b /\ IsMapping(b[sec]) /\ IsMapping(l[sec])
    <2>1. m = both
      BY <1>1, <1>5, <1>7
    <2>2. QED
      BY <1>2, <1>3, <1>4, <1>7, <2>1 DEF Says, m, doc
  <1>8. CASE sec \in DOMAIN l /\ ~(sec \in DOMAIN b /\ IsMapping(b[sec]) /\ IsMapping(l[sec]))
    <2>1. m = l[sec]
      BY <1>1, <1>5, <1>8
    <2>2. QED
      BY <1>6, <1>8, <2>1 DEF Says, m, doc
  <1>9. CASE sec \notin DOMAIN l /\ sec \in DOMAIN b
    <2>1. m = b[sec]
      BY <1>1, <1>5, <1>9
    <2>2. QED
      BY <1>6, <1>9, <2>1 DEF Says, m, doc
  <1>10. CASE sec \notin DOMAIN l /\ sec \notin DOMAIN b
    BY <1>1, <1>5, <1>10 DEF Says, m, doc
  <1>11. QED
    BY <1>7, <1>8, <1>9, <1>10

SaidBy(b, l, sec, key) ==
  IF Says(l, sec, key) THEN {l[sec][key]} ELSE IF Says(b, sec, key) THEN {b[sec][key]} ELSE {}

\* What the files say decides what the settings say: an entry that is missing,
\* a flag that is a no, or a text.
LEMMA SaidDecides ==
  ASSUME NEW b, NEW l, NEW sec, NEW key, NEW default, IsMapping(Section(DeepMerge(b, l), sec))
  PROVE  /\ SaidBy(b, l, sec, key) = {} => Setting(Section(DeepMerge(b, l), sec), key, default) = default
         /\ Truth(default) /\ ~Truth(Setting(Section(DeepMerge(b, l), sec), key, default))
               => SaidNo(SaidBy(b, l, sec, key))
         /\ \A text : ~IsMapping(text) /\ SaidBy(b, l, sec, key) = {text}
               => Setting(Section(DeepMerge(b, l), sec), key, default) = text
  <1> DEFINE m    == Section(DeepMerge(b, l), sec)
             got  == Setting(m, key, default)
             said == SaidBy(b, l, sec, key)
  <1>1. /\ Says(l, sec, key) =>
             /\ key \in DOMAIN m
             /\ \/ m[key] = l[sec][key]
                \/ /\ IsMapping(m[key]) /\ IsMapping(l[sec][key])
                   /\ DOMAIN l[sec][key] \subseteq DOMAIN m[key]
        /\ ~Says(l, sec, key) /\ Says(b, sec, key) => key \in DOMAIN m /\ m[key] = b[sec][key]
        /\ ~Says(l, sec, key) /\ ~Says(b, sec, key) => key \notin DOMAIN m
    BY MergedEntry
  <1> HIDE DEF m
  <1>2. key \in DOMAIN m => got = m[key]
    BY DEF Setting
  <1>3. key \notin DOMAIN m => got = default
    BY DEF Setting
  <1> HIDE DEF got
  <1>4. CASE Says(l, sec, key)
    <2> DEFINE e == l[sec][key]
    <2>1. said = {e}
      BY <1>4 DEF SaidBy
    <2>2. got = e \/ (IsMapping(got) /\ IsMapping(e) /\ DOMAIN e \subseteq DOMAIN got)
      BY <1>1, <1>2, <1>4
    <2> HIDE DEF e, said
    <2>3. ~Truth(got) => ~Truth(e)
      BY <2>2 DEF Truth
    <2>4. QED
      BY <2>1, <2>2, <2>3 DEF SaidNo, said, got, m
  <1>5. CASE ~Says(l, sec, key) /\ Says(b, sec, key)
    <2> DEFINE e == b[sec][key]
    <2>1. said = {e} /\ got = e
      BY <1>1, <1>2, <1>5 DEF SaidBy
    <2> HIDE DEF e, said
    <2>2. QED
      BY <2>1 DEF SaidNo, said, got, m
  <1>6. CASE ~Says(l, sec, key) /\ ~Says(b, sec, key)
    <2>1. said = {} /\ got = default
      BY <1>1, <1>3, <1>6 DEF SaidBy
    <2> HIDE DEF said
    <2>2. QED
      BY <2>1 DEF said, got, m
  <1>7. QED
    BY <1>4, <1>5, <1>6

\* Orders are for real, or on an account that is no demo account, only where a
\* file says so itself, and what is traded is named and may be traded.
THEOREM FlowTradesAsConfigured == Spec => []TradesAsConfigured
  <1> DEFINE base  == LoadYaml(Setups[setup].base)
             local == LoadYaml(Setups[setup].local)
             doc   == DeepMerge(base, local)
  <1>1. ASSUME FlowInv
        PROVE  /\ ValidateStage(config) /\ MayConnect(config, login)
               /\ config = AppConfig(doc) /\ Shaped(doc)
    <2>1. Begun(setup, login)
      BY <1>1 DEF FlowInv
    <2>2. setup \in {m \in DOMAIN Setups : Loads(Setups[m])} /\ config = LoadConfig(Setups[setup])
      BY <2>1 DEF Begun, Loaded, config
    <2>3. QED
      BY <2>1, <2>2 DEF Begun, config, LoadConfig, Loads, Valid, Merged
  <1>0. ASSUME NEW sec, NEW key, NEW default, IsMapping(Section(doc, sec))
        PROVE  /\ Said(sec, key) = {} => Setting(Section(doc, sec), key, default) = default
               /\ Truth(default) /\ ~Truth(Setting(Section(doc, sec), key, default)) => SaidNo(Said(sec, key))
               /\ \A text : ~IsMapping(text) /\ Said(sec, key) = {text} =>
                     Setting(Section(doc, sec), key, default) = text
    <2>1. Said(sec, key) = SaidBy(base, local, sec, key)
      BY DEF Said, SaidBy
    <2> HIDE DEF base, local
    <2>2. QED
      BY <1>0, <2>1, SaidDecides
  <1> HIDE DEF doc
  <1>2. ASSUME FlowInv
        PROVE  /\ IsMapping(Section(doc, "trading")) /\ IsMapping(Section(doc, "project"))
               /\ IsMapping(Section(doc, "mt5")) /\ IsMapping(Section(doc, "broker"))
    <2>1. {"trading", "project", "mt5", "broker"} \subseteq DOMAIN Required \ DOMAIN Parent
      BY DEF Required, Parent
    <2>2. QED
      BY <1>1, <1>2, <2>1 DEF Shaped
  <1>3. ASSUME FlowInv, ~config.dryRun
        PROVE  /\ SaidNo(Said("trading", "dry_run"))
               /\ Said("project", "graduation_stage") \notin {{}, {Text("paper")}}
    <2>1. ~Truth(Setting(Section(doc, "trading"), "dry_run", Flag(TRUE)))
      <3>1. config.dryRun = DryRun(doc)
        BY <1>1, <1>3 DEF AppConfig
      <3>2. ~DryRun(doc)
        BY <1>3, <3>1
      <3>3. QED
        BY <3>2 DEF DryRun
    <2>2. Truth(Flag(TRUE))
      BY DEF Truth, Flag, Leaf, IsMapping
    <2>3. SaidNo(Said("trading", "dry_run"))
      BY <1>2, <1>3, <2>1, <2>2, <1>0
    <2>4. Setting(Section(doc, "project"), "graduation_stage", Text("paper")).value # "paper"
      BY <1>1, <1>3 DEF AppConfig, StageOf, ValidateStage
    <2>5. ~IsMapping(Text("paper")) /\ Text("paper").value = "paper"
      BY DEF Text, Leaf, IsMapping
    <2>6. Said("project", "graduation_stage") \notin {{}, {Text("paper")}}
      BY <1>2, <1>3, <2>4, <2>5, <1>0
    <2>7. QED
      BY <2>3, <2>6
  <1>4. ASSUME FlowInv, ~IsDemoAccount(login)
        PROVE  /\ SaidNo(Said("mt5", "require_demo"))
               /\ Said("broker", "account_type") \notin {{}, {Text("demo")}}
    <2>1. ~config.requireDemo /\ config.accountType # "demo"
      BY <1>1, <1>4 DEF MayConnect
    <2>2. ~Truth(Setting(Section(doc, "mt5"), "require_demo", Flag(TRUE)))
      <3>1. config.requireDemo = RequireDemo(doc)
        BY <1>1, <1>4 DEF AppConfig
      <3>2. ~RequireDemo(doc)
        BY <2>1, <3>1
      <3>3. QED
        BY <3>2 DEF RequireDemo
    <2>3. Truth(Flag(TRUE))
      BY DEF Truth, Flag, Leaf, IsMapping
    <2>4. SaidNo(Said("mt5", "require_demo"))
      BY <1>2, <1>4, <2>2, <2>3, <1>0
    <2>5. Setting(Section(doc, "broker"), "account_type", Text("demo")).value # "demo"
      BY <1>1, <1>4, <2>1 DEF AppConfig, AccountType
    <2>6. ~IsMapping(Text("demo")) /\ Text("demo").value = "demo"
      BY DEF Text, Leaf, IsMapping
    <2>7. Said("broker", "account_type") \notin {{}, {Text("demo")}}
      BY <1>2, <1>4, <2>5, <2>6, <1>0
    <2>8. QED
      BY <2>4, <2>7
  <1>5. ASSUME FlowInv, NEW x \in sent
        PROVE  /\ x.symbol \in ToSet(config.symbols) \union ToSet(Setups[setup].requested)
               /\ Home(x.symbol).tradeable
    BY <1>5 DEF FlowInv, Working, SentAlone, Traded, Named, config, Home
  <1>6. FlowInv => TradesAsConfigured
    BY <1>3, <1>4, <1>5 DEF TradesAsConfigured
  <1>7. QED
    BY <1>6, FlowInvariant, PTL

-----------------------------------------------------------------------------
(* Worse never trades more                                                 *)

\* A quotient is the number it is a quotient of, but for a remainder.
LEMMA Quotients ==
  ASSUME NEW a \in Nat, NEW b \in Nat, b > 0
  PROVE  /\ a \div b \in Nat
         /\ b * (a \div b) <= a
         /\ a < b * ((a \div b) + 1)
  BY SMT

\* A product of numbers grows with each of them.
LEMMA ProductsGrow ==
  ASSUME NEW a \in Nat, NEW b \in Nat, NEW c \in Nat, NEW d \in Nat, a <= c, b <= d
  PROVE  a * b \in Nat /\ c * d \in Nat /\ a * b <= c * d
  <1>1. PICK e \in Nat : c = a + e
    <2>1. c - a \in Nat /\ c = a + (c - a)
      BY SMT
    <2>2. QED
      BY <2>1
  <1>2. PICK f \in Nat : d = b + f
    <2>1. d - b \in Nat /\ d = b + (d - b)
      BY SMT
    <2>2. QED
      BY <2>1
  <1>3. c * d = a * b + (a * f + e * b + e * f)
    BY <1>1, <1>2, SMT
  <1>4. a * b \in Nat /\ a * f \in Nat /\ e * b \in Nat /\ e * f \in Nat
    BY SMT
  <1>5. QED
    BY <1>3, <1>4, SMT

\* A quotient falls with what it is divided by, and grows with what is divided.
LEMMA QuotientFalls ==
  ASSUME NEW a \in Nat, NEW b \in Nat, NEW c \in Nat, b > 0, b <= c
  PROVE  a \div c <= a \div b
  <1> DEFINE p == a \div b
             q == a \div c
  <1>1. p \in Nat /\ q \in Nat /\ c * q <= a /\ a < b * (p + 1)
    BY Quotients, SMT
  <1> HIDE DEF p, q
  <1>2. ASSUME p + 1 <= q PROVE FALSE
    <2>1. b * (p + 1) <= c * q
      BY <1>1, <1>2, ProductsGrow, p + 1 \in Nat
    <2>2. QED
      BY <1>1, <2>1, b * (p + 1) \in Nat, c * q \in Nat, SMT
  <1>3. q <= p
    BY <1>1, <1>2, SMT
  <1>4. QED
    BY <1>3 DEF p, q

-----------------------------------------------------------------------------
(* Pairs                                                                   *)

\* A volatile relation is entered further out and with less strength than a stable one.
LEMMA VolatileIsWeaker ==
  ASSUME NEW z \in ZScores
  PROVE  /\ 0 <= PairStrength(z, ZEntry, "r2_volatile_mr")
         /\ PairStrength(z, ZEntry, "r2_volatile_mr") <= PairStrength(z, ZEntry, "r1_stable_mr")
         /\ PairStrength(z, ZEntry, "r1_stable_mr") \in Int
         /\ PairStrength(z, ZEntry, "r2_volatile_mr") \in Int
  <1> DEFINE y == Abs(z)
             near == (ZEntry * 4) \div 4
             far == (ZEntry * 5) \div 4
             steep == (20 * y) \div (2 * near)
             flat == (20 * y) \div (2 * far)
             Whole(base) == IF base > 20 THEN 20 ELSE base
             Full(base) == IF Whole(base) < 6 THEN 6 ELSE Whole(base)
  <1>1. /\ EntryMult["r1_stable_mr"] = 4 /\ EntryMult["r2_volatile_mr"] = 5
        /\ SizeScale["r1_stable_mr"] = 2 /\ SizeScale["r2_volatile_mr"] = 1
    BY DEF EntryMult, SizeScale, PairRegimes
  <1>2. (3 * FullStrength) \div 10 = 6 /\ FullStrength = 20
    BY SMT DEF FullStrength
  <1>3. y \in Nat /\ ZEntry \in Nat /\ ZEntry > 0
    BY GradesAssumption, SMT DEF Abs
  <1>4. PairStrength(z, ZEntry, "r1_stable_mr") = IF y < near THEN 0 ELSE (Full(steep) * 2) \div 2
    BY <1>1, <1>2 DEF PairStrength
  <1>5. PairStrength(z, ZEntry, "r2_volatile_mr") = IF y < far THEN 0 ELSE (Full(flat) * 1) \div 2
    BY <1>1, <1>2 DEF PairStrength
  <1> HIDE DEF y
  <1>6. near = ZEntry /\ far \in Nat /\ near <= far
    BY <1>3, SMT
  <1> HIDE DEF near, far
  <1>7. flat <= steep /\ flat \in Nat /\ steep \in Nat
    <2>1. 20 * y \in Nat /\ 2 * near \in Nat /\ 2 * far \in Nat /\ 2 * near > 0 /\ 2 * near <= 2 * far
      BY <1>3, <1>6, SMT
    <2>2. 2 * far > 0
      BY <2>1, SMT
    <2>3. QED
      BY <2>1, <2>2, QuotientFalls, Quotients
  <1> HIDE DEF flat, steep
  <1>8. Full(flat) \in Nat /\ Full(steep) \in Nat /\ Full(flat) <= Full(steep)
    BY <1>7, SMT
  <1> HIDE DEF Full
  <1>9. QED
    BY <1>3, <1>4, <1>5, <1>6, <1>8, SMT

\* What gets worse stays barred, and a volatile relation does not get stable.
LEMMA HealthFalls ==
  ASSUME NEW m \in Spreads, NEW n \in Spreads, WorseSpread(n, m), NEW legs,
         ClassifyPairHealth(n, legs) \in EntryAllowed
  PROVE  /\ ClassifyPairHealth(m, legs) \in EntryAllowed
         /\ ClassifyPairHealth(m, legs) = "r2_volatile_mr" => ClassifyPairHealth(n, legs) = "r2_volatile_mr"
  <1>1. ~EventRisk(legs) /\ ~StructuralBreak(n) /\ ~Weakening(n)
    BY DEF ClassifyPairHealth, EntryAllowed
  <1>2. /\ {m.phi, m.drift, m.trend, m.cross, m.vol, n.phi, n.drift, n.trend, n.cross, n.vol} \subseteq Int
        /\ {MaxHalfLife, MaxDrift, BreakDrift, MaxTrend, BreakTrend, MinCross, ChopCross, UnitRoot} \subseteq Nat
    BY GradesAssumption, HealthThresholds
  <1>3. /\ IF m.phi <= 0 \/ m.phi >= UnitRoot THEN m.halfLife = None ELSE m.halfLife \in Nat
        /\ IF n.phi <= 0 \/ n.phi >= UnitRoot THEN n.halfLife = None ELSE n.halfLife \in Nat
        /\ m.halfLife # None /\ n.halfLife # None /\ n.phi >= m.phi => n.halfLife >= m.halfLife
        /\ None \notin Int
    BY GradesAssumption
  <1>4. /\ n.drift >= m.drift /\ n.trend >= m.trend /\ n.phi >= m.phi /\ n.vol >= m.vol
        /\ n.cross = m.cross \/ (n.cross <= m.cross /\ m.cross <= ChopCross)
    BY DEF WorseSpread
  <1>5. /\ n.drift < BreakDrift /\ n.trend < BreakTrend
        /\ n.drift < MaxDrift /\ n.trend < MaxTrend /\ n.cross >= MinCross
    BY <1>1, <1>2, SMT DEF StructuralBreak, Weakening
  <1>6. /\ n.phi < UnitRoot
        /\ n.halfLife # None => n.halfLife <= MaxHalfLife
    BY <1>1, <1>2, <1>3, SMT DEF StructuralBreak, Weakening
  <1>7. /\ m.phi < UnitRoot
        /\ m.halfLife # None => n.halfLife # None /\ m.halfLife <= MaxHalfLife
    BY <1>2, <1>3, <1>4, <1>6, SMT
  <1>8. ~StructuralBreak(m)
    BY <1>2, <1>3, <1>4, <1>5, <1>7, SMT DEF StructuralBreak
  <1>9. ~Weakening(m)
    BY <1>2, <1>3, <1>4, <1>5, <1>7, SMT DEF Weakening
  <1>10. ASSUME Volatile(m) PROVE Volatile(n)
    BY <1>2, <1>3, <1>4, <1>7, <1>10, SMT DEF Volatile
  <1>11. "r1_stable_mr" # "r2_volatile_mr"
    OBVIOUS
  <1>12. QED
    BY <1>1, <1>8, <1>9, <1>10, <1>11 DEF ClassifyPairHealth, EntryAllowed

\* A spread that is worse in any respect is not entered with more strength.
LEMMA StrengthFalls ==
  ASSUME NEW m \in Spreads, NEW n \in Spreads, WorseSpread(n, m), NEW z \in ZScores, NEW legs
  PROVE  EntryStrength(n, z, ZEntry, legs) <= EntryStrength(m, z, ZEntry, legs)
  <1> DEFINE better == ClassifyPairHealth(m, legs)
             worse  == ClassifyPairHealth(n, legs)
             S(c)   == PairStrength(z, ZEntry, c)
  <1>1. /\ S("r1_stable_mr") \in Int /\ S("r2_volatile_mr") \in Int
        /\ 0 <= S("r2_volatile_mr") /\ S("r2_volatile_mr") <= S("r1_stable_mr")
    BY VolatileIsWeaker
  <1>2. worse \in EntryAllowed =>
          better \in EntryAllowed /\ (better = "r2_volatile_mr" => worse = "r2_volatile_mr")
    BY HealthFalls
  <1>3. /\ EntryStrength(n, z, ZEntry, legs) = IF worse \in EntryAllowed THEN S(worse) ELSE 0
        /\ EntryStrength(m, z, ZEntry, legs) = IF better \in EntryAllowed THEN S(better) ELSE 0
    BY DEF EntryStrength
  <1> HIDE DEF S, better, worse
  <1>4. QED
    BY <1>1, <1>2, <1>3, SMT DEF EntryAllowed

-----------------------------------------------------------------------------
(* Regimes                                                                 *)

\* A less certain or more restless regime is at no lower level.
LEMMA LevelRises ==
  ASSUME NEW a \in Conditions, NEW b \in Conditions, WorseRegime(b, a)
  PROVE  /\ LevelOf(a) \in Normal..Defensive /\ LevelOf(b) \in Normal..Defensive
         /\ LevelOf(a) <= LevelOf(b)
         /\ Uncertain(a) => Uncertain(b)
  <1>1. /\ {a.prob, a.switches, a.span, b.prob, b.switches, b.span} \subseteq Nat
        /\ {ClearProb, UncertainProb, MaxSwitchesPerWeek, MinRegimeDays} \subseteq Nat
    BY GradesAssumption, DegradationAssumption
  <1>2. /\ b.label = a.label /\ b.prob <= a.prob /\ (a.pending => b.pending)
        /\ b.switches >= a.switches /\ b.span <= a.span
    BY DEF WorseRegime
  <1>3. Uncertain(a) => Uncertain(b)
    BY <1>2 DEF Uncertain
  <1>4. OftenSwitched(a) => OftenSwitched(b)
    <2> DEFINE long  == Max({a.span, 7})
               short == Max({b.span, 7})
    <2>1. short \in Nat /\ long \in Nat /\ short <= long
      BY <1>1, <1>2, LargerOf, SMT
    <2> HIDE DEF short, long
    <2>2. MaxSwitchesPerWeek * short <= MaxSwitchesPerWeek * long
      BY <1>1, <2>1, ProductsGrow
    <2>3. MaxSwitchesPerWeek * short \in Nat /\ MaxSwitchesPerWeek * long \in Nat
      BY <1>1, <2>1, ProductsGrow
    <2>4. /\ OftenSwitched(a) <=> 7 * a.switches > MaxSwitchesPerWeek * long
          /\ OftenSwitched(b) <=> 7 * b.switches > MaxSwitchesPerWeek * short
      BY DEF OftenSwitched, long, short
    <2>5. QED
      BY <1>1, <1>2, <2>2, <2>3, <2>4, SMT
  <1>5. ShortLived(a) => ShortLived(b)
    <2>1. MinRegimeDays * a.switches <= MinRegimeDays * b.switches
      BY <1>1, <1>2, ProductsGrow
    <2>2. MinRegimeDays * a.switches \in Nat /\ MinRegimeDays * b.switches \in Nat
      BY <1>1, <1>2, ProductsGrow
    <2>3. QED
      BY <1>1, <1>2, <2>1, <2>2, SMT DEF ShortLived
  <1>6. Unhealthy(a) => Unhealthy(b)
    BY <1>1, <1>2, <1>4, <1>5, SMT DEF Unhealthy
  <1>7. QED
    BY <1>1, <1>2, <1>3, <1>6, SMT DEF LevelOf, Normal, Cautious, Defensive

\* The scale of a label falls with the level and with uncertainty.
LEMMA ScaleFalls ==
  ASSUME NEW a \in Conditions, NEW b \in Conditions, WorseRegime(b, a), NEW run \in Normal..Defensive
  PROVE  ScaleAlone(b, run) <= ScaleAlone(a, run)
  <1> DEFINE i == Max({LevelOf(a), run})
             k == Max({LevelOf(b), run})
             whole == LabelScale(a.label)
             Scaled(l) == (whole * Multiplier[l]) \div 100
  <1>1. i \in Normal..Defensive /\ k \in Normal..Defensive /\ i <= k
    BY LevelRises, LargerOf, SMT DEF Normal, Defensive
  <1>2. whole \in Nat /\ LabelScale(b.label) = whole
    BY DegradationAssumption DEF LabelScale, WorseRegime
  <1>3. /\ Multiplier[Normal] = 100 /\ Multiplier[Cautious] = CautiousScale
        /\ Multiplier[Defensive] = DefensiveScale
    BY SMT DEF Multiplier, Normal, Cautious, Defensive, Safe
  <1>4. /\ CautiousScale \in 0..100 /\ DefensiveScale \in 0..100 /\ UncertainScale \in 0..100
        /\ DefensiveScale <= CautiousScale
    BY DegradationAssumption
  <1>5. Multiplier[i] \in Nat /\ Multiplier[k] \in Nat /\ Multiplier[k] <= Multiplier[i]
    BY <1>1, <1>3, <1>4, SMT DEF Normal, Cautious, Defensive
  <1> HIDE DEF whole, i, k
  <1>6. whole * Multiplier[k] \in Nat /\ whole * Multiplier[i] \in Nat /\ whole * Multiplier[k] <= whole * Multiplier[i]
    BY <1>2, <1>5, ProductsGrow
  <1>7. Scaled(k) \in Nat /\ Scaled(i) \in Nat /\ Scaled(k) <= Scaled(i)
    BY <1>6, SMT
  <1> HIDE DEF Scaled
  <1>8. /\ Scaled(k) * UncertainScale \in Nat /\ Scaled(i) * UncertainScale \in Nat
        /\ Scaled(k) * UncertainScale <= Scaled(i) * UncertainScale
    BY <1>4, <1>7, ProductsGrow, UncertainScale \in Nat
  <1>9. Scaled(k) * UncertainScale <= Scaled(k) * 100
    BY <1>4, <1>7, ProductsGrow, UncertainScale \in Nat, 100 \in Nat
  <1>10. /\ (Scaled(k) * UncertainScale) \div 100 <= (Scaled(i) * UncertainScale) \div 100
         /\ (Scaled(k) * UncertainScale) \div 100 <= Scaled(k)
    BY <1>7, <1>8, <1>9, SMT
  <1>11. i # Safe /\ k # Safe
    BY <1>1, SMT DEF Safe, Normal, Defensive
  <1>12. /\ ScaleAlone(a, run) = IF ~ResilienceEnabled THEN whole
                                 ELSE IF Uncertain(a) THEN (Scaled(i) * UncertainScale) \div 100 ELSE Scaled(i)
         /\ ScaleAlone(b, run) = IF ~ResilienceEnabled THEN whole
                                 ELSE IF Uncertain(b) THEN (Scaled(k) * UncertainScale) \div 100 ELSE Scaled(k)
    BY <1>2, <1>11 DEF ScaleAlone, PositionScale, Scaled, whole, i, k
  <1>13. Uncertain(a) => Uncertain(b)
    BY LevelRises
  <1>14. (Scaled(k) * UncertainScale) \div 100 \in Int
    BY <1>8, SMT
  <1>15. QED
    BY <1>2, <1>7, <1>10, <1>12, <1>13, <1>14, SMT

-----------------------------------------------------------------------------
(* Costs                                                                   *)

\* A set of numbers up to n that is not empty has a greatest one: the one with the
\* fewest greater ones.
LEMMA HasGreatest ==
  ASSUME NEW n \in Nat, NEW S, S \subseteq 0..n, S # {}
  PROVE  \E x \in S : \A y \in S : y <= x
  <1> DEFINE Greater(x) == {y \in S : y > x}
             Sets == {Greater(x) : x \in S}
             R == StrictSubsetOrdering(S)
  <1>1. IsFiniteSet(S)
    BY FS_Interval, FS_Subset, 0 \in Int, n \in Int
  <1>2. IsWellFoundedOn(R, FiniteSubsetsOf(S))
    BY FS_StrictSubsetOrderingWellFounded
  <1>3. Sets \subseteq FiniteSubsetsOf(S) /\ Sets # {}
    <2>1. \A x \in S : Greater(x) \subseteq S /\ IsFiniteSet(Greater(x))
      BY <1>1, FS_Subset
    <2>2. QED
      BY <2>1 DEF FiniteSubsetsOf
  <1>4. PICK N \in Sets : \A M \in Sets : ~(<<M, N>> \in R)
    <2> HIDE DEF Sets, R
    <2>1. QED
      BY <1>2, <1>3, WFMin
  <1>5. PICK x \in S : N = Greater(x)
    BY <1>4
  <1>6. \A y \in S : y <= x
    <2> SUFFICES ASSUME NEW y \in S, y > x PROVE FALSE
      BY SMT
    <2>1. y \in Greater(x) /\ y \notin Greater(y)
      BY SMT
    <2>2. \A z \in Greater(y) : z \in Greater(x)
      BY SMT
    <2>3. Greater(y) \subseteq Greater(x) /\ Greater(y) # Greater(x) /\ Greater(x) \subseteq S
      BY <2>1, <2>2
    <2>4. <<Greater(y), Greater(x)>> \in R
      <3> HIDE DEF Greater
      <3>1. QED
        BY <2>3 DEF StrictSubsetOrdering
    <2>5. QED
      BY <1>4, <1>5, <2>4
  <1>7. QED
    BY <1>6

\* Every number has a root, rounded down.
LEMMA Roots ==
  ASSUME NEW n \in Nat
  PROVE  /\ Root(n) \in Nat
         /\ Root(n) * Root(n) <= n
         /\ n < (Root(n) + 1) * (Root(n) + 1)
  <1> DEFINE S == {r \in 0..n : r * r <= n}
  <1>1. 0 \in S
    BY SMT
  <1>2. PICK g \in S : \A y \in S : y <= g
    BY <1>1, HasGreatest
  <1>3. n < (g + 1) * (g + 1)
    <2> SUFFICES ASSUME (g + 1) * (g + 1) <= n PROVE FALSE
      BY SMT
    <2>1. g + 1 <= (g + 1) * (g + 1)
      BY 1 \in Nat, g + 1 \in Nat, ProductsGrow, (g + 1) * 1 = g + 1
    <2>2. g + 1 \in S
      BY <2>1, SMT
    <2>3. QED
      BY <1>2, <2>2, SMT
  <1>4. \E r \in 0..n : r * r <= n /\ n < (r + 1) * (r + 1)
    BY <1>2, <1>3
  <1>5. Root(n) \in 0..n /\ Root(n) * Root(n) <= n /\ n < (Root(n) + 1) * (Root(n) + 1)
    BY <1>4 DEF Root
  <1>6. QED
    BY <1>5

\* Roots grow.
LEMMA RootGrows ==
  ASSUME NEW m \in Nat, NEW n \in Nat, m <= n
  PROVE  Root(m) \in Nat /\ Root(n) \in Nat /\ Root(m) <= Root(n)
  <1> DEFINE a == Root(m)
             b == Root(n)
  <1>1. a \in Nat /\ b \in Nat /\ a * a <= m /\ n < (b + 1) * (b + 1)
    BY Roots
  <1> HIDE DEF a, b
  <1>2. ASSUME b + 1 <= a PROVE FALSE
    <2>1. (b + 1) * (b + 1) <= a * a /\ (b + 1) * (b + 1) \in Nat /\ a * a \in Nat
      BY <1>1, <1>2, ProductsGrow, b + 1 \in Nat
    <2>2. QED
      BY <1>1, <2>1, SMT
  <1>3. a <= b
    BY <1>1, <1>2, SMT
  <1>4. QED
    BY <1>1, <1>3 DEF a, b

\* What a worse quote is.
LEMMA QuoteFacts ==
  ASSUME NEW q \in QuoteGrid, NEW r \in QuoteGrid, WorseQuote(r, q)
  PROVE  /\ {q.spread, q.sigma, q.commission, q.part, r.spread, r.sigma, r.commission, r.part} \subseteq Nat
         /\ {FlatSlippage, SlippageK, ImpactY, MinNetEdge, MaxAdv} \subseteq Nat
         /\ q.spread <= r.spread /\ q.sigma <= r.sigma /\ q.part <= r.part
         /\ q.commission <= r.commission
         /\ Root(q.part) \in Nat /\ Root(r.part) \in Nat /\ Root(q.part) <= Root(r.part)
  <1>1. /\ {q.spread, q.sigma, q.commission, q.part, r.spread, r.sigma, r.commission, r.part} \subseteq Nat
        /\ {FlatSlippage, SlippageK, ImpactY, MinNetEdge, MaxAdv} \subseteq Nat
    BY GradesAssumption, CostAssumption
  <1>2. /\ q.spread <= r.spread /\ q.sigma <= r.sigma /\ q.part <= r.part
        /\ q.commission <= r.commission
    BY <1>1, SMT DEF WorseQuote
  <1>3. QED
    BY <1>1, <1>2, RootGrows

\* Slippage that can be estimated grows with the quote.
LEMMA SlippageGrows ==
  ASSUME NEW q \in QuoteGrid, NEW r \in QuoteGrid, WorseQuote(r, q)
  PROVE  Slippage(q) \in Nat /\ Slippage(r) \in Nat /\ Slippage(q) <= Slippage(r)
  <1>1. SlippageRate(q) \in Nat /\ SlippageRate(r) \in Nat /\ SlippageRate(q) <= SlippageRate(r)
    <2>1. CASE SlippageModel = "flat"
      BY <2>1, QuoteFacts DEF SlippageRate
    <2>2. CASE SlippageModel = "linear"
      <3>1. SlippageRate(q) = SlippageK * q.part /\ SlippageRate(r) = SlippageK * r.part
        BY <2>2 DEF SlippageRate
      <3>2. QED
        BY <3>1, QuoteFacts, ProductsGrow, SlippageK <= SlippageK
    <2>3. CASE SlippageModel = "sqrt"
      <3>1. /\ SlippageRate(q) = (SlippageK * q.sigma * Root(q.part)) \div 10000
            /\ SlippageRate(r) = (SlippageK * r.sigma * Root(r.part)) \div 10000
        BY <2>3 DEF SlippageRate
      <3>2. /\ SlippageK * q.sigma \in Nat /\ SlippageK * r.sigma \in Nat
            /\ SlippageK * q.sigma <= SlippageK * r.sigma
        BY QuoteFacts, ProductsGrow, SlippageK <= SlippageK
      <3>3. /\ SlippageK * q.sigma * Root(q.part) \in Nat /\ SlippageK * r.sigma * Root(r.part) \in Nat
            /\ SlippageK * q.sigma * Root(q.part) <= SlippageK * r.sigma * Root(r.part)
        BY <3>2, QuoteFacts, ProductsGrow
      <3>4. QED
        BY <3>1, <3>3, SMT
    <2>4. QED
      BY <2>1, <2>2, <2>3, CostAssumption
  <1>2. SlippageRate(q) > 0
    BY DEF WorseQuote
  <1>3. Slippage(q) = SlippageRate(q) /\ Slippage(r) = SlippageRate(r)
    BY <1>1, <1>2, SMT DEF Slippage
  <1>4. QED
    BY <1>1, <1>3

\* So does the impact of the order.
LEMMA ImpactGrows ==
  ASSUME NEW q \in QuoteGrid, NEW r \in QuoteGrid, WorseQuote(r, q)
  PROVE  Impact(q) \in Nat /\ Impact(r) \in Nat /\ Impact(q) <= Impact(r)
  <1> DEFINE part == Min({q.part, 10000})
             more == Min({r.part, 10000})
  <1>1. part \in Nat /\ more \in Nat /\ part <= more
    BY QuoteFacts, SmallerOf, SMT
  <1> HIDE DEF part, more
  <1>2. Root(part) \in Nat /\ Root(more) \in Nat /\ Root(part) <= Root(more)
    BY <1>1, RootGrows
  <1>3. ImpactY * q.sigma \in Nat /\ ImpactY * r.sigma \in Nat /\ ImpactY * q.sigma <= ImpactY * r.sigma
    BY QuoteFacts, ProductsGrow, ImpactY <= ImpactY
  <1>4. /\ ImpactY * q.sigma * Root(part) \in Nat /\ ImpactY * r.sigma * Root(more) \in Nat
        /\ ImpactY * q.sigma * Root(part) <= ImpactY * r.sigma * Root(more)
    BY <1>2, <1>3, ProductsGrow
  <1>5. /\ SquareRootImpact(q) = (ImpactY * q.sigma * Root(part)) \div 10000
        /\ SquareRootImpact(r) = (ImpactY * r.sigma * Root(more)) \div 10000
        /\ AlmgrenChriss(q) = 20 * part + q.sigma /\ AlmgrenChriss(r) = 20 * more + r.sigma
    BY DEF SquareRootImpact, AlmgrenChriss, part, more
  <1>6. /\ SquareRootImpact(q) \in Nat /\ SquareRootImpact(r) \in Nat
        /\ SquareRootImpact(q) <= SquareRootImpact(r)
    BY <1>4, <1>5, SMT
  <1>7. AlmgrenChriss(q) \in Nat /\ AlmgrenChriss(r) \in Nat /\ AlmgrenChriss(q) <= AlmgrenChriss(r)
    BY <1>1, <1>5, QuoteFacts, SMT
  <1>8. QED
    BY <1>6, <1>7, LargerOf, SMT DEF Impact

\* What a cheaper order may not do, a dearer or larger one may not either.
LEMMA DearerIsBarred ==
  ASSUME NEW q \in QuoteGrid, NEW r \in QuoteGrid, WorseQuote(r, q), NEW edge \in Nat, Tradable(edge, r)
  PROVE  Tradable(edge, q)
  <1>1. (DecayLoss * edge) \div 1000 \in Int
    BY CostAssumption, DecayLoss * edge \in Int, SMT
  <1>2. Opportunity(edge) \in Int
    BY <1>1, LargerOf DEF Opportunity
  <1>3. CostOf(edge, q) \in Int /\ CostOf(edge, r) \in Int /\ CostOf(edge, q) <= CostOf(edge, r)
    BY <1>2, QuoteFacts, SlippageGrows, ImpactGrows, SMT DEF CostOf
  <1>4. edge - CostOf(edge, r) > MinNetEdge /\ r.part <= MaxAdv
    BY DEF Tradable
  <1>5. edge - CostOf(edge, q) > MinNetEdge /\ q.part <= MaxAdv
    BY <1>3, <1>4, QuoteFacts, SMT
  <1>6. QED
    BY <1>5 DEF Tradable

\* The strength of a pair, the scale of a regime and the cost gate are monotone: a
\* worse relation, a less certain regime or a dearer order never lets more through.
THEOREM FlowWorseNeverTradesMore == Spec => []WorseNeverTradesMore
  <1>1. \A edge \in {500 * n : n \in 0..FullStrength} : edge \in Nat
    BY SMT DEF FullStrength
  <1>2. WorseNeverTradesMore
    BY <1>1, StrengthFalls, ScaleFalls, DearerIsBarred DEF WorseNeverTradesMore
  <1>3. QED
    BY <1>2, PTL
-----------------------------------------------------------------------------
(* Recursion over positions and over the subsets of a finite set: that     *)
(* there is such a function, and what holds of all of its values.          *)

\* What holds at 0 and is passed on from each number to the next holds up to n.
LEMMA Upward ==
  ASSUME NEW n \in Nat, NEW S, 0 \in S, \A i \in 1..n : i - 1 \in S => i \in S
  PROVE  \A i \in 0..n : i \in S
<1> DEFINE bad == (0..n) \ S
<1> SUFFICES ASSUME bad # {} PROVE FALSE
  OBVIOUS
<1>1. bad \in SUBSET Nat
  OBVIOUS
<1>2. PICK m \in bad : \A k \in bad : ~ (<<k, m>> \in OpToRel(<, Nat))
  <2> HIDE DEF bad
  <2> QED
    BY <1>1, NatLessThanWellFounded, WFMin
<1>3. m \in 1..n /\ m - 1 \in Nat /\ m - 1 \notin bad
  <2>1. m \in 0..n /\ m # 0
    OBVIOUS
  <2>2. m \in Nat /\ m - 1 \in Nat /\ m - 1 < m
    BY <2>1
  <2>3. m - 1 \notin bad
    <3> HIDE DEF bad
    <3> QED
      BY <1>2, <2>2 DEF OpToRel
  <2> QED
    BY <2>1, <2>2, <2>3
<1>4. m - 1 \in S
  BY <1>3
<1> QED
  BY <1>3, <1>4

\* The values of a recursion that takes F[i] from the value before i to the one at i.
Steps(F, seed, g, n) == g = [i \in 0..n |-> IF i = 0 THEN seed ELSE F[i][g[i - 1]]]

Leads(F, W, n) == \A i \in 1..n : F[i] \in [W[i - 1] -> W[i]]

\* There is one, whatever sets W[i] the values are in.
LEMMA StepsExist ==
  ASSUME NEW n \in Nat, NEW W, NEW F, NEW seed \in W[0], Leads(F, W, n)
  PROVE  \E g : Steps(F, seed, g, n) /\ \A i \in 0..n : g[i] \in W[i]
<1> DEFINE Some(k) == \E g : Steps(F, seed, g, k) /\ \A i \in 0..k : g[i] \in W[i]
           S == {k \in 0..n : Some(k)}
<1>1. 0 \in S
  <2> DEFINE g == [i \in 0..0 |-> seed]
  <2>1. Steps(F, seed, g, 0)
    BY DEF Steps
  <2>2. \A i \in 0..0 : g[i] \in W[i]
    OBVIOUS
  <2> HIDE DEF g
  <2> QED
    BY <2>1, <2>2
<1>2. ASSUME NEW i \in 1..n, i - 1 \in S PROVE i \in S
  <2>1. PICK g : Steps(F, seed, g, i - 1) /\ \A k \in 0..(i - 1) : g[k] \in W[k]
    BY <1>2
  <2> DEFINE h == [k \in 0..i |-> IF k = i THEN F[i][g[i - 1]] ELSE g[k]]
  <2>2. \A k \in 0..(i - 1) : h[k] = g[k]
    OBVIOUS
  <2>3. i - 1 \in 0..(i - 1) /\ h[i] = F[i][g[i - 1]] /\ h[i - 1] = g[i - 1]
    OBVIOUS
  <2>4. \A k \in 0..(i - 1) : g[k] = IF k = 0 THEN seed ELSE F[k][g[k - 1]]
    BY <2>1 DEF Steps
  <2>5. \A k \in 0..i : h[k] = IF k = 0 THEN seed ELSE F[k][h[k - 1]]
    <3> SUFFICES ASSUME NEW k \in 0..i PROVE h[k] = IF k = 0 THEN seed ELSE F[k][h[k - 1]]
      OBVIOUS
    <3> HIDE DEF h
    <3>1. CASE k = i
      BY <2>3, <3>1
    <3>2. CASE k # i
      <4>1. k \in 0..(i - 1) /\ (k # 0 => k - 1 \in 0..(i - 1))
        BY <3>2
      <4> QED
        BY <2>2, <2>4, <4>1
    <3> QED
      BY <3>1, <3>2
  <2>6. Steps(F, seed, h, i)
    <3> DEFINE H(k) == IF k = 0 THEN seed ELSE F[k][h[k - 1]]
    <3>1. h = [k \in 0..i |-> h[k]]
      OBVIOUS
    <3>2. \A k \in 0..i : h[k] = H(k)
      BY <2>5
    <3> HIDE DEF h, H
    <3>3. h = [k \in 0..i |-> H(k)]
      BY <3>1, <3>2
    <3> QED
      BY <3>3 DEF Steps, H
  <2>7. h[i] \in W[i]
    <3>1. F[i] \in [W[i - 1] -> W[i]] /\ g[i - 1] \in W[i - 1]
      BY <2>1, <2>3 DEF Leads
    <3> HIDE DEF h
    <3> QED
      BY <2>3, <3>1
  <2>8. \A k \in 0..i : h[k] \in W[k]
    <3>1. \A k \in 0..i : k = i \/ k \in 0..(i - 1)
      OBVIOUS
    <3> HIDE DEF h
    <3> QED
      BY <2>1, <2>2, <2>7, <3>1
  <2> HIDE DEF h
  <2> QED
    BY <2>6, <2>8
<1>3. n \in S
  <2> HIDE DEF S
  <2>1. \A i \in 0..n : i \in S
    BY <1>1, <1>2, Upward
  <2> QED
    BY <2>1
<1> QED
  BY <1>3

\* Some subsets of a finite set, if there are any, have a least one among them.
LEMMA LeastSubset ==
  ASSUME NEW S, IsFiniteSet(S), NEW bad \in SUBSET SUBSET S, bad # {}
  PROVE  \E T \in bad : \A U \in bad : U \subseteq T => U = T
<1>1. IsWellFoundedOn(StrictSubsetOrdering(S), SUBSET S)
  BY FS_StrictSubsetOrderingWellFounded, FS_FiniteSubsetsOfFinite
<1>2. PICK T \in bad : \A U \in bad : ~(<<U, T>> \in StrictSubsetOrdering(S))
  BY <1>1, WFMin
<1>3. ASSUME NEW U \in bad, U \subseteq T, U # T PROVE FALSE
  <2>1. <<U, T>> \in StrictSubsetOrdering(S)
    BY <1>3 DEF StrictSubsetOrdering
  <2> QED
    BY <1>2, <1>3, <2>1
<1> QED
  BY <1>2, <1>3

\* pick takes a member out of each subset that has one.
Picks(pick, S) == \A T \in SUBSET S : T # {} => pick[T] \in T

\* What holds of the empty set and is passed on when a member is put back holds of all.
LEMMA Outward ==
  ASSUME NEW S, IsFiniteSet(S), NEW pick, Picks(pick, S), NEW good, {} \in good,
         \A T \in SUBSET S : T # {} /\ T \ {pick[T]} \in good => T \in good
  PROVE  \A T \in SUBSET S : T \in good
<1> DEFINE bad == (SUBSET S) \ good
<1> SUFFICES ASSUME bad # {} PROVE FALSE
  OBVIOUS
<1>1. bad \in SUBSET SUBSET S
  OBVIOUS
<1>2. PICK T \in bad : \A U \in bad : U \subseteq T => U = T
  <2> HIDE DEF bad
  <2> QED
    BY <1>1, LeastSubset
<1>3. T \in SUBSET S /\ T # {} /\ T \notin good
  OBVIOUS
<1>4. pick[T] \in T
  BY <1>3 DEF Picks
<1>5. T \ {pick[T]} \in good
  <2>1. T \ {pick[T]} \subseteq T /\ T \ {pick[T]} # T /\ T \ {pick[T]} \in SUBSET S
    BY <1>3, <1>4
  <2> QED
    BY <1>2, <2>1
<1> QED
  BY <1>3, <1>5

\* The folds over the subsets of S: F[x] is how x is put to what the others give.
Folds(F, seed, pick, h, S) ==
    h = [T \in SUBSET S |-> IF T = {} THEN seed ELSE F[pick[T]][h[T \ {pick[T]}]]]

\* Two folds over the same sets give the same.
LEMMA FoldsAgree ==
  ASSUME NEW S, IsFiniteSet(S), NEW A, NEW B, S \subseteq A, S \subseteq B, NEW seed, NEW pick, Picks(pick, S),
         NEW F, NEW G, \A x \in S : F[x] = G[x], NEW h, NEW g,
         Folds(F, seed, pick, h, A), Folds(G, seed, pick, g, B)
  PROVE  \A T \in SUBSET S : h[T] = g[T]
<1> DEFINE good == {T \in SUBSET S : h[T] = g[T]}
<1>1. \A T \in SUBSET S : /\ h[T] = IF T = {} THEN seed ELSE F[pick[T]][h[T \ {pick[T]}]]
                          /\ g[T] = IF T = {} THEN seed ELSE G[pick[T]][g[T \ {pick[T]}]]
  <2> SUFFICES ASSUME NEW T \in SUBSET S
               PROVE  /\ h[T] = IF T = {} THEN seed ELSE F[pick[T]][h[T \ {pick[T]}]]
                      /\ g[T] = IF T = {} THEN seed ELSE G[pick[T]][g[T \ {pick[T]}]]
    OBVIOUS
  <2>1. T \in SUBSET A /\ T \in SUBSET B
    OBVIOUS
  <2> QED
    BY <2>1, Zenon DEF Folds
<1>2. {} \in good
  BY <1>1
<1>3. ASSUME NEW T \in SUBSET S, T # {}, T \ {pick[T]} \in good PROVE T \in good
  <2>1. pick[T] \in S
    BY <1>3 DEF Picks
  <2> QED
    BY <1>1, <1>3, <2>1
<1>4. \A T \in SUBSET S : T \in good
  <2> HIDE DEF good
  <2> QED
    BY <1>2, <1>3, Outward
<1> QED
  BY <1>4

Keeps(F, S, V) == \A x \in S : F[x] \in [V -> V]

\* There is a fold, and with values of one type if each F[x] keeps it.
LEMMA FoldsExist ==
  ASSUME NEW S, IsFiniteSet(S), NEW pick, Picks(pick, S), NEW V, NEW seed \in V,
         NEW F, Keeps(F, S, V)
  PROVE  \E h : Folds(F, seed, pick, h, S) /\ \A T \in SUBSET S : h[T] \in V
<1> DEFINE Good(h, T) == Folds(F, seed, pick, h, T) /\ \A U \in SUBSET T : h[U] \in V
           bad == {T \in SUBSET S : ~\E h : Good(h, T)}
           Rest(T) == T \ {pick[T]}
<1> SUFFICES ASSUME bad # {} PROVE FALSE
  OBVIOUS
<1>0. bad \in SUBSET SUBSET S
  OBVIOUS
<1>1. PICK B \in bad : \A U \in bad : U \subseteq B => U = B
  <2> HIDE DEF bad
  <2> QED
    BY <1>0, LeastSubset
<1>2. /\ B \in SUBSET S /\ ~\E h : Good(h, B)
      /\ \A U \in SUBSET B : U # B => \E h : Good(h, U)
  BY <1>1
<1> DEFINE k == [U \in SUBSET B |-> CHOOSE h : Good(h, U)]
           Next2(T) == IF T = {} THEN seed ELSE F[pick[T]][k[Rest(T)][Rest(T)]]
           g == [T \in SUBSET B |-> Next2(T)]
<1>3. \A U \in SUBSET B : U # B => Good(k[U], U)
  <2> HIDE DEF Good
  <2> QED
    BY <1>2
<1>4. \A T \in SUBSET B : IsFiniteSet(T) /\ Picks(pick, T)
  BY <1>2, FS_Subset DEF Picks
<1>5. \A T \in SUBSET B : T # {} => Rest(T) \in SUBSET B /\ Rest(T) # B /\ Rest(T) \in SUBSET T /\ Rest(T) # T /\ pick[T] \in S
  BY <1>2 DEF Picks
<1> HIDE DEF k, Rest
<1>6. \A T \in SUBSET B : T # {} => k[Rest(T)][Rest(T)] \in V
  <2> SUFFICES ASSUME NEW T \in SUBSET B, T # {} PROVE k[Rest(T)][Rest(T)] \in V
    OBVIOUS
  <2>1. Good(k[Rest(T)], Rest(T))
    BY <1>3, <1>5
  <2>2. \A U \in SUBSET Rest(T) : k[Rest(T)][U] \in V
    BY <2>1
  <2> QED
    BY <2>2
<1>7. \A T \in SUBSET B : g[T] \in V /\ g[T] = Next2(T)
  <2> SUFFICES ASSUME NEW T \in SUBSET B PROVE Next2(T) \in V
    OBVIOUS
  <2>1. CASE T = {}
    BY <2>1
  <2>2. CASE T # {}
    <3>1. F[pick[T]] \in [V -> V] /\ k[Rest(T)][Rest(T)] \in V
      BY <1>5, <1>6, <2>2 DEF Keeps
    <3> QED
      BY <2>2, <3>1
  <2> QED
    BY <2>1, <2>2
<1>8. \A T \in SUBSET B : T # B => g[T] = k[T][T]
  <2> SUFFICES ASSUME NEW T \in SUBSET B, T # B PROVE g[T] = k[T][T]
    OBVIOUS
  <2>1. Folds(F, seed, pick, k[T], T)
    BY <1>3
  <2>2. k[T][T] = IF T = {} THEN seed ELSE F[pick[T]][k[T][Rest(T)]]
    <3>1. T \in SUBSET T
      OBVIOUS
    <3> QED
      BY <2>1, <3>1, Zenon DEF Folds, Rest
  <2>3. CASE T # {}
    <3> DEFINE U == Rest(T)
    <3>1. U \subseteq T /\ U # T /\ U \in SUBSET B /\ U # B
      BY <1>5, <2>3
    <3> HIDE DEF U
    <3>2. IsFiniteSet(U) /\ Picks(pick, U) /\ Folds(F, seed, pick, k[U], U)
      BY <1>3, <1>4, <3>1
    <3>3. \A W \in SUBSET U : k[T][W] = k[U][W]
      <4> DEFINE a == k[T]
                 b == k[U]
      <4>1. Folds(F, seed, pick, a, T) /\ Folds(F, seed, pick, b, U) /\ U \subseteq T /\ U \subseteq U
        BY <2>1, <3>1, <3>2
      <4> HIDE DEF a, b
      <4>2. \A W \in SUBSET U : a[W] = b[W]
        BY <3>2, <4>1, FoldsAgree
      <4> QED
        BY <4>2 DEF a, b
    <3>4. k[T][U] = k[U][U]
      BY <3>3
    <3>5. g[T] = F[pick[T]][k[U][U]]
      BY <1>7, <2>3 DEF U
    <3> HIDE DEF g
    <3> QED
      BY <2>2, <2>3, <3>4, <3>5 DEF U
  <2>4. CASE T = {}
    BY <1>7, <2>2, <2>4
  <2> QED
    BY <2>3, <2>4
<1>9. Folds(F, seed, pick, g, B)
  <2> DEFINE H(T) == IF T = {} THEN seed ELSE F[pick[T]][g[Rest(T)]]
  <2>1. \A T \in SUBSET B : g[T] = H(T)
    <3> SUFFICES ASSUME NEW T \in SUBSET B PROVE g[T] = H(T)
      OBVIOUS
    <3>1. T # {} => g[Rest(T)] = k[Rest(T)][Rest(T)]
      BY <1>5, <1>8
    <3>2. g[T] = Next2(T)
      BY <1>7
    <3> HIDE DEF g
    <3> QED
      BY <3>1, <3>2
  <2>2. g = [T \in SUBSET B |-> g[T]]
    OBVIOUS
  <2> HIDE DEF g, H
  <2>3. g = [T \in SUBSET B |-> H(T)]
    BY <2>1, <2>2
  <2> QED
    BY <2>3 DEF Folds, H, Rest
<1> HIDE DEF g
<1>10. Good(g, B)
  BY <1>7, <1>9
<1> QED
  BY <1>2, <1>10

\* The member that the folds of a sum take out first.
Pick(T) == CHOOSE x \in T : TRUE

\* Choosing one element of each nonempty set is a pick.
LEMMA Picked == \A S : Picks([T \in SUBSET S |-> Pick(T)], S)
  BY DEF Picks, Pick

\* The sums of f over the subsets of S
Sums(f, h, S) == \A T \in SUBSET S : h[T] = IF T = {} THEN 0 ELSE f[Pick(T)] + h[T \ {Pick(T)}]

\* Of numbers there is a sum over each subset.
LEMMA SumsExist ==
  ASSUME NEW S, IsFiniteSet(S), NEW f \in [S -> Int]
  PROVE  \E h \in [SUBSET S -> Int] : Sums(f, h, S)
<1> DEFINE pick == [T \in SUBSET S |-> Pick(T)]
           F == [x \in S |-> [v \in Int |-> f[x] + v]]
<1>1. Picks(pick, S)
  BY Picked
<1>2. \A x \in S : F[x] \in [Int -> Int]
  OBVIOUS
<1>3. PICK h : Folds(F, 0, pick, h, S) /\ \A T \in SUBSET S : h[T] \in Int
  <2> DEFINE V == Int
             b == 0
  <2>1. b \in V /\ Keeps(F, S, V)
    BY <1>2 DEF Keeps
  <2> HIDE DEF F, pick, V, b
  <2>2. \E h : Folds(F, b, pick, h, S) /\ \A T \in SUBSET S : h[T] \in V
    BY <1>1, <2>1, FoldsExist
  <2> QED
    BY <2>2 DEF V, b
<1>4. h \in [SUBSET S -> Int]
  <2>1. h = [T \in SUBSET S |-> h[T]]
    BY <1>3, Zenon DEF Folds
  <2> QED
    BY <1>3, <2>1
<1>5. ASSUME NEW T \in SUBSET S
      PROVE  h[T] = IF T = {} THEN 0 ELSE f[Pick(T)] + h[T \ {Pick(T)}]
  <2>1. h[T] = IF T = {} THEN 0 ELSE F[pick[T]][h[T \ {pick[T]}]]
    BY <1>3, Zenon DEF Folds
  <2>2. CASE T # {}
    <3>1. pick[T] = Pick(T) /\ Pick(T) \in S
      BY <1>1, <2>2 DEF Picks
    <3>2. h[T \ {Pick(T)}] \in Int
      BY <1>3
    <3> QED
      BY <2>1, <2>2, <3>1, <3>2
  <2> QED
    BY <2>1, <2>2
<1> QED
  BY <1>4, <1>5 DEF Sums

\* What sums over the subsets is an integer.
LEMMA SumsType ==
  ASSUME NEW S, IsFiniteSet(S), NEW f \in [S -> Int], NEW h, Sums(f, h, S)
  PROVE  \A T \in SUBSET S : h[T] \in Int
<1> DEFINE pick == [T \in SUBSET S |-> Pick(T)]
           good == {T \in SUBSET S : h[T] \in Int}
<1>1. {} \in good
  <2>1. {} \in SUBSET S
    OBVIOUS
  <2>2. h[{}] = 0
    BY <2>1 DEF Sums
  <2> QED
    BY <2>1, <2>2
<1>2. ASSUME NEW T \in SUBSET S, T # {}, T \ {pick[T]} \in good PROVE T \in good
  <2>1. pick[T] \in T /\ pick[T] = Pick(T)
    BY <1>2, Picked DEF Picks
  <2>2. f[Pick(T)] \in Int /\ h[T \ {Pick(T)}] \in Int
    BY <1>2, <2>1
  <2> QED
    <3>1. h[T] = f[Pick(T)] + h[T \ {Pick(T)}]
      BY <1>2 DEF Sums
    <3>2. h[T] \in Int
      <4> HIDE DEF pick, good
      <4> QED
        BY <2>2, <3>1
    <3> QED
      BY <3>2
<1>3. \A T \in SUBSET S : T \in good
  <2> HIDE DEF good, pick
  <2>1. Picks(pick, S)
    BY Picked DEF pick
  <2> QED
    BY <1>1, <1>2, <2>1, Outward
<1> QED
  BY <1>3

\* What sums what is not negative is not.
LEMMA SumsSign ==
  ASSUME NEW S, IsFiniteSet(S), NEW f \in [S -> Int], \A x \in S : f[x] >= 0, NEW h, Sums(f, h, S)
  PROVE  \A T \in SUBSET S : h[T] >= 0
<1> DEFINE pick == [T \in SUBSET S |-> Pick(T)]
           good == {T \in SUBSET S : h[T] >= 0}
<1>0. \A T \in SUBSET S : h[T] \in Int
  BY SumsType
<1>1. {} \in good
  <2>1. h[{}] = 0
    BY DEF Sums
  <2> QED
    BY <2>1
<1>2. ASSUME NEW T \in SUBSET S, T # {}, T \ {pick[T]} \in good PROVE T \in good
  <2>1. pick[T] \in T /\ pick[T] = Pick(T)
    BY <1>2, Picked DEF Picks
  <2> DEFINE a == f[Pick(T)]
             b == h[T \ {Pick(T)}]
  <2>2. a \in Int /\ a >= 0 /\ b \in Int /\ b >= 0
    BY <1>0, <1>2, <2>1
  <2>3. h[T] = a + b
    BY <1>2 DEF Sums
  <2> HIDE DEF a, b, pick
  <2>4. h[T] >= 0
    BY <2>2, <2>3
  <2> QED
    BY <2>4
<1>3. \A T \in SUBSET S : T \in good
  <2> HIDE DEF good, pick
  <2>1. Picks(pick, S)
    BY Picked DEF pick
  <2> QED
    BY <1>1, <1>2, <2>1, Outward
<1> QED
  BY <1>3

-----------------------------------------------------------------------------
(* Sizes                                                                   *)

\* What is not below zero
LEMMA PositiveIs ==
  ASSUME NEW n \in Int
  PROVE  Positive(n) \in Nat /\ Positive(n) >= n /\ (n >= 0 => Positive(n) = n) /\ (n <= 0 => Positive(n) = 0)
  BY LargerOf, SMT DEF Positive

\* A product of numbers is one.
LEMMA ProductIs == ASSUME NEW a \in Nat, NEW b \in Nat PROVE a * b \in Nat
  BY SMT

\* conservative_kelly_cap is not negative.
LEMMA KellyIs == KellyCap \in Nat
  <1>1. ASSUME NEW win \in 0..100, NEW odds \in Nat PROVE Kelly(win, odds) \in Nat
    <2>1. CASE odds = 0
      BY <2>1 DEF Kelly
    <2>2. CASE odds # 0
      <3> DEFINE a == (win * (odds + 10) - 1000) * 100
      <3>1. a \in Int
        BY SMT
      <3> HIDE DEF a
      <3>2. a \div odds \in Int
        BY <2>2, <3>1, SMT
      <3>3. Kelly(win, odds) = Positive(a \div odds)
        BY <2>2 DEF Kelly, a
      <3>4. QED
        BY <3>2, <3>3, PositiveIs
    <2>3. QED
      BY <2>1, <2>2
  <1>2. Kelly(Trades.lower, Trades.odds) \in Nat /\ Kelly(WinRate, RewardRisk) \in Nat
    BY <1>1, SizingAssumption
  <1>3. SampleDiscount(Trades.count) \in Nat
    <2>1. SampleDiscount(Trades.count) \in {0, 25, 50, 70, 80}
      BY SizingAssumption, SMT DEF SampleDiscount
    <2>2. QED
      BY <2>1
  <1> DEFINE k == Kelly(Trades.lower, Trades.odds)
             d == SampleDiscount(Trades.count)
             w == Kelly(WinRate, RewardRisk)
  <1>4. KellyCap = IF Trades.count >= 30 THEN (k * d) \div 200 ELSE w \div 2
    BY DEF KellyCap
  <1>5. k \in Nat /\ d \in Nat /\ w \in Nat
    BY <1>2, <1>3
  <1> HIDE DEF k, d, w
  <1>6. k * d \in Nat
    BY <1>5, ProductIs
  <1>7. (k * d) \div 200 \in Nat /\ w \div 2 \in Nat
    BY <1>5, <1>6, SMT
  <1>8. QED
    BY <1>4, <1>7

\* A symbol's numbers
LEMMA InstrumentIs ==
  ASSUME NEW s \in Symbols
  PROVE  /\ Instrument[s].step \in Nat \ {0}
         /\ Instrument[s].price \in Nat /\ Instrument[s].contract \in Nat
         /\ Instrument[s].atr \in Nat /\ Instrument[s].sigma \in Nat
         /\ Instrument[s].least \in Nat /\ Instrument[s].most \in Nat
         /\ LotValue(s) \in Nat
  <1>1. s \in DOMAIN Instrument
    BY SizesAssumption
  <1>2. /\ Instrument[s].step \in Nat \ {0}
        /\ Instrument[s].price \in Nat /\ Instrument[s].contract \in Nat
        /\ Instrument[s].atr \in Nat /\ Instrument[s].sigma \in Nat
        /\ Instrument[s].least \in Nat /\ Instrument[s].most \in Nat
    BY <1>1, SizingAssumption
  <1>3. QED
    BY <1>2, ProductIs DEF LotValue

\* get_stop_distance: there always is one.
LEMMA StopIs ==
  ASSUME NEW s \in Symbols
  PROVE  StopOf(s) \in Nat \ {0}
  <1> DEFINE i == Instrument[s]
             byVol == i.price * i.sigma * VolMultiplier
             byAtr == i.atr * AtrMultiplier
             byPct == i.price * StopLossPct
  <1>1. i.price \in Nat /\ i.sigma \in Nat /\ i.atr \in Nat
    BY InstrumentIs
  <1>2. AtrMultiplier \in Nat /\ VolMultiplier \in Nat /\ StopLossPct \in Nat
    BY SizingAssumption
  <1>3. byVol \in Nat /\ byAtr \in Nat /\ byPct \in Nat
    BY <1>1, <1>2, ProductIs
  <1>4. StopDistance(s) \in {byAtr, byVol, byPct}
    BY DEF StopDistance
  <1> HIDE DEF byVol, byAtr, byPct
  <1>5. StopDistance(s) \in Nat
    BY <1>3, <1>4
  <1>6. QED
    BY <1>5 DEF StopOf

\* The least of four numbers
LEMMA LeastOfFour ==
  ASSUME NEW a \in Nat, NEW b \in Nat, NEW c \in Nat, NEW d \in Nat
  PROVE  LET m == Min({a, b, c, d}) IN m \in Nat /\ m <= a /\ m <= b /\ m <= c /\ m <= d
  <1> DEFINE S == {a, b, c, d}
             m == Min(S)
  <1>1. \E x \in S : \A y \in S : x =< y
    <2>1. \E x \in S : x =< a /\ x =< b /\ x =< c /\ x =< d
      BY SMT
    <2>2. QED
      BY <2>1
  <1>2. m \in S /\ \A y \in S : m =< y
    BY <1>1 DEF Min
  <1>3. QED
    BY <1>2

\* hybrid_position_pct keeps to every cap it is given.
LEMMA PositionFits ==
  ASSUME NEW s \in Symbols, NEW room \in Nat, NEW weight \in Int
  PROVE  LET p == HybridPosition(s, room, weight)
         IN  /\ p \in Nat /\ p <= room /\ p <= 100 * MaxSinglePct
             /\ p * StopOf(s) <= RiskPerTrade * Instrument[s].price * 100
  <1> DEFINE cap == VanTharpCap(s)
             most == 100 * MaxSinglePct
             q == Min({KellyCap, cap, most, room})
             w == Positive(Min({weight, 100}))
             p == HybridPosition(s, room, weight)
             st == StopOf(s)
             risk == RiskPerTrade * Instrument[s].price * 100
  <1>1. st \in Nat \ {0} /\ risk \in Nat /\ most \in Nat /\ KellyCap \in Nat
    <2>1. RiskPerTrade \in Nat /\ MaxSinglePct \in Nat /\ Instrument[s].price \in Nat
      BY InstrumentIs, SizingAssumption
    <2>2. QED
      BY <2>1, StopIs, KellyIs, ProductIs
  <1>2. cap = risk \div st
    BY DEF VanTharpCap
  <1>3. w \in 0..100
    <2>1. Min({weight, 100}) \in Int /\ Min({weight, 100}) <= 100
      BY SmallerOf, SMT
    <2>2. QED
      BY <2>1, PositiveIs, SMT
  <1>4. p = (q * w) \div 100
    BY DEF HybridPosition
  <1> HIDE DEF w, p, most, st, risk, cap
  <1>5. cap \in Nat /\ st * cap <= risk
    BY <1>1, <1>2, Quotients
  <1>6. q \in Nat /\ q <= cap /\ q <= most /\ q <= room
    BY <1>1, <1>5, LeastOfFour
  <1> HIDE DEF q
  <1>7. q * w \in Nat /\ q * w <= q * 100
    BY <1>3, <1>6, ProductsGrow, w \in Nat, 100 \in Nat
  <1>8. p \in Nat /\ p <= q
    BY <1>4, <1>6, <1>7, SMT
  <1>9. p <= room /\ p <= most /\ p <= cap
    BY <1>1, <1>5, <1>6, <1>8, SMT
  <1>10. p * st <= cap * st /\ cap * st = st * cap
    BY <1>1, <1>5, <1>8, <1>9, ProductsGrow, st \in Nat
  <1>11. p * st <= risk
    BY <1>1, <1>5, <1>8, <1>10, ProductIs, SMT
  <1>12. QED
    BY <1>8, <1>9, <1>11 DEF p, most, st, risk

\* lots_from_equity_pct is worth no more than the share of the equity, unless the
\* multiplier of the group asks for more.
LEMMA LotsFit ==
  ASSUME NEW s \in Symbols, NEW equity \in Nat, NEW position \in Nat, NEW multiplier \in Int
  PROVE  LET n == LotsFor(s, equity, position, multiplier)
         IN  /\ n \in Nat
             /\ multiplier <= 100 => n * (100 * LotValue(s)) <= equity * position
             /\ LotValue(s) = 0 /\ multiplier <= 100 => n = 0
  <1> DEFINE i == Instrument[s]
             value == LotValue(s)
             raw   == IF value = 0 THEN 0 ELSE (equity * position) \div (100 * value)
             whole == (raw \div i.step) * i.step
             lots  == IF whole < i.least THEN 0 ELSE Min({whole, i.most})
             mine  == (lots * multiplier + 50) \div 100
             n     == IF mine < i.least THEN 0 ELSE mine
             step  == i.step
             least == i.least
             most  == i.most
             much  == equity * position
  <1>0. LotsFor(s, equity, position, multiplier) = n
    BY DEF LotsFor
  <1>1. step \in Nat \ {0} /\ least \in Nat /\ most \in Nat /\ value \in Nat /\ much \in Nat
    BY InstrumentIs, ProductIs
  <1>2. raw = IF value = 0 THEN 0 ELSE much \div (100 * value)
    OBVIOUS
  <1>3. whole = (raw \div step) * step
    OBVIOUS
  <1>4. lots = IF whole < least THEN 0 ELSE Min({whole, most})
    OBVIOUS
  <1>5. n = IF mine < least THEN 0 ELSE mine
    OBVIOUS
  <1>6. mine = (lots * multiplier + 50) \div 100
    OBVIOUS
  <1> HIDE DEF i, step, least, most, value, much, raw, whole, lots, mine, n
  <1>7. raw \in Nat /\ raw * (100 * value) <= much
    <2>1. CASE value = 0
      BY <1>1, <1>2, <2>1, SMT
    <2>2. CASE value # 0
      <3> DEFINE d == 100 * value
      <3>1. d \in Nat /\ d > 0
        BY <1>1, <2>2, SMT
      <3>2. raw = much \div d
        BY <1>2, <2>2
      <3> HIDE DEF d
      <3>3. raw \in Nat /\ d * raw <= much
        BY <1>1, <3>1, <3>2, Quotients
      <3>4. raw * d = d * raw
        BY <3>1, <3>3, SMT
      <3>5. QED
        BY <3>3, <3>4 DEF d
    <2>3. QED
      BY <2>1, <2>2
  <1>8. whole \in Nat /\ whole <= raw
    <2> DEFINE r == raw \div step
    <2>1. r \in Nat /\ step * r <= raw
      BY <1>1, <1>7, Quotients
    <2>2. whole = r * step
      BY <1>3
    <2> HIDE DEF r
    <2>3. r * step = step * r /\ r * step \in Nat
      BY <1>1, <2>1, SMT
    <2>4. QED
      BY <2>1, <2>2, <2>3
  <1>9. lots \in Nat /\ lots <= raw
    <2>1. Min({whole, most}) = IF whole <= most THEN whole ELSE most
      BY <1>1, <1>8, SmallerOf
    <2>2. QED
      BY <1>1, <1>4, <1>7, <1>8, <2>1, SMT
  <1>10. lots * multiplier \in Int
    BY <1>9, SMT
  <1>11. mine \in Int
    BY <1>6, <1>10, SMT
  <1>12. n \in Nat
    BY <1>1, <1>5, <1>11, SMT
  <1>13. ASSUME multiplier <= 100 PROVE n <= raw
    <2>1. lots * multiplier <= lots * 100
      <3>1. 100 - multiplier \in Nat
        BY <1>13, SMT
      <3>2. lots * (100 - multiplier) \in Nat
        BY <1>9, <3>1, ProductIs
      <3>3. lots * (100 - multiplier) = lots * 100 - lots * multiplier
        BY <1>9, SMT
      <3>4. QED
        BY <1>9, <1>10, <3>2, <3>3, SMT
    <2> DEFINE x == lots * multiplier
    <2>2. x \in Int /\ x <= lots * 100 /\ mine = (x + 50) \div 100
      BY <1>6, <1>10, <2>1
    <2> HIDE DEF x
    <2>3. mine <= lots
      BY <1>9, <2>2, SMT
    <2>4. QED
      BY <1>5, <1>7, <1>9, <1>11, <2>3, SMT
  <1>14. ASSUME multiplier <= 100 PROVE n * (100 * value) <= much
    <2>1. 100 * value \in Nat
      BY <1>1, SMT
    <2> DEFINE d == 100 * value
    <2>2. d \in Nat /\ raw * d <= much
      BY <1>7, <2>1
    <2> HIDE DEF d
    <2>3. n * d \in Nat /\ raw * d \in Nat /\ n * d <= raw * d
      BY <1>7, <1>12, <1>13, <1>14, <2>2, ProductsGrow
    <2>4. n * d <= much
      BY <1>1, <2>2, <2>3, SMT
    <2>5. QED
      BY <2>4 DEF d
  <1>15. ASSUME multiplier <= 100, value = 0 PROVE n = 0
    <2>1. raw = 0
      BY <1>2, <1>15
    <2>2. QED
      BY <1>12, <1>13, <1>15, <2>1, SMT
  <1>16. QED
    BY <1>0, <1>12, <1>14, <1>15 DEF value, much

\* What an order is worth, and what it loses at its stop, as SizesShareTheRoom has it
Worth(l)  == l.lots * LotValue(l.symbol) * 100
AtRisk(l) == l.lots * Instrument[l.symbol].contract * StopOf(l.symbol)

\* One order within the limits of a single position and of a trade
Limited(l, acct) ==
  /\ l.symbol \in Symbols /\ l.lots \in Nat
  /\ Worth(l) <= acct.equity * 100 * MaxSinglePct
  /\ AtRisk(l) <= acct.equity * RiskPerTrade

\* decide: an order for a share of the equity is worth no more than this share, no
\* more than a single position, and at its stop no more than the risk of a trade.
LEMMA OrderFits ==
  ASSUME NEW sig, sig.symbol \in Symbols, sig.conf \in Nat,
         NEW acct, acct.equity \in Nat, NEW room \in Nat, NEW weight \in Int, NEW multiplier \in Int,
         NEW position, position = PositionOf(sig, room, weight),
         NEW l, l.symbol = sig.symbol, l.lots = LotsFor(sig.symbol, acct.equity, position, multiplier)
  PROVE  /\ position \in Nat
         /\ sig.conf <= FullConfidence => position <= room
         /\ sig.conf <= FullConfidence /\ multiplier <= 100 =>
               Limited(l, acct) /\ Worth(l) <= acct.equity * position
  <1> DEFINE s == sig.symbol
             p == HybridPosition(s, room, weight)
             conf == sig.conf
             equity == acct.equity
             n == l.lots
             value == LotValue(s)
             contract == Instrument[s].contract
             price == Instrument[s].price
             st == StopOf(s)
             single == 100 * MaxSinglePct
             much == equity * position
  <1>1. /\ p \in Nat /\ p <= room /\ p <= single /\ p * st <= RiskPerTrade * price * 100
        /\ st \in Nat \ {0} /\ price \in Nat /\ contract \in Nat /\ value \in Nat
    BY PositionFits, StopIs, InstrumentIs
  <1>2. RiskPerTrade \in Nat /\ MaxSinglePct \in Nat /\ single \in Nat
    BY SizingAssumption, ProductIs
  <1>3. position = (p * conf) \div 20
    BY DEF PositionOf, FullConfidence
  <1>4. value = contract * price
    BY DEF LotValue
  <1>5. conf \in Nat /\ equity \in Nat /\ FullConfidence = 20
    BY DEF FullConfidence
  <1>6. Worth(l) = n * value * 100 /\ AtRisk(l) = n * contract * st
    BY DEF Worth, AtRisk
  <1>7. n = LotsFor(s, equity, position, multiplier)
    OBVIOUS
  <1> HIDE DEF p, conf, equity, n, value, contract, price, st, single
  <1>8. position \in Nat /\ (conf <= 20 => position <= p)
    <2> DEFINE x == p * conf
    <2>1. x \in Nat
      BY <1>1, <1>5, ProductIs
    <2>2. conf <= 20 => x <= p * 20
      BY <1>1, <1>5, ProductsGrow, 20 \in Nat
    <2>3. position = x \div 20
      BY <1>3
    <2> HIDE DEF x
    <2>4. QED
      BY <1>1, <2>1, <2>2, <2>3, SMT
  <1>9. conf <= 20 => position <= room /\ position <= single
    BY <1>1, <1>2, <1>8, SMT
  <1>10. conf <= 20 => position * st <= RiskPerTrade * price * 100
    <2> SUFFICES ASSUME conf <= 20 PROVE position * st <= RiskPerTrade * price * 100
      OBVIOUS
    <2>1. position * st \in Nat /\ p * st \in Nat /\ position * st <= p * st
      BY <1>1, <1>8, ProductsGrow, st \in Nat
    <2>2. RiskPerTrade * price * 100 \in Nat
      BY <1>1, <1>2, ProductIs
    <2>3. QED
      BY <1>1, <2>1, <2>2, SMT
  <1>11. ASSUME conf <= 20, multiplier <= 100 PROVE Limited(l, acct) /\ Worth(l) <= much
    <2>1. n \in Nat /\ n * (100 * value) <= much /\ (value = 0 => n = 0)
      <3>1. s \in Symbols /\ equity \in Nat /\ position \in Nat /\ multiplier \in Int
        BY <1>5, <1>8
      <3> HIDE DEF s
      <3>2. /\ LotsFor(s, equity, position, multiplier) \in Nat
            /\ multiplier <= 100 =>
                  LotsFor(s, equity, position, multiplier) * (100 * LotValue(s)) <= equity * position
            /\ LotValue(s) = 0 /\ multiplier <= 100 =>
                  LotsFor(s, equity, position, multiplier) = 0
        BY ONLY <3>1, LotsFit
      <3>3. n \in Nat /\ n * (100 * LotValue(s)) <= much /\ (LotValue(s) = 0 => n = 0)
        <4> HIDE DEF much
        <4>1. much = equity * position
          BY DEF much
        <4>2. QED
          BY ONLY <1>7, <1>11, <3>2, <4>1
      <3>4. QED
        BY ONLY <3>3 DEF value
    <2>2. n * value * 100 = n * (100 * value)
      <3>1. n \in Nat /\ value \in Nat
        BY <1>1, <2>1
      <3> QED
        BY ONLY <3>1, SMT
    <2>3. much \in Nat /\ much <= equity * single
      BY <1>2, <1>5, <1>8, <1>9, <1>11, ProductsGrow
    <2>4. equity * single = equity * 100 * MaxSinglePct /\ equity * single \in Nat
      BY <1>2, <1>5, SMT DEF single
    <2>5. n * (100 * value) \in Nat
      BY <1>1, <2>1, SMT
    <2>6. Worth(l) <= much /\ Worth(l) <= equity * 100 * MaxSinglePct
      BY <1>6, <2>1, <2>2, <2>3, <2>4, <2>5, SMT
    <2>7. AtRisk(l) <= equity * RiskPerTrade
      <3>1. CASE n = 0
        <4>1. n * contract * st = 0 /\ equity * RiskPerTrade \in Nat
          BY <1>1, <1>2, <1>5, <3>1, ProductIs, SMT
        <4>2. QED
          BY <1>6, <4>1, SMT
      <3>2. CASE n # 0
        <4> DEFINE c == price * 100
                   lost == n * contract * st
                   risk == equity * RiskPerTrade
        <4>1. value # 0 /\ price # 0
          BY <1>1, <1>4, <2>1, <3>2, SMT
        <4>2. c \in Nat /\ c > 0
          BY <1>1, <4>1, SMT
        <4>3. lost \in Nat /\ risk \in Nat
          BY <1>1, <1>2, <1>5, <2>1, ProductIs
        <4>4. lost * c = (n * (100 * value)) * st
          <5>1. (n * contract * st) * (price * 100) = (n * (100 * (contract * price))) * st
            BY <1>1, <2>1, SMT
          <5>2. QED
            BY <1>4, <5>1
        <4>5. (n * (100 * value)) * st <= much * st /\ much * st \in Nat /\ (n * (100 * value)) * st \in Nat
          BY <1>1, <2>1, <2>3, <2>5, ProductsGrow, st \in Nat
        <4>6. much * st = equity * (position * st)
          BY <1>1, <1>5, <1>8, SMT
        <4>7. equity * (position * st) <= equity * (RiskPerTrade * price * 100)
          <5>1. position * st \in Nat /\ RiskPerTrade * price * 100 \in Nat
            BY <1>1, <1>2, <1>8, ProductIs
          <5>2. QED
            BY <1>5, <1>10, <1>11, <5>1, ProductsGrow
        <4>8. equity * (RiskPerTrade * price * 100) = risk * c
          BY <1>1, <1>2, <1>5, SMT
        <4> HIDE DEF c, lost, risk, much
        <4>9. lost * c <= risk * c
          <5>1. lost * c \in Nat /\ risk * c \in Nat
            BY <4>2, <4>3, ProductIs
          <5>2. QED
            BY <4>4, <4>5, <4>6, <4>7, <4>8, <5>1, SMT
        <4>10. lost <= risk
          <5> SUFFICES ASSUME risk + 1 <= lost PROVE FALSE
            BY <4>3, SMT
          <5>1. (risk + 1) * c <= lost * c /\ (risk + 1) * c \in Nat /\ lost * c \in Nat
            BY <4>2, <4>3, ProductsGrow, risk + 1 \in Nat
          <5>2. (risk + 1) * c = risk * c + c /\ risk * c \in Nat
            BY <4>2, <4>3, SMT
          <5>3. QED
            BY <4>2, <4>9, <5>1, <5>2, SMT
        <4>11. QED
          BY <1>6, <4>10 DEF lost, risk
      <3>3. QED
        BY <3>1, <3>2
    <2>8. l.symbol \in Symbols /\ l.lots \in Nat
      BY <2>1 DEF n
    <2>9. QED
      BY <2>6, <2>7, <2>8 DEF Limited, equity
  <1>12. QED
    BY <1>5, <1>8, <1>9, <1>11 DEF conf, much, equity

-----------------------------------------------------------------------------
(* The orders of a run                                                     *)

\* lot_multiplier of the group of a symbol, which is 1 where there is none
LEMMA HomeLots ==
  ASSUME NEW n \in DOMAIN Loaded, NEW s \in Symbols
  PROVE  Homes[n][s].lots \in Int
  <1>1. CASE Homes[n][s] = NoGroup
    BY <1>1 DEF NoGroup
  <1>2. CASE Homes[n][s] # NoGroup
    <2>1. PICK i \in 1..Len(Loaded[n].groups) : Homes[n][s] = Loaded[n].groups[i]
      BY <1>2, HomesAre
    <2>2. IsSeq(Loaded[n].groups)
      BY GroupsOfSettings
    <2>3. Loaded[n].groups[i] \in ToSet(Loaded[n].groups)
      BY <2>1, <2>2, SeqFacts DEF ToSet
    <2>4. QED
      BY <2>1, <2>3, SizesAssumption
  <1>3. QED
    BY <1>1, <1>2

\* What a sequence of additions comes to: it exists, never falls, and begins with 0.
Added(P, f, n) == f = [i \in 0..n |-> IF i = 0 THEN 0 ELSE f[i - 1] + P[i][f[i - 1]]]
\* Numbers that are added one after the other.
LEMMA AddedIs ==
  ASSUME NEW n \in Nat, NEW P, P \in [1..n -> [Nat -> Nat]]
  PROVE  /\ \E f : Added(P, f, n)
         /\ \A f : Added(P, f, n) =>
               /\ \A i \in 0..n : f[i] \in Nat
               /\ \A i \in 1..n : f[i] = f[i - 1] + P[i][f[i - 1]]
               /\ \A i, k \in 0..n : i <= k => f[i] <= f[k]
  <1> DEFINE F == [i \in 1..n |-> [b \in Nat |-> b + P[i][b]]]
             W == [i \in 0..n |-> Nat]
  <1>1. ASSUME NEW i \in 1..n, NEW b \in Nat PROVE P[i][b] \in Nat /\ b + P[i][b] \in Nat /\ F[i][b] = b + P[i][b]
    <2>1. F[i][b] = b + P[i][b]
      OBVIOUS
    <2>2. P[i] \in [Nat -> Nat]
      OBVIOUS
    <2>3. P[i][b] \in Nat
      BY <2>2
    <2> DEFINE p == P[i][b]
    <2> HIDE DEF p
    <2>4. p \in Nat => b + p \in Nat
      OBVIOUS
    <2>5. QED
      BY <2>1, <2>3, <2>4 DEF p
  <1>2. Leads(F, W, n)
    <2>1. ASSUME NEW i \in 1..n PROVE F[i] \in [W[i - 1] -> W[i]]
      <3>1. W[i - 1] = Nat /\ W[i] = Nat
        BY SMT
      <3>2. F[i] = [b \in Nat |-> b + P[i][b]]
        OBVIOUS
      <3>3. \A b \in Nat : b + P[i][b] \in Nat
        BY <1>1
      <3> HIDE DEF F, W
      <3>4. QED
        BY <3>1, <3>2, <3>3
    <2>2. QED
      BY <2>1 DEF Leads
  <1>3. W[0] = Nat /\ \A i \in 0..n : W[i] = Nat
    OBVIOUS
  <1> HIDE DEF F, W
  <1>4. \E f : Added(P, f, n)
    <2>1. \E g : Steps(F, 0, g, n) /\ \A i \in 0..n : g[i] \in W[i]
      BY <1>2, <1>3, StepsExist
    <2>2. PICK g : Steps(F, 0, g, n) /\ \A i \in 0..n : g[i] \in W[i]
      BY <2>1
    <2>3. \A i \in 0..n : g[i] \in Nat
      BY <1>3, <2>2
    <2> DEFINE H(i) == IF i = 0 THEN 0 ELSE F[i][g[i - 1]]
               K(i) == IF i = 0 THEN 0 ELSE g[i - 1] + P[i][g[i - 1]]
    <2>4. g = [i \in 0..n |-> H(i)]
      BY <2>2 DEF Steps
    <2>5. \A i \in 0..n : H(i) = K(i)
      <3> SUFFICES ASSUME NEW i \in 0..n, i # 0 PROVE F[i][g[i - 1]] = g[i - 1] + P[i][g[i - 1]]
        OBVIOUS
      <3>1. i \in 1..n /\ i - 1 \in 0..n
        BY SMT
      <3>2. QED
        BY <1>1, <2>3, <3>1
    <2> HIDE DEF H, K
    <2>6. g = [i \in 0..n |-> K(i)]
      BY <2>4, <2>5
    <2>7. QED
      BY <2>6 DEF Added, K
  <1>5. ASSUME NEW f, Added(P, f, n)
        PROVE  /\ \A i \in 0..n : f[i] \in Nat
               /\ \A i \in 1..n : f[i] = f[i - 1] + P[i][f[i - 1]]
               /\ \A i, k \in 0..n : i <= k => f[i] <= f[k]
    <2>1. f[0] = 0 /\ \A i \in 1..n : f[i] = f[i - 1] + P[i][f[i - 1]]
      <3>1. \A i \in 0..n : f[i] = IF i = 0 THEN 0 ELSE f[i - 1] + P[i][f[i - 1]]
        BY <1>5 DEF Added
      <3>2. \A i \in 1..n : i \in 0..n /\ i # 0
        OBVIOUS
      <3>3. QED
        BY <3>1, <3>2
    <2> DEFINE S == {i \in 0..n : f[i] \in Nat}
    <2>2. 0 \in S
      BY <2>1
    <2>3. ASSUME NEW i \in 1..n, i - 1 \in S PROVE i \in S
      <3> DEFINE a == f[i - 1]
      <3>1. a \in Nat /\ f[i] = a + P[i][a] /\ i \in 0..n
        BY <2>1, <2>3
      <3> HIDE DEF a
      <3>2. f[i] \in Nat
        BY <1>1, <3>1
      <3>3. QED
        BY <3>1, <3>2
    <2>4. \A i \in 0..n : f[i] \in Nat
      <3> HIDE DEF S
      <3>1. \A i \in 0..n : i \in S
        BY <2>2, <2>3, Upward
      <3>2. QED
        BY <3>1 DEF S
    <2>5. ASSUME NEW i \in 0..n PROVE \A k \in 0..n : i <= k => f[i] <= f[k]
      <3> DEFINE T == {k \in 0..n : i <= k => f[i] <= f[k]}
      <3>1. 0 \in T
        <4>1. i <= 0 => i = 0
          OBVIOUS
        <4>2. QED
          BY <2>4, <4>1
      <3>2. ASSUME NEW k \in 1..n, k - 1 \in T PROVE k \in T
        <4>1. k \in 0..n /\ k - 1 \in 0..n /\ (i <= k => i = k \/ i <= k - 1)
          OBVIOUS
        <4>2. f[k - 1] <= f[k] /\ f[k] \in Nat /\ f[k - 1] \in Nat /\ f[i] \in Nat
          <5> DEFINE a == f[k - 1]
                     p == P[k][a]
          <5>1. a \in Nat /\ f[k] \in Nat /\ f[i] \in Nat
            BY <2>4, <4>1
          <5>2. f[k] = a + p
            BY <2>1
          <5> HIDE DEF a
          <5>3. p \in Nat
            BY <1>1, <5>1
          <5> HIDE DEF p
          <5>4. a <= f[k]
            BY <5>1, <5>2, <5>3
          <5>5. QED
            BY <5>1, <5>4 DEF a
        <4>3. i <= k - 1 => f[i] <= f[k - 1]
          BY <3>2
        <4> DEFINE a == f[k - 1]
                   b == f[k]
                   c == f[i]
        <4>4. a \in Nat /\ b \in Nat /\ c \in Nat /\ a <= b /\ (i <= k - 1 => c <= a) /\ (i = k => c = b)
          BY <4>2, <4>3
        <4> HIDE DEF a, b, c
        <4>5. i <= k => c <= b
          BY <4>1, <4>4
        <4>6. QED
          BY <4>1, <4>5 DEF b, c
      <3> HIDE DEF T
      <3>3. \A k \in 0..n : k \in T
        BY <3>1, <3>2, Upward
      <3>4. QED
        BY <3>3 DEF T
    <2>6. QED
      BY <2>1, <2>4, <2>5
  <1>6. QED
    BY <1>4, <1>5

-----------------------------------------------------------------------------
(* Weights and strengths                                                   *)

\* The sum of numbers is one.
LEMMA TotalIs ==
  ASSUME NEW S, IsFiniteSet(S), NEW f \in [S -> Nat]
  PROVE  Total(f) \in Nat
  <1> DEFINE H(h, T) == IF T = {} THEN 0 ELSE f[Pick(T)] + h[T \ {Pick(T)}]
             D == DOMAIN f
             i == CHOOSE h : h = [T \in SUBSET D |-> H(h, T)]
  <1>1. Total(f) = i[D]
    BY DEF Total, FoldFunction, FoldFunctionOnSet, MapThenFoldSet, Pick
  <1>2. D = S /\ f \in [S -> Int] /\ \A x \in S : f[x] >= 0
    OBVIOUS
  <1>3. PICK h \in [SUBSET S -> Int] : \A T \in SUBSET S : h[T] = H(h, T)
    <2>1. \E h \in [SUBSET S -> Int] : Sums(f, h, S)
      BY <1>2, SumsExist
    <2> QED
      BY <2>1 DEF Sums
  <1> HIDE DEF D
  <1>4. h = [T \in SUBSET D |-> H(h, T)]
    <2> HIDE DEF H
    <2>1. h = [T \in SUBSET S |-> H(h, T)]
      BY <1>3
    <2> QED
      BY <1>2, <2>1
  <1>5. i = [T \in SUBSET D |-> H(i, T)]
    <2> HIDE DEF H
    <2> QED
      BY <1>4
  <1>6. \A T \in SUBSET S : i[T] = H(i, T)
    <2> HIDE DEF H, i
    <2> QED
      BY <1>2, <1>5
  <1> HIDE DEF i
  <1>7. Sums(f, i, S)
    BY <1>6 DEF Sums
  <1>8. i[S] \in Int /\ i[S] >= 0
    <2>1. S \in SUBSET S
      OBVIOUS
    <2> QED
      BY <1>2, <1>7, <2>1, SumsType, SumsSign
  <1> QED
    BY <1>1, <1>2, <1>8

\* The strength of some signals together is a number.
LEMMA SumOfIs ==
  ASSUME NEW S, IsFiniteSet(S), NEW sigs, \A k \in S : sigs[k].strength \in Nat
  PROVE  SumOf(S, sigs) \in Nat
  <1> DEFINE f == [k \in S |-> sigs[k].strength]
             H(h, T) == IF T = {} THEN 0 ELSE sigs[Pick(T)].strength + h[T \ {Pick(T)}]
             i == CHOOSE h : h = [T \in SUBSET S |-> H(h, T)]
  <1>1. SumOf(S, sigs) = i[S]
    BY DEF SumOf, FoldSet, MapThenFoldSet, Pick
  <1>2. f \in [S -> Int] /\ \A x \in S : f[x] >= 0
    OBVIOUS
  <1>3. \A T \in SUBSET S : T # {} => f[Pick(T)] = sigs[Pick(T)].strength
    <2>1. \A T \in SUBSET S : T # {} => Pick(T) \in S
      BY DEF Pick
    <2> QED
      BY <2>1
  <1> HIDE DEF f
  <1>4. PICK h \in [SUBSET S -> Int] : \A T \in SUBSET S : h[T] = H(h, T)
    <2>1. PICK h \in [SUBSET S -> Int] : Sums(f, h, S)
      BY <1>2, SumsExist
    <2>2. \A T \in SUBSET S : h[T] = H(h, T)
      BY <1>3, <2>1 DEF Sums
    <2> HIDE DEF H
    <2> QED
      BY <2>2
  <1>5. h = [T \in SUBSET S |-> H(h, T)]
    <2> HIDE DEF H
    <2> QED
      BY <1>4
  <1>6. i = [T \in SUBSET S |-> H(i, T)]
    <2> HIDE DEF H
    <2> QED
      BY <1>5
  <1>7. \A T \in SUBSET S : i[T] = H(i, T)
    <2> HIDE DEF H, i
    <2> QED
      BY <1>6
  <1> HIDE DEF i
  <1>8. Sums(f, i, S)
    BY <1>3, <1>7 DEF Sums
  <1>9. i[S] \in Int /\ i[S] >= 0
    <2>1. S \in SUBSET S
      OBVIOUS
    <2> QED
      BY <1>2, <1>8, <2>1, SumsType, SumsSign
  <1> QED
    BY <1>1, <1>9

\* Shares are numbers, also where nothing adds up.
LEMMA SharesIs ==
  ASSUME NEW S, IsFiniteSet(S), NEW f \in [S -> Nat]
  PROVE  Shares(f) \in [S -> Nat]
  <1> DEFINE t == Total(f)
             c == Cardinality(S)
  <1>1. t \in Nat /\ DOMAIN f = S
    BY TotalIs
  <1>2. Shares(f) = [s \in S |-> IF t = 0 THEN 100 \div c ELSE (100 * f[s]) \div t]
    BY <1>1 DEF Shares
  <1>3. c \in Nat
    BY FS_CardinalityType
  <1>4. ASSUME NEW s \in S PROVE c # 0
    BY FS_EmptySet
  <1> HIDE DEF t, c
  <1>5. ASSUME NEW s \in S PROVE (IF t = 0 THEN 100 \div c ELSE (100 * f[s]) \div t) \in Nat
    <2>1. f[s] \in Nat
      OBVIOUS
    <2> DEFINE a == f[s]
    <2> HIDE DEF a
    <2>2. a \in Nat /\ 100 * a \in Nat /\ c \in Nat /\ c # 0
      BY <1>3, <1>4, <2>1 DEF a
    <2>3. 100 \div c \in Nat
      BY <2>2, Quotients
    <2>4. t # 0 => (100 * a) \div t \in Nat
      BY <1>1, <2>2, Quotients
    <2> QED
      BY <2>3, <2>4 DEF a
  <1> QED
    BY <1>2, <1>5

\* inverse_volatility_weights, cap_weights and the cut at the risk of the benchmark
\* give numbers.
LEMMA WeightsAre ==
  ASSUME NEW vol \in Vols, NEW S \in SUBSET Symbols, IsFiniteSet(S)
  PROVE  /\ InverseVolatility(vol, S) \in [S -> Nat]
         /\ Levered(Capped(InverseVolatility(vol, S)), vol) \in [S -> Nat]
  <1> DEFINE f == [s \in S |-> 100 \div vol[s]]
             w == Shares(f)
             g == [s \in S |-> Min({w[s], MaxSingleWeight})]
             c == Shares(g)
             part == [s \in S |-> (c[s] * vol[s]) \div 10]
             squares == [s \in S |-> part[s] * part[s]]
             risk == Root(Total(squares))
  <1>1. \A s \in S : vol[s] \in Nat \ {0}
    BY SizesAssumption
  <1>2. f \in [S -> Nat]
    <2>1. \A s \in S : 100 \div vol[s] \in Nat
      BY <1>1, Quotients
    <2> QED
      BY <2>1
  <1>3. InverseVolatility(vol, S) = w
    BY DEF InverseVolatility
  <1> HIDE DEF f
  <1>4. w \in [S -> Nat]
    BY <1>2, SharesIs
  <1> HIDE DEF w
  <1>5. g \in [S -> Nat]
    <2>1. MaxSingleWeight \in Nat
      BY SizesAssumption
    <2>2. ASSUME NEW s \in S PROVE Min({w[s], MaxSingleWeight}) \in Nat
      <3>1. w[s] \in Nat
        BY <1>4
      <3> QED
        BY <2>1, <3>1, SmallerOf
    <2> QED
      BY <2>2
  <1>6. DOMAIN w = S /\ Capped(w) = c
    BY <1>4 DEF Capped
  <1> HIDE DEF g
  <1>7. c \in [S -> Nat]
    BY <1>5, SharesIs
  <1> HIDE DEF c
  <1>8. \A s \in S : part[s] \in Nat
    <2> SUFFICES ASSUME NEW s \in S PROVE (c[s] * vol[s]) \div 10 \in Nat
      OBVIOUS
    <2>1. c[s] \in Nat /\ vol[s] \in Nat
      BY <1>1, <1>7
    <2>2. c[s] * vol[s] \in Nat
      BY <2>1, ProductIs
    <2> QED
      BY <2>2, Quotients
  <1>9. Levered(c, vol) = [s \in S |-> IF risk <= MaxRisk THEN c[s] ELSE (c[s] * MaxRisk) \div risk]
    <2>1. DOMAIN c = S
      BY <1>7
    <2> QED
      BY <2>1 DEF Levered
  <1> HIDE DEF part
  <1>10. squares \in [S -> Nat]
    BY <1>8, ProductIs
  <1> HIDE DEF squares
  <1>11. risk \in Nat
    BY <1>10, TotalIs, Roots
  <1> HIDE DEF risk
  <1>12. ASSUME NEW s \in S PROVE (IF risk <= MaxRisk THEN c[s] ELSE (c[s] * MaxRisk) \div risk) \in Nat
    <2>1. c[s] \in Nat /\ MaxRisk \in Nat
      BY <1>7, SizesAssumption
    <2>2. c[s] * MaxRisk \in Nat
      BY <2>1, ProductIs
    <2>3. ~(risk <= MaxRisk) => risk > 0
      BY <1>11, <2>1
    <2>4. ~(risk <= MaxRisk) => (c[s] * MaxRisk) \div risk \in Nat
      BY <1>11, <2>2, <2>3, Quotients
    <2> QED
      BY <2>1, <2>4
  <1>13. Levered(c, vol) \in [S -> Nat]
    BY <1>9, <1>12
  <1> QED
    BY <1>3, <1>4, <1>6, <1>13

\* What a signal carries: its numbers are not negative, its weight may not be set yet.
Numeric(x) ==
  /\ {"symbol", "strength", "conf", "weight"} \subseteq DOMAIN x
  /\ x.symbol \in Symbols
  /\ x.strength \in Nat /\ x.conf \in Nat /\ x.weight \in Nat \union {None}
AllNumeric(s) == \A i \in 1..Len(s) : Numeric(s[i])

\* What finitely many members are taken to is finite.
LEMMA ImageFinite ==
  ASSUME NEW S, IsFiniteSet(S), NEW f
  PROVE  IsFiniteSet({f[x] : x \in S})
  <1> DEFINE R == {f[x] : x \in S}
             g == [x \in S |-> f[x]]
  <1>1. g \in [S -> R] /\ \A y \in R : \E x \in S : g[x] = y
    OBVIOUS
  <1> HIDE DEF g, R
  <1>2. g \in Surjection(S, R)
    BY <1>1 DEF Surjection
  <1>3. IsFiniteSet(R)
    BY <1>2, FS_Surjection
  <1> QED
    BY <1>3 DEF R

\* The symbols of some signals are finitely many.
LEMMA SymbolsFinite ==
  ASSUME NEW sigs, IsSeq(sigs), AllNumeric(sigs)
  PROVE  /\ {sigs[i].symbol : i \in 1..Len(sigs)} \in SUBSET Symbols
         /\ IsFiniteSet({sigs[i].symbol : i \in 1..Len(sigs)})
  <1> DEFINE all == 1..Len(sigs)
             f == [i \in all |-> sigs[i].symbol]
  <1>1. IsFiniteSet(all)
    BY Positions
  <1>2. {sigs[i].symbol : i \in all} \in SUBSET Symbols
    BY DEF AllNumeric, Numeric
  <1>3. {sigs[i].symbol : i \in all} = {f[i] : i \in all}
    OBVIOUS
  <1> HIDE DEF all, f
  <1>4. IsFiniteSet({f[i] : i \in all})
    BY <1>1, ImageFinite
  <1> QED
    BY <1>2, <1>3, <1>4 DEF all

\* decide: the weight a signal is sized by is a number.
LEMMA WeightIs ==
  ASSUME NEW sigs, IsSeq(sigs), AllNumeric(sigs), NEW vol \in Vols, NEW i \in 1..Len(sigs)
  PROVE  WeightOf(sigs[i].symbol, sigs, vol) \in Nat
  <1> DEFINE s == sigs[i].symbol
             syms == {sigs[k].symbol : k \in 1..Len(sigs)}
             given == {k \in 1..Len(sigs) : sigs[k].weight # None}
             own == {k \in given : sigs[k].symbol = s}
             each == InverseVolatility(vol, syms)
  <1>1. WeightOf(s, sigs, vol) = IF given = {} THEN each[s]
                                 ELSE IF own = {} THEN 100 \div Len(sigs) ELSE sigs[Max(own)].weight
    BY DEF WeightOf
  <1>2. each[s] \in Nat
    <2>1. syms \in SUBSET Symbols /\ IsFiniteSet(syms) /\ s \in syms
      BY SymbolsFinite
    <2> HIDE DEF syms
    <2>2. each \in [syms -> Nat]
      BY <2>1, WeightsAre
    <2> QED
      BY <2>1, <2>2
  <1>3. 100 \div Len(sigs) \in Nat
    <2>1. Len(sigs) \in Nat /\ Len(sigs) > 0
      BY SeqFacts
    <2> QED
      BY <2>1, Quotients
  <1>4. ASSUME own # {} PROVE sigs[Max(own)].weight \in Nat
    <2>1. own \subseteq 0..Len(sigs) /\ Len(sigs) \in Nat
      BY SeqFacts
    <2>2. \A k \in own : sigs[k].weight \in Nat
      BY DEF AllNumeric, Numeric
    <2> HIDE DEF own
    <2>3. \E x \in own : \A y \in own : y <= x
      BY <1>4, <2>1, HasGreatest
    <2>4. \E x \in own : \A y \in own : x >= y
      BY <2>1, <2>3
    <2>5. Max(own) \in own
      BY <2>4 DEF Max
    <2> QED
      BY <2>2, <2>5
  <1> HIDE DEF given, own, each
  <1> QED
    BY <1>1, <1>2, <1>3, <1>4

\* The orders the property is about, and those of them that are worth anything
Fitting(n, l) == l.sized /\ l.conf <= FullConfidence /\ Homes[n][l.symbol].lots <= 100
Filled(n, l)  == Fitting(n, l) /\ Worth(l) > 0

\* Every order has a place of its own in the room of the account, as long as it is worth.
Seated(n, orders, acct, b) ==
  /\ \A i \in 1..Len(orders) : Fitting(n, orders[i]) => Limited(orders[i], acct)
  /\ \A i \in 1..Len(orders) : Filled(n, orders[i]) =>
        /\ b[i] \in Nat /\ Worth(orders[i]) \in Nat
        /\ b[i] + Worth(orders[i]) <= acct.equity * Room(acct)
  /\ \A i, k \in 1..Len(orders) : Filled(n, orders[i]) /\ Filled(n, orders[k]) /\ i < k =>
        b[i] + Worth(orders[i]) <= b[k]
InRoom(n, orders, acct) == \E b : Seated(n, orders, acct, b)

\* An order without lots
LEMMA NoLots ==
  ASSUME NEW sig, sig.symbol \in Symbols, NEW acct, acct.equity \in Nat, NEW l, l = Order(sig, 0, TRUE)
  PROVE  Limited(l, acct) /\ Worth(l) = 0
  <1> DEFINE s == sig.symbol
             value == LotValue(s)
             contract == Instrument[s].contract
             st == StopOf(s)
             single == acct.equity * 100 * MaxSinglePct
             risk == acct.equity * RiskPerTrade
  <1>1. l.symbol = s /\ l.lots = 0
    BY DEF Order
  <1>2. value \in Nat /\ contract \in Nat /\ st \in Nat
    BY InstrumentIs, StopIs
  <1>3. single \in Nat /\ risk \in Nat
    <2>1. MaxSinglePct \in Nat /\ RiskPerTrade \in Nat
      BY SizingAssumption
    <2> QED
      BY <2>1, ProductIs
  <1> DEFINE worth == Worth(l)
             atRisk == AtRisk(l)
  <1> HIDE DEF s, value, contract, st
  <1>4. worth = 0 * value * 100 /\ atRisk = 0 * contract * st
    BY <1>1 DEF Worth, AtRisk, value, contract, st
  <1>5. s \in Symbols
    BY DEF s
  <1> HIDE DEF worth, atRisk, single, risk
  <1>6. worth = 0 /\ atRisk = 0
    BY <1>2, <1>4
  <1>7. worth <= single /\ atRisk <= risk
    BY <1>3, <1>6
  <1>8. Limited(l, acct)
    <2>1. Worth(l) <= acct.equity * 100 * MaxSinglePct
      BY ONLY <1>7 DEF worth, single
    <2>2. AtRisk(l) <= acct.equity * RiskPerTrade
      BY ONLY <1>7 DEF atRisk, risk
    <2>3. l.symbol \in Symbols /\ l.lots \in Nat
      BY ONLY <1>1, <1>5
    <2> QED
      BY <2>1, <2>2, <2>3 DEF Limited
  <1> QED
    BY <1>6, <1>8 DEF worth

\* The room of an account is a number.
LEMMA RoomIs ==
  ASSUME NEW acct \in Accounts
  PROVE  acct.equity \in Nat /\ Room(acct) \in Nat
  <1>1. acct.equity \in Nat /\ acct.exposure \in Nat /\ MaxTotalPct \in Nat
    BY SizesAssumption, SizingAssumption
  <1>2. Positive(MaxTotalPct - acct.exposure) \in Nat
    BY <1>1, PositiveIs
  <1> QED
    BY <1>1, <1>2, ProductIs DEF Room

\* decide: one sized order after the other takes its place behind those before it.
LEMMA SizedInRoom ==
  ASSUME setup \in DOMAIN Loaded, NEW sigs, IsSeq(sigs), AllNumeric(sigs),
         NEW acct \in Accounts, NEW vol \in Vols, NEW closed, NEW unknown
  PROVE  InRoom(setup, Sized(sigs, acct, vol, closed, unknown), acct)
  <1> DEFINE Passed(i)       == sigs[i].conf < MinConfidence \/ sigs[i].symbol = closed
             Position(i, before) == IF Passed(i) THEN 0
                                    ELSE PositionOf(sigs[i], RoomLeft(acct, before), WeightOf(sigs[i].symbol, sigs, vol))
             taken[i \in 0..Len(sigs)] == IF i = 0 THEN 0 ELSE taken[i - 1] + Position(i, taken[i - 1])
             Lots(i) == LotsFor(sigs[i].symbol, acct.equity, Position(i, taken[i - 1]),
                                Home(sigs[i].symbol).lots)
             One(i) == IF Passed(i) THEN Order(sigs[i], 0, TRUE)
                       ELSE IF sigs[i].symbol = unknown THEN FallbackOrder(sigs[i])
                       ELSE Order(sigs[i], Lots(i), TRUE)
             f == [i \in 1..Len(sigs) |-> One(i)]
             n == Len(sigs)
             t == Sequence(f, n)
             all == 1..n
             equity == acct.equity
             room == Room(acct)
             P == [i \in all |-> [b \in Nat |-> Position(i, b)]]
             b == [i \in all |-> equity * taken[i - 1]]
  <1>1. Sized(sigs, acct, vol, closed, unknown) = t
    BY DEF Sized
  <1>2. n \in Nat /\ \A i \in all : sigs[i].symbol \in Symbols /\ sigs[i].conf \in Nat
    BY SeqFacts DEF AllNumeric, Numeric
  <1>3. equity \in Nat /\ room \in Nat
    BY RoomIs
  <1>4. \A i \in all : WeightOf(sigs[i].symbol, sigs, vol) \in Int
    BY WeightIs
  <1>5. \A i \in all : Home(sigs[i].symbol).lots \in Int
    BY <1>2, HomeLots DEF Home
  <1>6. \A before \in Nat : /\ RoomLeft(acct, before) \in Nat
                            /\ RoomLeft(acct, before) > 0 => before + RoomLeft(acct, before) = room
    <2> SUFFICES ASSUME NEW before \in Nat
                 PROVE  /\ RoomLeft(acct, before) \in Nat
                        /\ RoomLeft(acct, before) > 0 => before + RoomLeft(acct, before) = room
      OBVIOUS
    <2>1. RoomLeft(acct, before) = Positive(room - before)
      BY DEF RoomLeft
    <2> HIDE DEF room
    <2>2. room - before \in Int
      BY <1>3
    <2>3. Positive(room - before) \in Nat /\ (Positive(room - before) > 0 => Positive(room - before) = room - before)
      BY <2>2, PositiveIs
    <2> DEFINE x == Positive(room - before)
    <2>4. x \in Nat /\ (x > 0 => x = room - before)
      BY <2>3
    <2> HIDE DEF x
    <2>5. x > 0 => before + x = room
      BY <1>3, <2>4
    <2> QED
      BY <2>1, <2>4, <2>5 DEF x
  <1>7. ASSUME NEW i \in all, NEW before \in Nat, ~Passed(i)
        PROVE  /\ Position(i, before) \in Nat
               /\ sigs[i].conf <= FullConfidence => Position(i, before) <= RoomLeft(acct, before)
               /\ \A l : (/\ l.symbol = sigs[i].symbol /\ sigs[i].conf <= FullConfidence
                          /\ Home(sigs[i].symbol).lots <= 100
                          /\ l.lots = LotsFor(sigs[i].symbol, equity, Position(i, before), Home(sigs[i].symbol).lots)) =>
                            Limited(l, acct) /\ Worth(l) <= equity * Position(i, before)
    <2> DEFINE r == RoomLeft(acct, before)
               w == WeightOf(sigs[i].symbol, sigs, vol)
               m == Home(sigs[i].symbol).lots
               p == Position(i, before)
               sig == sigs[i]
    <2>1. r \in Nat /\ w \in Int /\ m \in Int /\ sig.symbol \in Symbols /\ sig.conf \in Nat /\ acct.equity \in Nat
      BY <1>2, <1>3, <1>4, <1>5, <1>6
    <2>2. p = PositionOf(sig, r, w)
      BY <1>7
    <2> HIDE DEF r, w, m, p, sig, Passed
    <2>3. \A l : l.symbol = sig.symbol /\ l.lots = LotsFor(sig.symbol, acct.equity, p, m) =>
                   /\ p \in Nat
                   /\ sig.conf <= FullConfidence => p <= r
                   /\ sig.conf <= FullConfidence /\ m <= 100 => Limited(l, acct) /\ Worth(l) <= acct.equity * p
      <3> SUFFICES ASSUME NEW l, l.symbol = sig.symbol, l.lots = LotsFor(sig.symbol, acct.equity, p, m)
                   PROVE  /\ p \in Nat
                          /\ sig.conf <= FullConfidence => p <= r
                          /\ sig.conf <= FullConfidence /\ m <= 100 => Limited(l, acct) /\ Worth(l) <= acct.equity * p
        OBVIOUS
      <3> QED
        BY <2>1, <2>2, OrderFits
    <2>4. p \in Nat /\ (sig.conf <= FullConfidence => p <= r)
      <3> DEFINE l == [symbol |-> sig.symbol, lots |-> LotsFor(sig.symbol, acct.equity, p, m)]
      <3>1. l.symbol = sig.symbol /\ l.lots = LotsFor(sig.symbol, acct.equity, p, m)
        OBVIOUS
      <3> HIDE DEF l
      <3> QED
        BY <2>3, <3>1
    <2>5. \A l : (/\ l.symbol = sig.symbol /\ sig.conf <= FullConfidence /\ m <= 100
                  /\ l.lots = LotsFor(sig.symbol, acct.equity, p, m)) =>
                    Limited(l, acct) /\ Worth(l) <= acct.equity * p
      BY <2>1, <2>3
    <2> HIDE DEF Position
    <2> QED
      BY <2>4, <2>5, Zenon DEF r, m, p, sig
  <1>8. ASSUME NEW i \in all, NEW before \in Nat PROVE Position(i, before) \in Nat
    <2>1. CASE Passed(i)
      BY <2>1
    <2>2. CASE ~Passed(i)
      BY <1>7, <2>2
    <2> QED
      BY <2>1, <2>2
  <1>9. P \in [all -> [Nat -> Nat]]
    <2> HIDE DEF Position, all
    <2> QED
      BY <1>8
  <1>10. Added(P, taken, n)
    <2> DEFINE A(g) == [i \in 0..n |-> IF i = 0 THEN 0 ELSE g[i - 1] + Position(i, g[i - 1])]
               B(g) == [i \in 0..n |-> IF i = 0 THEN 0 ELSE g[i - 1] + P[i][g[i - 1]]]
    <2>1. PICK g : Added(P, g, n)
      <3> HIDE DEF P
      <3> QED
        BY <1>2, <1>9, AddedIs
    <2>2. \A i \in 0..n : g[i] \in Nat
      <3> HIDE DEF P
      <3> QED
        BY <1>2, <1>9, <2>1, AddedIs
    <2>3. \A i \in 1..n : P[i][g[i - 1]] = Position(i, g[i - 1])
      <3> SUFFICES ASSUME NEW i \in 1..n PROVE P[i][g[i - 1]] = Position(i, g[i - 1])
        OBVIOUS
      <3>1. i - 1 \in 0..n /\ i \in all
        BY <1>2
      <3>2. g[i - 1] \in Nat
        BY <2>2, <3>1
      <3> DEFINE a == g[i - 1]
      <3> HIDE DEF a, Position
      <3>3. \A x \in Nat : P[i][x] = Position(i, x)
        BY <3>1
      <3>4. a \in Nat
        BY <3>2 DEF a
      <3> HIDE DEF P
      <3> QED
        BY <3>3, <3>4 DEF a
    <2>4. A(g) = B(g)
      <3> HIDE DEF P, Position
      <3>1. \A i \in 0..n : i # 0 => i \in 1..n
        BY <1>2
      <3>2. \A i \in 0..n : i # 0 => g[i - 1] + P[i][g[i - 1]] = g[i - 1] + Position(i, g[i - 1])
        BY <2>3, <3>1
      <3> QED
        BY <3>2
    <2>5. g = B(g)
      BY <2>1 DEF Added
    <2>6. taken = A(taken)
      <3>1. \E h : h = A(h)
        BY <2>4, <2>5
      <3>2. taken = CHOOSE h : h = A(h)
        OBVIOUS
      <3> HIDE DEF A, taken
      <3> QED
        BY <3>1, <3>2
    <2> HIDE DEF taken
    <2>7. \A i \in 0..n : taken[i] = IF i = 0 THEN 0 ELSE taken[i - 1] + Position(i, taken[i - 1])
      <3> HIDE DEF Position
      <3> QED
        BY <2>6
    <2> DEFINE T == {i \in 0..n : taken[i] \in Nat}
    <2>8. 0 \in T
      BY <1>2, <2>7
    <2>9. ASSUME NEW i \in 1..n, i - 1 \in T PROVE i \in T
      <3> DEFINE a == taken[i - 1]
      <3>1. a \in Nat /\ taken[i] = a + Position(i, a) /\ i \in all /\ i \in 0..n
        BY <1>2, <2>7, <2>9
      <3>2. Position(i, a) \in Nat
        BY <1>8, <3>1
      <3> DEFINE x == Position(i, a)
      <3> HIDE DEF a, x, Position
      <3>3. x \in Nat /\ taken[i] = a + x
        BY <3>1, <3>2 DEF x
      <3>4. taken[i] \in Nat
        BY <3>1, <3>3
      <3> QED
        BY <3>1, <3>4
    <2>10. \A i \in 0..n : taken[i] \in Nat
      <3> HIDE DEF T
      <3>1. \A i \in 0..n : i \in T
        BY <1>2, <2>8, <2>9, Upward
      <3> QED
        BY <3>1 DEF T
    <2>11. \A i \in 1..n : P[i][taken[i - 1]] = Position(i, taken[i - 1])
      <3> SUFFICES ASSUME NEW i \in 1..n PROVE P[i][taken[i - 1]] = Position(i, taken[i - 1])
        OBVIOUS
      <3>1. i - 1 \in 0..n /\ i \in all
        BY <1>2
      <3>2. taken[i - 1] \in Nat
        BY <2>10, <3>1
      <3> DEFINE a == taken[i - 1]
      <3> HIDE DEF a, Position
      <3>3. \A x \in Nat : P[i][x] = Position(i, x)
        BY <3>1
      <3>4. a \in Nat
        BY <3>2 DEF a
      <3> HIDE DEF P
      <3> QED
        BY <3>3, <3>4 DEF a
    <2>12. A(taken) = B(taken)
      <3> HIDE DEF P, Position
      <3>1. \A i \in 0..n : i # 0 => i \in 1..n
        BY <1>2
      <3>2. \A i \in 0..n : i # 0 => taken[i - 1] + P[i][taken[i - 1]] = taken[i - 1] + Position(i, taken[i - 1])
        BY <2>11, <3>1
      <3> QED
        BY <3>2
    <2> QED
      BY <2>6, <2>12 DEF Added
  <1> HIDE DEF P
  <1>11. /\ \A i \in 0..n : taken[i] \in Nat
         /\ \A i \in all : taken[i] = taken[i - 1] + P[i][taken[i - 1]]
         /\ \A i, k \in 0..n : i <= k => taken[i] <= taken[k]
    <2> HIDE DEF taken, all
    <2> QED
      BY <1>2, <1>9, <1>10, AddedIs DEF all
  <1>12. ASSUME NEW i \in all PROVE taken[i - 1] \in Nat /\ taken[i] = taken[i - 1] + Position(i, taken[i - 1])
    <2> HIDE DEF taken, Position
    <2>1. i - 1 \in 0..n
      BY <1>2
    <2>2. taken[i - 1] \in Nat /\ taken[i] = taken[i - 1] + P[i][taken[i - 1]]
      BY <1>11, <2>1
    <2> DEFINE a == taken[i - 1]
    <2> HIDE DEF a
    <2>3. a \in Nat /\ P[i] = [x \in Nat |-> Position(i, x)]
      BY <2>2 DEF P, a
    <2>4. P[i][a] = Position(i, a)
      BY <2>3
    <2> QED
      BY <2>2, <2>4 DEF a
  <1>13. IsSeq(t) /\ Len(t) = n /\ \A i \in all : t[i] = One(i)
    <2>1. n \in Nat
      BY <1>2
    <2> HIDE DEF One, n
    <2>2. \A i \in all : f[i] = One(i)
      BY DEF n
    <2> HIDE DEF f
    <2> QED
      BY <2>1, <2>2, SequenceIs
  <1>14. ASSUME NEW i \in all
         PROVE  /\ Fitting(setup, t[i]) => Limited(t[i], acct)
                /\ Filled(setup, t[i]) => /\ Worth(t[i]) \in Nat /\ taken[i - 1] \in Nat /\ taken[i] \in Nat
                                          /\ equity * taken[i - 1] + Worth(t[i]) <= equity * taken[i]
                                          /\ taken[i] <= room
    <2> DEFINE l == t[i]
               a == taken[i - 1]
               p == Position(i, a)
               r == RoomLeft(acct, a)
               value == Worth(l)
    <2>1. l = One(i) /\ sigs[i].symbol \in Symbols
      BY <1>2, <1>13
    <2>2. a \in Nat /\ p \in Nat /\ taken[i] = a + p
      <3> HIDE DEF Position, taken
      <3> QED
        BY <1>8, <1>12
    <2>3. r \in Nat /\ (r > 0 => a + r = room)
      <3> HIDE DEF room, a
      <3> QED
        BY <1>6, <2>2
    <2>4. CASE Passed(i)
      <3>1. l = Order(sigs[i], 0, TRUE)
        BY <2>1, <2>4
      <3> HIDE DEF l, taken
      <3>2. Limited(l, acct) /\ Worth(l) = 0
        BY <1>3, <2>1, <3>1, NoLots
      <3>3. ~Filled(setup, l)
        BY <3>2 DEF Filled
      <3> QED
        BY <3>2, <3>3 DEF l
    <2>5. CASE ~Passed(i) /\ sigs[i].symbol = unknown
      <3>1. l = FallbackOrder(sigs[i])
        BY <2>1, <2>5
      <3> HIDE DEF l, taken
      <3>2. ~l.sized
        BY <3>1 DEF FallbackOrder, Order
      <3>3. ~Fitting(setup, l) /\ ~Filled(setup, l)
        BY <3>2 DEF Filled, Fitting
      <3> QED
        BY <3>3 DEF l
    <2>6. CASE ~Passed(i) /\ sigs[i].symbol # unknown
      <3> DEFINE sig == sigs[i]
                 m == Home(sig.symbol).lots
      <3>1. l = Order(sig, Lots(i), TRUE)
        BY <2>1, <2>6
      <3>2. Lots(i) = LotsFor(sig.symbol, equity, p, m)
        OBVIOUS
      <3>3. \A x : (/\ x.symbol = sig.symbol /\ sig.conf <= FullConfidence /\ m <= 100
                    /\ x.lots = LotsFor(sig.symbol, equity, p, m)) =>
                      Limited(x, acct) /\ Worth(x) <= equity * p
        <4> HIDE DEF a
        <4> QED
          BY <1>7, <2>2, <2>6
      <3>4. sig.conf <= FullConfidence => p <= r
        <4> HIDE DEF a
        <4> QED
          BY <1>7, <2>2, <2>6
      <3> HIDE DEF l, Lots, p, a, r, taken, Position, Passed, One
      <3>5. l.symbol = sig.symbol /\ l.lots = Lots(i) /\ l.conf = sig.conf
        BY <3>1 DEF Order
      <3> HIDE DEF sig, equity, room
      <3>6. ASSUME Fitting(setup, l) PROVE Limited(l, acct) /\ Worth(l) <= equity * p /\ p <= r
        <4>1. sig.conf <= FullConfidence /\ m <= 100
          BY <3>5, <3>6 DEF Fitting, Home
        <4> HIDE DEF m
        <4> QED
          BY <3>2, <3>3, <3>4, <3>5, <4>1
      <3>7. ASSUME Filled(setup, l)
            PROVE  /\ value \in Nat /\ equity * a + value <= equity * (a + p)
                   /\ a + p <= room
        <4>1. Limited(l, acct) /\ value <= equity * p /\ p <= r /\ value > 0
          BY <3>6, <3>7 DEF Filled
        <4>2. value \in Nat
          <5>1. l.symbol \in Symbols /\ l.lots \in Nat
            BY <4>1 DEF Limited
          <5>2. LotValue(l.symbol) \in Nat
            BY <5>1, InstrumentIs
          <5> QED
            BY <5>1, <5>2, ProductIs DEF Worth
        <4> HIDE DEF value
        <4>3. equity * p \in Nat /\ equity * a \in Nat /\ equity * (a + p) = equity * a + equity * p
          BY <1>3, <2>2, SMT
        <4>4. p > 0
          <5>1. p = 0 => equity * p = 0
            BY <1>3
          <5> QED
            BY <2>2, <4>1, <4>2, <4>3, <5>1
        <4>5. a + r = room
          BY <2>2, <2>3, <4>1, <4>4
        <4>6. a + p <= room
          BY <1>3, <2>2, <2>3, <4>1, <4>5
        <4> DEFINE x == equity * a
                   y == equity * p
        <4>7. x \in Nat /\ y \in Nat /\ value <= y /\ equity * (a + p) = x + y
          BY <4>1, <4>3
        <4> HIDE DEF x, y
        <4>8. x + value <= x + y
          BY <4>2, <4>7
        <4> QED
          BY <4>2, <4>6, <4>7, <4>8 DEF x
      <3> HIDE DEF value
      <3>8. taken[i] \in Nat
        BY <2>2
      <3>9. taken[i - 1] = a
        BY DEF a
      <3> QED
        BY <2>2, <3>6, <3>7, <3>8, <3>9 DEF l, value
    <2> QED
      BY <2>4, <2>5, <2>6
  <1> HIDE DEF t, taken
  <1>15. ASSUME NEW i \in all, Filled(setup, t[i])
         PROVE  b[i] = equity * taken[i - 1] /\ b[i] \in Nat
    <2>1. taken[i - 1] \in Nat
      BY <1>14, <1>15
    <2>2. b[i] = equity * taken[i - 1]
      OBVIOUS
    <2> QED
      BY <1>3, <2>1, <2>2, ProductIs
  <1>16. ASSUME NEW i \in all, Filled(setup, t[i]), NEW m \in Nat, taken[i] <= m
         PROVE  b[i] + Worth(t[i]) <= equity * m
    <2> DEFINE x == b[i] + Worth(t[i])
               y == equity * taken[i]
               z == equity * m
    <2>1. x \in Nat /\ taken[i] \in Nat /\ x <= y
      BY <1>14, <1>15, <1>16
    <2>2. y \in Nat /\ z \in Nat /\ y <= z
      <3> DEFINE v == taken[i]
      <3>1. v \in Nat /\ v <= m
        BY <1>16, <2>1
      <3> HIDE DEF v
      <3>2. equity * v \in Nat /\ equity * m \in Nat /\ equity * v <= equity * m
        BY ONLY <1>3, <3>1, m \in Nat, ProductsGrow
      <3> QED
        BY <3>2 DEF v
    <2> HIDE DEF x, y, z
    <2>3. x <= z
      BY <2>1, <2>2
    <2> QED
      BY <2>3 DEF x, z
  <1>17. ASSUME NEW i \in all, NEW k \in all, Filled(setup, t[i]), Filled(setup, t[k]), i < k
         PROVE  b[i] + Worth(t[i]) <= b[k]
    <2>1. k - 1 \in 0..n /\ i \in 0..n /\ i <= k - 1
      BY <1>2, <1>17
    <2>2. taken[i] <= taken[k - 1] /\ taken[k - 1] \in Nat
      BY <1>11, <2>1
    <2> QED
      BY <1>15, <1>16, <1>17, <2>2
  <1> HIDE DEF b
  <1>18. Seated(setup, t, acct, b)
    BY <1>3, <1>13, <1>14, <1>15, <1>16, <1>17 DEF Seated
  <1> QED
    BY <1>1, <1>18 DEF InRoom

\* decide: with fallback lots nothing is sized, and without room nothing has lots.
LEMMA DecidedInRoom ==
  ASSUME setup \in DOMAIN Loaded, NEW sigs, IsSeq(sigs), AllNumeric(sigs),
         NEW acct \in Accounts, NEW vol \in Vols, NEW closed, NEW unknown
  PROVE  InRoom(setup, Decided(sigs, acct, vol, closed, unknown), acct)
  <1> DEFINE n == Len(sigs)
  <1>1. n \in Nat /\ acct.equity \in Nat /\ \A i \in 1..n : sigs[i].symbol \in Symbols
    BY RoomIs, SeqFacts DEF AllNumeric, Numeric
  <1>2. ASSUME NEW orders, Len(orders) = n,
               \A i \in 1..n : /\ ~Filled(setup, orders[i])
                               /\ Fitting(setup, orders[i]) => Limited(orders[i], acct)
        PROVE  InRoom(setup, orders, acct)
    <2>1. Seated(setup, orders, acct, 0)
      BY <1>2 DEF Seated
    <2> QED
      BY <2>1 DEF InRoom
  <1>3. InRoom(setup, ApplyFallback(sigs), acct)
    <2> DEFINE A == {FallbackOrder(sigs[i]) : i \in 1..n}
               f == [i \in 1..n |-> FallbackOrder(sigs[i])]
    <2>1. f \in [1..n -> A]
      OBVIOUS
    <2>2. ASSUME NEW i \in 1..n PROVE f[i] = FallbackOrder(sigs[i])
      OBVIOUS
    <2>3. f = ApplyFallback(sigs)
      BY DEF ApplyFallback
    <2> HIDE DEF A, f, n
    <2>4. Len(f) = n
      BY <1>1, <2>1, FunSeq
    <2>5. ASSUME NEW i \in 1..n PROVE ~Fitting(setup, f[i])
      <3> DEFINE x == sigs[i]
      <3>1. FallbackOrder(x).sized = FALSE
        BY DEF FallbackOrder, Order
      <3> QED
        BY <2>2, <3>1 DEF Fitting
    <2>6. InRoom(setup, f, acct)
      BY <1>2, <2>4, <2>5 DEF Filled
    <2> QED
      BY <2>3, <2>6
  <1>4. InRoom(setup, ZeroSignals(sigs), acct)
    <2> DEFINE A == {Order(sigs[i], 0, TRUE) : i \in 1..n}
               f == [i \in 1..n |-> Order(sigs[i], 0, TRUE)]
    <2>1. f \in [1..n -> A]
      OBVIOUS
    <2>2. ASSUME NEW i \in 1..n PROVE f[i] = Order(sigs[i], 0, TRUE)
      OBVIOUS
    <2>3. f = ZeroSignals(sigs)
      BY DEF ZeroSignals
    <2> HIDE DEF A, f, n
    <2>4. Len(f) = n
      BY <1>1, <2>1, FunSeq
    <2>5. ASSUME NEW i \in 1..n PROVE Limited(f[i], acct) /\ Worth(f[i]) = 0
      <3>1. sigs[i].symbol \in Symbols
        BY <1>1
      <3> QED
        BY <1>1, <2>2, <3>1, NoLots
    <2>6. ASSUME NEW i \in 1..n PROVE ~Filled(setup, f[i])
      <3>1. Worth(f[i]) = 0
        BY <2>5
      <3> DEFINE w == Worth(f[i])
      <3> HIDE DEF w
      <3>2. ~(w > 0)
        BY <3>1 DEF w
      <3> QED
        BY <3>2 DEF Filled, w
    <2>7. InRoom(setup, f, acct)
      BY <1>2, <2>4, <2>5, <2>6
    <2> QED
      BY <2>3, <2>7
  <1> QED
    BY <1>3, <1>4, SizedInRoom DEF Decided

\* Every leg has a place of its own in the room of the account.
Spaced(n, js, acct, b) ==
  /\ \A j \in 1..Len(js) : \A l \in 1..Len(js[j]) : Filled(n, js[j][l]) =>
        /\ b[j][l] \in Nat /\ Worth(js[j][l]) \in Nat
        /\ b[j][l] + Worth(js[j][l]) <= acct.equity * Room(acct)
  /\ \A j, k \in 1..Len(js) : \A l \in 1..Len(js[j]), q \in 1..Len(js[k]) :
        (j # k \/ l # q) /\ Filled(n, js[j][l]) /\ Filled(n, js[k][q]) =>
           \/ b[j][l] + Worth(js[j][l]) <= b[k][q]
           \/ b[k][q] + Worth(js[k][q]) <= b[j][l]
Roomy(n, js, acct) ==
  /\ acct.equity \in Nat /\ Room(acct) \in Nat
  /\ \A j \in 1..Len(js) : \A l \in 1..Len(js[j]) : Fitting(n, js[j][l]) => Limited(js[j][l], acct)
  /\ \E b : Spaced(n, js, acct, b)

\* partition_signals: the legs of the jobs keep the places of the orders.
LEMMA PartitionRoomy ==
  ASSUME NEW n, NEW orders, IsSeq(orders), NEW acct \in Accounts, InRoom(n, orders, acct)
  PROVE  Roomy(n, Partition(orders), acct)
  <1> DEFINE js == Partition(orders)
  <1>1. PICK m : Spread(js, orders, m)
    BY PartitionSpreads
  <1> HIDE DEF js
  <1>2. PICK b : Seated(n, orders, acct, b)
    BY DEF InRoom
  <1> DEFINE c == [j \in 1..Len(js) |-> [l \in 1..Len(js[j]) |-> b[m[j][l]]]]
  <1>3. ASSUME NEW j \in 1..Len(js), NEW l \in 1..Len(js[j])
        PROVE  m[j][l] \in 1..Len(orders) /\ js[j][l] = orders[m[j][l]] /\ c[j][l] = b[m[j][l]]
    BY <1>1 DEF Spread
  <1> HIDE DEF c
  <1>4. ASSUME NEW j \in 1..Len(js), NEW l \in 1..Len(js[j])
        PROVE  /\ Fitting(n, js[j][l]) => Limited(js[j][l], acct)
               /\ Filled(n, js[j][l]) => /\ c[j][l] \in Nat /\ Worth(js[j][l]) \in Nat
                                         /\ c[j][l] + Worth(js[j][l]) <= acct.equity * Room(acct)
    <2> DEFINE i == m[j][l]
    <2>1. i \in 1..Len(orders) /\ js[j][l] = orders[i] /\ c[j][l] = b[i]
      BY <1>3
    <2> HIDE DEF i
    <2> QED
      BY <1>2, <2>1 DEF Seated
  <1>5. ASSUME NEW j \in 1..Len(js), NEW k \in 1..Len(js), NEW l \in 1..Len(js[j]), NEW q \in 1..Len(js[k]),
               j # k \/ l # q, Filled(n, js[j][l]), Filled(n, js[k][q])
        PROVE  \/ c[j][l] + Worth(js[j][l]) <= c[k][q]
               \/ c[k][q] + Worth(js[k][q]) <= c[j][l]
    <2> DEFINE x == m[j][l]
               y == m[k][q]
    <2>1. x \in 1..Len(orders) /\ js[j][l] = orders[x] /\ c[j][l] = b[x]
      BY <1>3
    <2>2. y \in 1..Len(orders) /\ js[k][q] = orders[y] /\ c[k][q] = b[y]
      BY <1>3
    <2>3. x # y
      BY <1>1, <1>5 DEF Spread
    <2> HIDE DEF x, y
    <2>4. Len(orders) \in Nat
      BY SeqFacts
    <2>5. x < y \/ y < x
      BY <2>1, <2>2, <2>3, <2>4
    <2> QED
      BY <1>2, <1>5, <2>1, <2>2, <2>5 DEF Seated
  <1>6. Spaced(n, js, acct, c)
    BY <1>4, <1>5 DEF Spaced
  <1> QED
    BY <1>4, <1>6, RoomIs DEF Roomy, js

\* The legs of the jobs that are left still have their places.
LEMMA TailRoomy ==
  ASSUME NEW n, NEW js, JobSeqs(js), js # <<>>, NEW acct, Roomy(n, js, acct)
  PROVE  Roomy(n, Tail(js), acct)
  <1> DEFINE t == Tail(js)
  <1>1. \A j \in 1..Len(t) : t[j] = js[j + 1] /\ j + 1 \in 1..Len(js)
    BY TailMade
  <1>2. Len(t) \in Nat
    BY TailMade, SeqFacts DEF JobSeqs
  <1> HIDE DEF t
  <1>3. PICK b : Spaced(n, js, acct, b)
    BY DEF Roomy
  <1> DEFINE c == [j \in 1..Len(t) |-> b[j + 1]]
  <1>4. \A j \in 1..Len(t) : c[j] = b[j + 1]
    OBVIOUS
  <1> HIDE DEF c
  <1>5. \A j \in 1..Len(t) : \A l \in 1..Len(t[j]) : Fitting(n, t[j][l]) => Limited(t[j][l], acct)
    BY <1>1 DEF Roomy
  <1>6. ASSUME NEW j \in 1..Len(t), NEW l \in 1..Len(t[j]), Filled(n, t[j][l])
        PROVE  /\ c[j][l] \in Nat /\ Worth(t[j][l]) \in Nat
               /\ c[j][l] + Worth(t[j][l]) <= acct.equity * Room(acct)
    <2> DEFINE a == j + 1
    <2>1. a \in 1..Len(js) /\ t[j] = js[a] /\ c[j] = b[a]
      BY <1>1, <1>4
    <2> HIDE DEF a
    <2> QED
      BY <1>3, <1>6, <2>1 DEF Spaced
  <1>7. ASSUME NEW j \in 1..Len(t), NEW k \in 1..Len(t), NEW l \in 1..Len(t[j]), NEW q \in 1..Len(t[k]),
               j # k \/ l # q, Filled(n, t[j][l]), Filled(n, t[k][q])
        PROVE  \/ c[j][l] + Worth(t[j][l]) <= c[k][q]
               \/ c[k][q] + Worth(t[k][q]) <= c[j][l]
    <2> DEFINE a == j + 1
               d == k + 1
    <2>1. a \in 1..Len(js) /\ t[j] = js[a] /\ c[j] = b[a]
      BY <1>1, <1>4
    <2>2. d \in 1..Len(js) /\ t[k] = js[d] /\ c[k] = b[d]
      BY <1>1, <1>4
    <2>3. a # d \/ l # q
      BY <1>2, <1>7
    <2> HIDE DEF a, d
    <2> QED
      BY <1>3, <1>7, <2>1, <2>2, <2>3 DEF Spaced
  <1>8. Spaced(n, t, acct, c)
    BY <1>6, <1>7 DEF Spaced
  <1> QED
    BY <1>5, <1>8 DEF Roomy, t

\* FlattenSeq keeps every place apart: p[i] says from where the i-th element is.
Places(ss, k, t, p) ==
  /\ \A i \in 1..Len(t) : /\ p[i][1] \in 1..k /\ p[i][2] \in 1..Len(ss[p[i][1]])
                          /\ t[i] = ss[p[i][1]][p[i][2]]
  /\ \A i, h \in 1..Len(t) : p[i][1] = p[h][1] /\ p[i][2] = p[h][2] => i = h

\* Each leg of the jobs in a row is the leg of one place.
LEMMA FlattenPlaces ==
  ASSUME NEW ss, IsSeq(ss), \A i \in 1..Len(ss) : IsSeq(ss[i])
  PROVE  \E p : Places(ss, Len(ss), FlattenSeq(ss), p)
  <1> DEFINE n == Len(ss)
  <1>1. n \in Nat
    BY SeqFacts
  <1>2. CASE n = 0
    <2>1. FlattenSeq(ss) = ss
      BY <1>2 DEF FlattenSeq
    <2>2. 1..Len(ss) = {}
      BY <1>2
    <2>3. Places(ss, Len(ss), ss, 0)
      BY <2>2 DEF Places
    <2>4. QED
      BY <2>1, <2>3
  <1>3. CASE n # 0
    <2>1. PICK F : Flattens(ss, F) /\ FlattenSeq(ss) = F[n]
      BY <1>3, FlattenUnfolds
    <2>2. \A i \in 1..n : F[i] = IF i = 1 THEN ss[i] ELSE F[i - 1] \o ss[i]
      BY <2>1 DEF Flattens
    <2> DEFINE Good(k) == IsSeq(F[k]) /\ \E p : Places(ss, k, F[k], p)
               good == {k \in 0..n : k = 0 \/ Good(k)}
    <2> HIDE DEF Good
    <2>3. ASSUME NEW k \in 1..n, k - 1 \in good PROVE k \in good
      <3>1. CASE k = 1
        <4> DEFINE p == [i \in 1..Len(ss[1]) |-> <<1, i>>]
        <4>1. F[1] = ss[1] /\ IsSeq(ss[1])
          BY <2>2, <3>1
        <4>2. \A i \in 1..Len(ss[1]) : p[i] = <<1, i>> /\ p[i][1] = 1 /\ p[i][2] = i
          OBVIOUS
        <4> HIDE DEF p
        <4>3. Places(ss, 1, ss[1], p)
          BY <4>2 DEF Places
        <4>4. Good(1)
          BY <4>1, <4>3 DEF Good
        <4> QED
          BY <3>1, <4>4
      <3>2. CASE k # 1
        <4> DEFINE m == k - 1
                   s == F[m]
                   t == ss[k]
        <4>1. m \in 1..n /\ k = m + 1 /\ k \in Nat
          BY <1>1, <3>2
        <4>2. Good(m)
          BY <2>3, <4>1
        <4>3. F[k] = s \o t /\ IsSeq(t)
          BY <2>2, <3>2
        <4> HIDE DEF m
        <4>4. IsSeq(s)
          BY <4>2 DEF Good
        <4>5. PICK p : Places(ss, m, s, p)
          BY <4>2 DEF Good
        <4> HIDE DEF s
        <4> DEFINE a == Len(s)
                   c == Len(t)
        <4>6. a \in Nat /\ c \in Nat
          BY <4>3, <4>4, SeqFacts
        <4>7. /\ IsSeq(s \o t) /\ Len(s \o t) = a + c
              /\ \A i \in 1..a + c : (s \o t)[i] = IF i <= a THEN s[i] ELSE t[i - a]
          BY <4>3, <4>4, AppendSeqs
        <4> DEFINE q == [i \in 1..a + c |-> IF i <= a THEN p[i] ELSE <<k, i - a>>]
        <4> HIDE DEF a, c, t
        <4>8. ASSUME NEW i \in 1..a + c, i <= a
              PROVE  /\ i \in 1..a /\ q[i] = p[i] /\ (s \o t)[i] = s[i]
                     /\ p[i][1] \in 1..m /\ p[i][2] \in 1..Len(ss[p[i][1]])
                     /\ s[i] = ss[p[i][1]][p[i][2]]
          <5>1. i \in 1..a
            BY <4>6, <4>8
          <5> QED
            BY <4>5, <4>7, <4>8, <5>1 DEF Places, a
        <4>9. ASSUME NEW i \in 1..a + c, ~(i <= a)
              PROVE  /\ i - a \in 1..c /\ q[i] = <<k, i - a>> /\ q[i][1] = k /\ q[i][2] = i - a
                     /\ (s \o t)[i] = t[i - a]
          <5>1. i - a \in 1..c
            BY <4>6, <4>9
          <5>2. q[i] = <<k, i - a>>
            BY <4>9
          <5>3. (s \o t)[i] = t[i - a]
            BY <4>7, <4>9
          <5> HIDE DEF q
          <5> QED
            BY <5>1, <5>2, <5>3
        <4> HIDE DEF q
        <4>10. ASSUME NEW i \in 1..a + c
               PROVE  /\ q[i][1] \in 1..k /\ q[i][2] \in 1..Len(ss[q[i][1]])
                      /\ (s \o t)[i] = ss[q[i][1]][q[i][2]]
          <5>1. CASE i <= a
            <6>1. p[i][1] \in 1..k
              BY <4>1, <4>8, <5>1
            <6> QED
              BY <4>8, <5>1, <6>1
          <5>2. CASE ~(i <= a)
            <6>1. k \in 1..k
              BY <4>1
            <6>2. q[i][1] = k /\ q[i][2] \in 1..c /\ (s \o t)[i] = t[q[i][2]]
              BY <4>9, <5>2
            <6> QED
              BY <6>1, <6>2 DEF t, c
          <5> QED
            BY <5>1, <5>2
        <4>11. ASSUME NEW i \in 1..a + c, NEW h \in 1..a + c,
                      q[i][1] = q[h][1], q[i][2] = q[h][2]
               PROVE  i = h
          <5>1. CASE i <= a /\ h <= a
            <6>1. i \in 1..a /\ h \in 1..a /\ p[i][1] = p[h][1] /\ p[i][2] = p[h][2]
              BY <4>8, <4>11, <5>1
            <6> QED
              BY <4>5, <6>1 DEF Places, a
          <5>2. CASE i <= a /\ ~(h <= a)
            <6>1. p[i][1] \in 1..m /\ p[i][1] = k
              BY <4>8, <4>9, <4>11, <5>2
            <6> QED
              BY <4>1, <6>1
          <5>3. CASE ~(i <= a) /\ h <= a
            <6>1. p[h][1] \in 1..m /\ p[h][1] = k
              BY <4>8, <4>9, <4>11, <5>3
            <6> QED
              BY <4>1, <6>1
          <5>4. CASE ~(i <= a) /\ ~(h <= a)
            <6>1. i - a = h - a
              BY <4>9, <4>11, <5>4
            <6> QED
              BY <4>6, <6>1
          <5> QED
            BY <5>1, <5>2, <5>3, <5>4
        <4>12. Places(ss, k, F[k], q)
          BY <4>3, <4>7, <4>10, <4>11 DEF Places
        <4>13. Good(k)
          BY <4>3, <4>7, <4>12 DEF Good
        <4> QED
          BY <4>1, <4>13
      <3> QED
        BY <3>1, <3>2
    <2>4. \A k \in 0..n : k \in good
      <3>1. 0 \in good
        BY <1>1
      <3> HIDE DEF good
      <3> QED
        BY <1>1, <2>3, <3>1, Upward
    <2>5. Good(n)
      BY <1>1, <1>3, <2>4
    <2> QED
      BY <2>1, <2>5 DEF Good
  <1> QED
    BY <1>2, <1>3

-----------------------------------------------------------------------------
(* What places that do not overlap come to together                        *)

\* Each w[i] that is not zero has the interval behind d[i], up to the room.
Lined(w, d, room, S) ==
  /\ w \in [S -> Nat]
  /\ \A i \in S : w[i] > 0 => d[i] \in Nat /\ d[i] + w[i] <= room
  /\ \A i, k \in S : i # k /\ w[i] > 0 /\ w[k] > 0 => d[i] + w[i] <= d[k] \/ d[k] + w[k] <= d[i]

\* The sums of w over the subsets of S, of which pick takes out one by one
Adds(w, h, pick, S) == \A T \in SUBSET S : h[T] = IF T = {} THEN 0 ELSE h[T \ {pick[T]}] + w[pick[T]]

\* Intervals that do not overlap are no longer together than what they are in.
LEMMA LinedFits ==
  ASSUME NEW S, IsFiniteSet(S), NEW room \in Nat, NEW w, NEW d, Lined(w, d, room, S),
         NEW pick, Picks(pick, S), NEW h, Adds(w, h, pick, S)
  PROVE  h[S] \in Nat /\ h[S] <= room
  <1> DEFINE Slot(i) == IF w[i] > 0 THEN d[i] + 1 .. d[i] + w[i] ELSE {}
             U(T) == UNION {Slot(i) : i \in T}
             good == {T \in SUBSET S : h[T] = Cardinality(U(T))}
  <1>1. ASSUME NEW i \in S PROVE Slot(i) \subseteq 1..room /\ Cardinality(Slot(i)) = w[i] /\ w[i] \in Nat
    <2> DEFINE a == d[i]
               v == w[i]
    <2>1. v \in Nat
      BY DEF Lined
    <2>2. CASE v > 0
      <3>1. a \in Nat /\ a + v <= room
        BY <2>2 DEF Lined
      <3>2. Slot(i) = a + 1 .. a + v
        BY <2>2
      <3> HIDE DEF a, v, Slot
      <3>3. a + 1 \in Int /\ a + v \in Int /\ ~(a + 1 > a + v) /\ a + v - (a + 1) + 1 = v
        BY <2>1, <2>2, <3>1
      <3> DEFINE x == a + 1
                 y == a + v
      <3>4. Cardinality(x..y) = v
        <4>1. x \in Int /\ y \in Int /\ ~(x > y) /\ y - x + 1 = v
          BY <2>1, <3>1, <3>3
        <4> HIDE DEF x, y
        <4> QED
          BY <4>1, FS_Interval
      <3>5. \A z \in x..y : z \in 1..room
        BY <2>1, <3>1
      <3> QED
        BY <2>1, <3>2, <3>4, <3>5 DEF v
    <2>3. CASE ~(v > 0)
      <3>1. Slot(i) = {} /\ v = 0
        BY <2>1, <2>3
      <3> QED
        BY <2>1, <3>1, FS_EmptySet
    <2> QED
      BY <2>2, <2>3
  <1>2. ASSUME NEW i \in S, NEW k \in S, i # k PROVE Slot(i) \cap Slot(k) = {}
    <2> SUFFICES ASSUME NEW z \in Slot(i), z \in Slot(k) PROVE FALSE
      OBVIOUS
    <2>1. w[i] > 0 /\ w[k] > 0 /\ w[i] \in Nat /\ w[k] \in Nat /\ d[i] \in Nat /\ d[k] \in Nat
      BY <1>1 DEF Lined
    <2>2. d[i] + w[i] <= d[k] \/ d[k] + w[k] <= d[i]
      BY <1>2, <2>1 DEF Lined
    <2>3. z \in d[i] + 1 .. d[i] + w[i] /\ z \in d[k] + 1 .. d[k] + w[k]
      BY <2>1
    <2> DEFINE a == d[i]
               b == d[k]
               v == w[i]
               x == w[k]
    <2>4. /\ a \in Nat /\ b \in Nat /\ v \in Nat /\ x \in Nat
          /\ a + v <= b \/ b + x <= a
          /\ z \in a + 1 .. a + v /\ z \in b + 1 .. b + x
      BY <2>1, <2>2, <2>3
    <2> HIDE DEF a, b, v, x
    <2> QED
      BY <2>4
  <1> HIDE DEF Slot
  <1>3. IsFiniteSet(1..room) /\ Cardinality(1..room) = room
    BY FS_Interval, 1 \in Int, room \in Int
  <1>4. ASSUME NEW T \in SUBSET S PROVE U(T) \in SUBSET (1..room) /\ IsFiniteSet(U(T))
    <2>1. U(T) \in SUBSET (1..room)
      BY <1>1
    <2> HIDE DEF U
    <2> QED
      BY <1>3, <2>1, FS_Subset
  <1>5. {} \in good
    <2>1. U({}) = {} /\ {} \in SUBSET S
      OBVIOUS
    <2>2. h[{}] = 0
      BY <2>1 DEF Adds
    <2> QED
      BY <2>1, <2>2, FS_EmptySet
  <1>6. ASSUME NEW T \in SUBSET S, T # {}, T \ {pick[T]} \in good PROVE T \in good
    <2> DEFINE x == pick[T]
               R == T \ {x}
    <2>1. x \in T /\ R \in SUBSET S
      BY <1>6 DEF Picks
    <2>2. h[T] = h[R] + w[x] /\ h[R] = Cardinality(U(R))
      BY <1>6 DEF Adds
    <2> HIDE DEF x
    <2>3. U(T) = U(R) \cup Slot(x)
      BY <2>1
    <2>4. U(R) \cap Slot(x) = {}
      BY <1>2, <2>1
    <2>5. IsFiniteSet(U(R)) /\ IsFiniteSet(Slot(x)) /\ Cardinality(Slot(x)) = w[x] /\ w[x] \in Nat
      BY <1>1, <1>3, <1>4, <2>1, FS_Subset
    <2> DEFINE A == U(R)
               B == Slot(x)
    <2> HIDE DEF A, B
    <2>6. Cardinality(A \cup B) = Cardinality(A) + Cardinality(B) - Cardinality(A \cap B)
      BY <2>5, FS_Union DEF A, B
    <2>7. Cardinality(A) \in Nat /\ Cardinality(B) \in Nat
      BY <2>5, FS_CardinalityType DEF A, B
    <2>8. A \cap B = {}
      BY <2>4 DEF A, B
    <2>9. Cardinality(A \cap B) = 0
      BY <2>8, FS_EmptySet
    <2>10. Cardinality(A \cup B) = Cardinality(A) + Cardinality(B)
      BY <2>6, <2>7, <2>9
    <2>11. h[T] = Cardinality(A) + Cardinality(B)
      <3>1. h[R] = Cardinality(A) /\ w[x] = Cardinality(B)
        BY <2>2, <2>5 DEF A, B
      <3> HIDE DEF R
      <3> QED
        BY <2>2, <3>1
    <2>12. h[T] = Cardinality(U(T))
      BY <2>3, <2>10, <2>11 DEF A, B
    <2> QED
      BY <2>12
  <1>7. \A T \in SUBSET S : T \in good
    <2> HIDE DEF good
    <2> QED
      BY <1>5, <1>6, Outward
  <1>8. h[S] = Cardinality(U(S))
    <2>1. S \in SUBSET S
      OBVIOUS
    <2> QED
      BY <1>7, <2>1
  <1>9. Cardinality(U(S)) \in Nat /\ Cardinality(U(S)) <= room
    <2>1. S \in SUBSET S
      OBVIOUS
    <2>2. U(S) \in SUBSET (1..room) /\ IsFiniteSet(U(S))
      BY <1>4, <2>1
    <2> HIDE DEF U
    <2> QED
      BY <1>3, <2>2, FS_Subset, FS_CardinalityType
  <1> HIDE DEF U
  <1> QED
    BY <1>8, <1>9

\* The sum over a sequence of what is lined up in a room is within it.
LEMMA SumFits ==
  ASSUME NEW legs, IsSeq(legs), NEW room \in Nat, NEW d,
         Lined([i \in 1..Len(legs) |-> Worth(legs[i])], d, room, 1..Len(legs))
  PROVE  FoldLeft(LAMBDA sum, l : sum + Worth(l), 0, legs) <= room
  <1> DEFINE S == 1..Len(legs)
             w == [i \in S |-> Worth(legs[i])]
             H(h, T) == IF T = {} THEN 0 ELSE h[T \ {Max(T)}] + Worth(legs[Max(T)])
             g == CHOOSE h : h = [T \in SUBSET S |-> H(h, T)]
             pick == [T \in SUBSET S |-> Max(T)]
             F == [i \in S |-> [v \in Nat |-> v + w[i]]]
  <1>1. DOMAIN legs = S /\ Len(legs) \in Nat
    BY SeqFacts
  <1>2. FoldLeft(LAMBDA sum, l : sum + Worth(l), 0, legs) = g[S]
    BY <1>1 DEF FoldLeft, MapThenFoldSet
  <1>3. IsFiniteSet(S)
    BY Positions
  <1>4. w \in [S -> Nat]
    BY DEF Lined
  <1>5. \A i \in S : w[i] = Worth(legs[i])
    OBVIOUS
  <1> HIDE DEF w
  <1>6. ASSUME NEW T \in SUBSET S, T # {} PROVE Max(T) \in T
    <2>1. T \subseteq 0..Len(legs)
      BY <1>1
    <2>2. \E x \in T : \A y \in T : y <= x
      BY <1>1, <1>6, <2>1, HasGreatest
    <2>3. \E x \in T : \A y \in T : x >= y
      BY <1>1, <2>1, <2>2
    <2> QED
      BY <2>3 DEF Max
  <1>7. Picks(pick, S)
    BY <1>6 DEF Picks
  <1>8. Keeps(F, S, Nat)
    <2>1. \A i \in S : w[i] \in Nat
      BY <1>4
    <2>2. ASSUME NEW i \in S PROVE F[i] \in [Nat -> Nat]
      <3> DEFINE a == w[i]
      <3>1. a \in Nat
        BY <2>1
      <3>2. F[i] = [v \in Nat |-> v + a]
        OBVIOUS
      <3> HIDE DEF a, F
      <3> QED
        BY <3>1, <3>2
    <2> QED
      BY <2>2 DEF Keeps
  <1>9. PICK h : Folds(F, 0, pick, h, S) /\ \A T \in SUBSET S : h[T] \in Nat
    <2> DEFINE V == Nat
               b == 0
    <2>1. b \in V /\ Keeps(F, S, V)
      BY <1>8
    <2> HIDE DEF F, pick, V, b, S
    <2>2. \E h : Folds(F, b, pick, h, S) /\ \A T \in SUBSET S : h[T] \in V
      BY <1>3, <1>7, <2>1, FoldsExist
    <2> QED
      BY <2>2 DEF V, b
  <1>10. ASSUME NEW T \in SUBSET S PROVE h[T] = H(h, T)
    <2>1. h[T] = IF T = {} THEN 0 ELSE F[pick[T]][h[T \ {pick[T]}]]
      BY <1>9, Zenon DEF Folds
    <2>2. CASE T # {}
      <3> DEFINE x == Max(T)
                 y == h[T \ {x}]
      <3>1. pick[T] = x /\ x \in S
        BY <1>6, <2>2
      <3>2. y \in Nat
        BY <1>9
      <3> HIDE DEF x, y, pick, F
      <3>3. h[T] = F[x][y]
        BY <2>1, <2>2, <3>1 DEF y
      <3>4. F[x] = [v \in Nat |-> v + w[x]]
        BY <3>1 DEF F
      <3>5. F[x][y] = y + w[x]
        BY <3>2, <3>4
      <3>6. w[x] = Worth(legs[x])
        BY <1>5, <3>1
      <3>7. h[T] = y + Worth(legs[x])
        BY <3>3, <3>5, <3>6
      <3> QED
        BY <2>2, <3>7 DEF x, y
    <2>3. CASE T = {}
      BY <2>1, <2>3
    <2> QED
      BY <2>2, <2>3
  <1>11. h = [T \in SUBSET S |-> H(h, T)]
    <2>1. h = [T \in SUBSET S |-> h[T]]
      BY <1>9, Zenon DEF Folds
    <2> HIDE DEF H
    <2> QED
      BY <1>10, <2>1
  <1>12. g = [T \in SUBSET S |-> H(g, T)]
    <2> HIDE DEF H
    <2> QED
      BY <1>11
  <1>13. \A T \in SUBSET S : g[T] = H(g, T)
    <2> HIDE DEF H, g
    <2> QED
      BY <1>12
  <1> HIDE DEF g
  <1>14. Adds(w, g, pick, S)
    <2>1. ASSUME NEW T \in SUBSET S PROVE g[T] = IF T = {} THEN 0 ELSE g[T \ {pick[T]}] + w[pick[T]]
      <3>1. pick[T] = Max(T)
        OBVIOUS
      <3>2. T # {} => Worth(legs[Max(T)]) = w[Max(T)]
        BY <1>5, <1>6
      <3>3. g[T] = H(g, T)
        BY <1>13
      <3> HIDE DEF pick
      <3> QED
        BY <3>1, <3>2, <3>3
    <2> QED
      BY <2>1 DEF Adds
  <1>15. Lined(w, d, room, S)
    BY DEF w
  <1> HIDE DEF S, pick
  <1>16. g[S] <= room
    BY <1>3, <1>7, <1>14, <1>15, LinedFits
  <1> QED
    BY <1>2, <1>16

\* Legs that have their places in the room are worth no more than the room together.
LEMMA RoomySizes ==
  ASSUME JobSeqs(jobs), Roomy(setup, jobs, account)
  PROVE  SizesShareTheRoom
  <1> DEFINE legs == FlattenSeq(jobs)
             S == 1..Len(legs)
             room == account.equity * Room(account)
             w == [i \in S |-> Worth(legs[i])]
  <1>1. IsSeq(legs)
    BY FlattenIs DEF JobSeqs
  <1>2. PICK p : Places(jobs, Len(jobs), legs, p)
    BY FlattenPlaces DEF JobSeqs
  <1>3. PICK b : Spaced(setup, jobs, account, b)
    BY DEF Roomy
  <1>4. room \in Nat
    BY ProductIs DEF Roomy
  <1> HIDE DEF legs
  <1> SUFFICES ASSUME \A i \in S : Fitting(setup, legs[i])
               PROVE  /\ FoldLeft(LAMBDA sum, l : sum + Worth(l), 0, legs) <= room
                      /\ \A i \in S : Limited(legs[i], account)
    BY DEF SizesShareTheRoom, Worth, AtRisk, Limited, Fitting, Home, legs
  <1> DEFINE d == [i \in S |-> b[p[i][1]][p[i][2]]]
  <1>5. ASSUME NEW i \in S
        PROVE  /\ p[i][1] \in 1..Len(jobs) /\ p[i][2] \in 1..Len(jobs[p[i][1]])
               /\ legs[i] = jobs[p[i][1]][p[i][2]] /\ d[i] = b[p[i][1]][p[i][2]]
               /\ w[i] = Worth(legs[i])
    BY <1>2 DEF Places
  <1> HIDE DEF d, w
  <1>6. ASSUME NEW i \in S PROVE Limited(legs[i], account)
    <2>1. Fitting(setup, legs[i])
      OBVIOUS
    <2> DEFINE j == p[i][1]
               l == p[i][2]
    <2>2. j \in 1..Len(jobs) /\ l \in 1..Len(jobs[j]) /\ legs[i] = jobs[j][l]
      BY <1>5
    <2> HIDE DEF j, l
    <2> QED
      BY <2>1, <2>2 DEF Roomy
  <1>7. ASSUME NEW i \in S PROVE w[i] \in Nat
    <2>1. legs[i].symbol \in Symbols /\ legs[i].lots \in Nat
      BY <1>6 DEF Limited
    <2>2. LotValue(legs[i].symbol) \in Nat
      BY <2>1, InstrumentIs
    <2>3. Worth(legs[i]) \in Nat
      BY <2>1, <2>2, ProductIs DEF Worth
    <2> QED
      BY <1>5, <2>3
  <1>8. ASSUME NEW i \in S, w[i] > 0 PROVE Filled(setup, legs[i]) /\ d[i] \in Nat /\ d[i] + w[i] <= room
    <2>1. w[i] = Worth(legs[i])
      BY <1>5
    <2>2. Filled(setup, legs[i])
      BY <1>8, <2>1 DEF Filled
    <2> DEFINE j == p[i][1]
               l == p[i][2]
    <2>3. j \in 1..Len(jobs) /\ l \in 1..Len(jobs[j]) /\ legs[i] = jobs[j][l] /\ d[i] = b[j][l]
      BY <1>5
    <2> HIDE DEF j, l
    <2>4. b[j][l] \in Nat /\ b[j][l] + Worth(jobs[j][l]) <= room
      BY <1>3, <2>2, <2>3 DEF Spaced
    <2> HIDE DEF room
    <2> QED
      BY <2>1, <2>2, <2>3, <2>4
  <1>9. ASSUME NEW i \in S, NEW k \in S, i # k, w[i] > 0, w[k] > 0
        PROVE  d[i] + w[i] <= d[k] \/ d[k] + w[k] <= d[i]
    <2> DEFINE j == p[i][1]
               l == p[i][2]
               h == p[k][1]
               q == p[k][2]
    <2>1. /\ j \in 1..Len(jobs) /\ l \in 1..Len(jobs[j]) /\ legs[i] = jobs[j][l]
          /\ d[i] = b[j][l] /\ w[i] = Worth(legs[i])
      BY <1>5
    <2>2. /\ h \in 1..Len(jobs) /\ q \in 1..Len(jobs[h]) /\ legs[k] = jobs[h][q]
          /\ d[k] = b[h][q] /\ w[k] = Worth(legs[k])
      BY <1>5
    <2>3. j # h \/ l # q
      BY <1>2, <1>9 DEF Places
    <2>4. Filled(setup, legs[i]) /\ Filled(setup, legs[k])
      BY <1>8, <1>9
    <2> HIDE DEF j, l, h, q
    <2>5. \/ b[j][l] + Worth(jobs[j][l]) <= b[h][q]
          \/ b[h][q] + Worth(jobs[h][q]) <= b[j][l]
      BY <1>3, <2>1, <2>2, <2>3, <2>4 DEF Spaced
    <2> QED
      BY <2>1, <2>2, <2>5
  <1>10. Lined(w, d, room, S)
    <2>1. w = [i \in S |-> w[i]]
      BY DEF w
    <2>2. w \in [S -> Nat]
      BY <1>7, <2>1
    <2> HIDE DEF room
    <2> QED
      BY <1>8, <1>9, <2>2 DEF Lined
  <1>11. FoldLeft(LAMBDA sum, l : sum + Worth(l), 0, legs) <= room
    <2> HIDE DEF room
    <2> QED
      BY <1>1, <1>4, <1>10, SumFits DEF w
  <1> QED
    BY <1>6, <1>11

-----------------------------------------------------------------------------
(* The numbers of the signals, from the scan to the sizing                 *)

\* position_scale is a share, whatever was assessed.
LEMMA ScaleIs ==
  ASSUME level \in Normal..Safe, NEW s
  PROVE  ScaleOf(s) \in Nat
  <1> DEFINE label == regime[s].label
             full == LabelScale(label)
             part == Multiplier[level]
             run == (full * part) \div 100
  <1>1. {CautiousScale, DefensiveScale, UncertainScale, HighVolTrendScale} \subseteq Nat
    BY DegradationAssumption
  <1>2. full \in Nat
    BY <1>1 DEF LabelScale
  <1>3. part \in Nat
    <2>1. level \in {Normal, Cautious, Defensive, Safe}
      BY DEF Normal, Cautious, Defensive, Safe
    <2>2. part = CASE level = Normal    -> 100
                   [] level = Cautious  -> CautiousScale
                   [] level = Defensive -> DefensiveScale
                   [] level = Safe      -> 0
      BY DEF Multiplier
    <2> QED
      BY <1>1, <2>1, <2>2 DEF Normal, Cautious, Defensive, Safe
  <1> HIDE DEF full, part
  <1>4. run \in Nat
    BY <1>2, <1>3, ProductIs, Quotients
  <1> HIDE DEF run
  <1>5. (run * UncertainScale) \div 100 \in Nat
    BY <1>1, <1>4, ProductIs, Quotients
  <1>6. \A uncertain : PositionScale(label, uncertain, level) \in {full, 0, run, (run * UncertainScale) \div 100}
    BY DEF PositionScale, full, part, run
  <1> QED
    BY <1>2, <1>4, <1>5, <1>6 DEF ScaleOf

\* A signal as an agent makes it
LEMMA SingleIs ==
  ASSUME NEW s \in Symbols, NEW side, NEW strength \in Nat, NEW conf \in Nat, NEW edge, NEW strategy
  PROVE  Numeric(Single(s, side, strength, conf, edge, strategy))
  BY DEF Single, Numeric

\* What the agents answer has a strength and a confidence.
LEMMA AgentsNumeric ==
  ASSUME level \in Normal..Safe, NEW s \in Symbols,
         NEW answer \in TrendAgent(s) \union MeanReversionAgent(s) \union Grid(s) \union MlAgent(s)
  PROVE  answer = <<>> \/ \E x : answer = <<x>> /\ Numeric(x)
  <1>1. ASSUME NEW strategy, NEW generator \in {"trend", "reversion"},
               answer \in RegimeAgent(s, strategy, generator)
        PROVE  answer = <<>> \/ \E x : answer = <<x>> /\ Numeric(x)
    <2> DEFINE offered == {sig \in {Weighted(s, o, strategy) : o \in Offers[generator]} : sig.strength > 1}
    <2>1. answer = <<>> \/ \E sig \in offered : answer = <<sig>>
      BY <1>1, OneAnswer DEF RegimeAgent
    <2>2. ASSUME NEW o \in Offers[generator] PROVE Numeric(Weighted(s, o, strategy))
      <3> DEFINE left == (o[2] * ScaleOf(s)) \div 100
      <3>1. o[2] \in Nat /\ ScaleOf(s) \in Nat
        BY ScaleIs, SizesAssumption
      <3>2. left \in Nat
        BY <3>1, ProductIs, Quotients
      <3>3. Weighted(s, o, strategy) = Single(s, o[1], left, left, 500 * o[2], strategy)
        BY DEF Weighted
      <3> HIDE DEF left
      <3> QED
        BY <3>2, <3>3, SingleIs
    <2> QED
      BY <2>1, <2>2
  <1> DEFINE grids == {Single(s, o[1], o[2], o[2] \div 2, 250 * o[2], "grid_dry_run") : o \in Offers["grid"]}
             mls   == {Single(s, o[1], o[2], o[3], o[4], "trend_following") : o \in Offers["ml"]}
  <1>2. ASSUME NEW o \in Offers["grid"]
        PROVE  Numeric(Single(s, o[1], o[2], o[2] \div 2, 250 * o[2], "grid_dry_run"))
    <2>1. o[2] \in Nat
      BY SizesAssumption
    <2>2. o[2] \div 2 \in Nat
      BY <2>1, Quotients
    <2> QED
      BY <2>1, <2>2, SingleIs
  <1>3. ASSUME NEW o \in Offers["ml"]
        PROVE  Numeric(Single(s, o[1], o[2], o[3], o[4], "trend_following"))
    <2>1. o[2] \in Nat /\ o[3] \in Nat
      BY SizesAssumption
    <2> QED
      BY <2>1, SingleIs
  <1>4. (\A sig \in grids : Numeric(sig)) /\ \A sig \in mls : Numeric(sig)
    BY <1>2, <1>3
  <1>5. answer \in Grid(s) => answer = <<>> \/ \E x : answer = <<x>> /\ Numeric(x)
    <2>1. answer \in Grid(s) => answer = <<>> \/ \E sig \in grids : answer = <<sig>>
      BY OneAnswer DEF Grid
    <2> HIDE DEF grids
    <2> QED
      BY <1>4, <2>1
  <1>6. answer \in MlAgent(s) => answer = <<>> \/ \E x : answer = <<x>> /\ Numeric(x)
    <2>1. answer \in MlAgent(s) => answer = <<>> \/ \E sig \in mls : answer = <<sig>>
      BY OneAnswer DEF MlAgent
    <2> HIDE DEF mls
    <2> QED
      BY <1>4, <2>1
  <1>7. answer \in TrendAgent(s) \union MeanReversionAgent(s) =>
           answer = <<>> \/ \E x : answer = <<x>> /\ Numeric(x)
    BY <1>1 DEF TrendAgent, MeanReversionAgent
  <1> QED
    BY <1>5, <1>6, <1>7

\* Numbers that are put behind numbers.
LEMMA AppendNumeric ==
  ASSUME NEW s, IsSeq(s), AllNumeric(s), NEW t, IsSeq(t), AllNumeric(t)
  PROVE  IsSeq(s \o t) /\ AllNumeric(s \o t)
  <1> DEFINE a == Len(s)
             c == Len(t)
  <1>1. /\ IsSeq(s \o t) /\ Len(s \o t) = a + c
        /\ \A i \in 1..a + c : (s \o t)[i] = IF i <= a THEN s[i] ELSE t[i - a]
    BY AppendSeqs
  <1>2. a \in Nat /\ c \in Nat
    BY SeqFacts
  <1>3. \A i \in 1..a : Numeric(s[i])
    BY DEF AllNumeric
  <1>4. \A i \in 1..c : Numeric(t[i])
    BY DEF AllNumeric
  <1> HIDE DEF a, c
  <1>5. ASSUME NEW i \in 1..a + c PROVE Numeric((s \o t)[i])
    <2>1. CASE i <= a
      <3>1. i \in 1..a
        BY <1>2, <2>1
      <3> QED
        BY <1>1, <1>3, <2>1, <3>1
    <2>2. CASE ~(i <= a)
      <3>1. i - a \in 1..c
        BY <1>2, <2>2
      <3> QED
        BY <1>1, <1>4, <2>2, <3>1
    <2> QED
      BY <2>1, <2>2
  <1> QED
    BY <1>1, <1>5 DEF AllNumeric

\* There is nothing to ask of no signals.
LEMMA NoneNumeric == IsSeq(<<>>) /\ AllNumeric(<<>>)
  BY NoElements DEF AllNumeric

\* An answer that is added
LEMMA AddedNumeric ==
  ASSUME NEW s, IsSeq(s), AllNumeric(s), NEW answer,
         answer = <<>> \/ \E x : answer = <<x>> /\ Numeric(x)
  PROVE  IsSeq(AddNew(s, answer)) /\ AllNumeric(AddNew(s, answer))
  <1>1. IsSeq(answer) /\ AllNumeric(answer)
    <2>1. CASE answer = <<>>
      BY <2>1, NoneNumeric
    <2>2. ASSUME NEW x, answer = <<x>>, Numeric(x) PROVE IsSeq(answer) /\ AllNumeric(answer)
      <3>1. answer \in Seq({x}) /\ Len(answer) = 1 /\ answer[1] = x
        BY <2>2
      <3>2. IsSeq(answer)
        BY <3>1, SeqOfSet
      <3> QED
        BY <2>2, <3>1, <3>2 DEF AllNumeric
    <2> QED
      BY <2>1, <2>2
  <1>2. AddNew(s, answer) \in {s, s \o answer}
    BY DEF AddNew
  <1> QED
    BY <1>1, <1>2, AppendNumeric

\* The legs of a pair
LEMMA LegsNumeric ==
  ASSUME NEW p, p[1] \in Symbols, p[2] \in Symbols, NEW side, NEW strength \in Nat
  PROVE  IsSeq(PairLegs(p, side, strength)) /\ AllNumeric(PairLegs(p, side, strength))
  <1> DEFINE Half(s, own) == [Single(s, own, strength, strength, 500 * strength, "pairs") EXCEPT !.pair = p]
             x == Half(p[1], side)
             y == Half(p[2], Opposite(side))
             t == <<x, y>>
  <1>1. ASSUME NEW s \in Symbols, NEW own PROVE Numeric(Half(s, own))
    BY DEF Single, Numeric
  <1>2. Numeric(x) /\ Numeric(y)
    BY <1>1
  <1>3. PairLegs(p, side, strength) = t
    BY DEF PairLegs
  <1> HIDE DEF x, y
  <1>4. t \in Seq({x, y}) /\ Len(t) = 2 /\ t[1] = x /\ t[2] = y
    OBVIOUS
  <1>5. \A i \in 1..2 : i = 1 \/ i = 2
    OBVIOUS
  <1> HIDE DEF t
  <1>6. IsSeq(t) /\ AllNumeric(t)
    BY <1>2, <1>4, <1>5, SeqOfSet DEF AllNumeric
  <1> QED
    BY <1>3, <1>6

\* The strength a pair is entered with
LEMMA PairStrengthIs ==
  ASSUME NEW m, NEW z \in ZScores, NEW legs
  PROVE  EntryStrength(m, z, ZEntry, legs) \in Nat
  <1> DEFINE class == ClassifyPairHealth(m, legs)
  <1>1. /\ PairStrength(z, ZEntry, "r1_stable_mr") \in Nat
        /\ PairStrength(z, ZEntry, "r2_volatile_mr") \in Nat
    BY VolatileIsWeaker
  <1>2. class \in EntryAllowed => class = "r1_stable_mr" \/ class = "r2_volatile_mr"
    BY DEF EntryAllowed
  <1> HIDE DEF class
  <1> QED
    BY <1>1, <1>2 DEF EntryStrength, class

-----------------------------------------------------------------------------
(* The stages keep the numbers of the signals                              *)

\* Every signal of t is one of s.
Among(t, s) == \A k \in 1..Len(t) : \E i \in 1..Len(s) : t[k] = s[i]

\* Some of the signals carry numbers if all do.
LEMMA AmongNumeric ==
  ASSUME NEW s, NEW t, Among(t, s), AllNumeric(s)
  PROVE  AllNumeric(t)
  <1> SUFFICES ASSUME NEW k \in 1..Len(t) PROVE Numeric(t[k])
    BY DEF AllNumeric
  <1>1. PICK i \in 1..Len(s) : t[k] = s[i]
    BY DEF Among
  <1>2. Numeric(s[i])
    BY DEF AllNumeric
  <1> QED
    BY <1>1, <1>2

\* What is kept of the signals is some of them.
LEMMA KeepNumeric ==
  ASSUME NEW s, IsSeq(s), AllNumeric(s), NEW S \in SUBSET (1..Len(s))
  PROVE  IsSeq(Keep(s, S)) /\ AllNumeric(Keep(s, S))
  <1> DEFINE t == Keep(s, S)
  <1>1. IsSeq(t)
    BY KeepDerives DEF Derived
  <1>2. \A k \in 1..Len(t) : \E i \in S : t[k] = s[i]
    BY KeptOnes
  <1>3. Among(t, s)
    <2> HIDE DEF t
    <2> QED
      BY <1>2 DEF Among
  <1> QED
    BY <1>1, <1>3, AmongNumeric

\* The arbitrations keep or drop signals.
LEMMA ArbitratedNumeric ==
  ASSUME NEW sigs, IsSeq(sigs), AllNumeric(sigs)
  PROVE  LET t == ResolveConflicts(SingleVsPair(sigs)) IN IsSeq(t) /\ AllNumeric(t)
  <1> DEFINE s == SingleVsPair(sigs)
             t == ResolveConflicts(s)
  <1>1. Derived(s, sigs) /\ Among(s, sigs)
    BY SingleVsPairDerives DEF Among
  <1> HIDE DEF s
  <1>2. IsSeq(s) /\ AllNumeric(s)
    BY <1>1, AmongNumeric DEF Derived
  <1>3. Derived(t, s) /\ Among(t, s)
    BY <1>2, ResolveDerives DEF Among
  <1> HIDE DEF t
  <1>4. IsSeq(t) /\ AllNumeric(t)
    BY <1>2, <1>3, AmongNumeric DEF Derived
  <1> QED
    BY <1>4 DEF s, t

\* The adaptation changes no number.
LEMMA AdaptedNumeric ==
  ASSUME NEW sigs, IsSeq(sigs), AllNumeric(sigs), NEW least
  PROVE  IsSeq(Adapted(sigs, least)) /\ AllNumeric(Adapted(sigs, least))
  <1> DEFINE S == {i \in 1..Len(sigs) : sigs[i].strength >= least}
             above == Keep(sigs, S)
             t == [i \in 1..Len(above) |-> [above[i] EXCEPT !.pair = NoPair]]
             A == {[above[i] EXCEPT !.pair = NoPair] : i \in 1..Len(above)}
  <1>1. Adapted(sigs, least) = t
    BY DEF Adapted
  <1>2. S \in SUBSET (1..Len(sigs))
    OBVIOUS
  <1> HIDE DEF S
  <1>3. IsSeq(above) /\ AllNumeric(above)
    BY <1>2, KeepNumeric
  <1> HIDE DEF above
  <1>4. t \in [1..Len(above) -> A] /\ \A k \in 1..Len(above) : t[k] = [above[k] EXCEPT !.pair = NoPair]
    OBVIOUS
  <1> HIDE DEF t, A
  <1>5. IsSeq(t) /\ Len(t) = Len(above)
    BY <1>3, <1>4, FunSeq, SeqFacts
  <1>6. ASSUME NEW x, Numeric(x) PROVE Numeric([x EXCEPT !.pair = NoPair])
    BY <1>6 DEF Numeric
  <1>7. ASSUME NEW k \in 1..Len(t) PROVE Numeric(t[k])
    <2>1. Numeric(above[k]) /\ t[k] = [above[k] EXCEPT !.pair = NoPair]
      BY <1>3, <1>4, <1>5 DEF AllNumeric
    <2>2. Numeric([above[k] EXCEPT !.pair = NoPair])
      BY <1>6, <2>1
    <2> QED
      BY <2>1, <2>2
  <1> QED
    BY <1>1, <1>5, <1>7 DEF AllNumeric

\* A number cut at two others
LEMMA ClampIs ==
  ASSUME NEW lo \in Nat, NEW n \in Nat, NEW hi \in Nat
  PROVE  Clamp(lo, n, hi) \in Nat
  <1> DEFINE m == Max({lo, n})
  <1>1. m \in Nat
    BY LargerOf
  <1> HIDE DEF m
  <1>2. Min({hi, m}) \in Nat
    BY <1>1, SmallerOf
  <1> QED
    BY <1>2 DEF Clamp, m

\* Signals that have their weight
Weighed(s) == \A i \in 1..Len(s) : s[i].weight \in Nat

\* PortfolioOptimizer.allocate gives each signal it keeps a weight, and scales its numbers by it.
LEMMA OptimizedNumeric ==
  ASSUME NEW sigs, IsSeq(sigs), AllNumeric(sigs), NEW vol \in Vols
  PROVE  LET t == Optimized(sigs, vol) IN IsSeq(t) /\ AllNumeric(t) /\ Weighed(t)
  <1> DEFINE syms        == {sigs[i].symbol : i \in 1..Len(sigs)}
             wt          == Levered(Capped(InverseVolatility(vol, syms)), vol)
             c           == Cardinality(syms)
             Scaled(n, sig) == (n * wt[sig.symbol] * c) \div 100
             Allotted(sig)  == [sig EXCEPT !.strength = Clamp(0, Scaled(@, sig), FullStrength),
                                           !.conf     = Scaled(ConfidenceOf(sig), sig),
                                           !.weight   = wt[sig.symbol]]
             S == {i \in 1..Len(sigs) : wt[sigs[i].symbol] > 0}
             kept == Keep(sigs, S)
             t == [i \in 1..Len(kept) |-> Allotted(kept[i])]
  <1>1. Optimized(sigs, vol) = t
    BY DEF Optimized
  <1>2. syms \in SUBSET Symbols /\ IsFiniteSet(syms)
    BY SymbolsFinite
  <1>3. S \in SUBSET (1..Len(sigs))
    OBVIOUS
  <1> HIDE DEF S
  <1>4. IsSeq(kept) /\ AllNumeric(kept) /\ \A k \in 1..Len(kept) : \E i \in 1..Len(sigs) : kept[k] = sigs[i]
    BY <1>3, KeepNumeric, KeptOnes
  <1>5. \A k \in 1..Len(kept) : kept[k].symbol \in syms
    BY <1>4
  <1> HIDE DEF syms, kept
  <1>6. wt \in [syms -> Nat] /\ c \in Nat
    BY <1>2, WeightsAre, FS_CardinalityType
  <1> HIDE DEF wt, c
  <1>7. ASSUME NEW x, Numeric(x), x.symbol \in syms
        PROVE  Numeric(Allotted(x)) /\ Allotted(x).weight \in Nat
    <2>1. ASSUME NEW n \in Nat PROVE Scaled(n, x) \in Nat
      <3> DEFINE w == wt[x.symbol]
      <3>1. w \in Nat
        BY <1>6, <1>7
      <3> HIDE DEF w
      <3>2. n * w * c \in Nat
        BY <1>6, <3>1, ProductIs
      <3>3. (n * w * c) \div 100 \in Nat
        BY <3>2, Quotients
      <3> QED
        BY <3>3 DEF w
    <2>2. wt[x.symbol] \in Nat
      BY <1>6, <1>7
    <2>3. x.strength \in Nat /\ ConfidenceOf(x) \in Nat
      BY <1>7 DEF Numeric, ConfidenceOf
    <2> DEFINE a == Scaled(x.strength, x)
               b == Scaled(ConfidenceOf(x), x)
               d == Clamp(0, a, FullStrength)
               w == wt[x.symbol]
               y == [x EXCEPT !.strength = d, !.conf = b, !.weight = w]
    <2>4. Allotted(x) = y
      OBVIOUS
    <2>5. a \in Nat /\ b \in Nat /\ w \in Nat
      BY <2>1, <2>2, <2>3
    <2> HIDE DEF a, b, w
    <2>6. d \in Nat
      <3>1. 0 \in Nat /\ FullStrength \in Nat
        BY DEF FullStrength
      <3> QED
        BY <2>5, <3>1, ClampIs
    <2> HIDE DEF d
    <2>7. Numeric(y) /\ y.weight \in Nat
      BY <1>7, <2>5, <2>6 DEF Numeric
    <2> QED
      BY <2>4, <2>7
  <1> HIDE DEF Allotted
  <1> DEFINE A == {Allotted(kept[i]) : i \in 1..Len(kept)}
  <1>8. t \in [1..Len(kept) -> A] /\ \A k \in 1..Len(kept) : t[k] = Allotted(kept[k])
    OBVIOUS
  <1> HIDE DEF t, A
  <1>9. IsSeq(t) /\ Len(t) = Len(kept)
    BY <1>4, <1>8, FunSeq, SeqFacts
  <1>10. ASSUME NEW k \in 1..Len(t) PROVE Numeric(t[k]) /\ t[k].weight \in Nat
    <2>1. Numeric(kept[k]) /\ kept[k].symbol \in syms /\ t[k] = Allotted(kept[k])
      BY <1>4, <1>5, <1>8, <1>9 DEF AllNumeric
    <2> QED
      BY <1>7, <2>1
  <1> QED
    BY <1>1, <1>9, <1>10 DEF AllNumeric, Weighed

\* The weights of the groups of the last run are numbers.
LEMMA PreviousIs ==
  ASSUME NEW previous \in Previous, NEW g \in DOMAIN previous
  PROVE  previous[g] \in Nat
  BY SizesAssumption

\* _score_groups scores the group of every signal.
LEMMA ScoreIs ==
  ASSUME setup \in DOMAIN Loaded, NEW sigs, IsSeq(sigs), AllNumeric(sigs)
  PROVE  \E S : /\ IsFiniteSet(S) /\ GroupScore(sigs) \in [S -> Nat]
                /\ \A i \in 1..Len(sigs) : Home(sigs[i].symbol).name \in S
  <1> DEFINE all == 1..Len(sigs)
             gs == config.groups
             f == [i \in all |-> Home(sigs[i].symbol).name]
             h == [i \in 1..Len(gs) |-> gs[i].name]
             named == {Home(sigs[i].symbol).name : i \in all}
             idle == {g.name : g \in {x \in ToSet(gs) : x.tradeable}}
             S == named \union idle
             Mine(g) == {i \in all : Home(sigs[i].symbol).name = g}
  <1>1. IsFiniteSet(all) /\ IsSeq(gs)
    BY Positions, GroupsOfSettings DEF config
  <1>2. IsFiniteSet(named)
    <2>1. named = {f[i] : i \in all}
      OBVIOUS
    <2> HIDE DEF named, f, all
    <2> QED
      BY <1>1, <2>1, ImageFinite
  <1>3. IsFiniteSet(idle)
    <2>1. idle \in SUBSET {h[i] : i \in 1..Len(gs)}
      <3>1. \A g \in ToSet(gs) : \E i \in 1..Len(gs) : g = gs[i]
        BY <1>1, SeqFacts DEF ToSet
      <3> HIDE DEF gs
      <3> QED
        BY <3>1
    <2>2. IsFiniteSet(1..Len(gs))
      BY <1>1, Positions
    <2> HIDE DEF idle, h
    <2>3. IsFiniteSet({h[i] : i \in 1..Len(gs)})
      BY <2>2, ImageFinite
    <2> QED
      BY <2>1, <2>3, FS_Subset
  <1> HIDE DEF idle
  <1>4. \A i \in all : Home(sigs[i].symbol).name \in S
    OBVIOUS
  <1> HIDE DEF named
  <1>5. IsFiniteSet(S)
    BY <1>2, <1>3, FS_Union
  <1>6. GroupScore(sigs) = [g \in S |-> SumOf(Mine(g), sigs)]
    BY DEF GroupScore, named, idle
  <1>7. ASSUME NEW g \in S PROVE SumOf(Mine(g), sigs) \in Nat
    <2>1. Mine(g) \in SUBSET all /\ \A i \in all : sigs[i].strength \in Nat
      BY DEF AllNumeric, Numeric
    <2> HIDE DEF Mine
    <2>2. IsFiniteSet(Mine(g))
      BY <1>1, <2>1, FS_Subset
    <2>3. \A i \in Mine(g) : sigs[i].strength \in Nat
      BY <2>1
    <2> QED
      BY <2>2, <2>3, SumOfIs
  <1> HIDE DEF S, Mine
  <1>8. GroupScore(sigs) \in [S -> Nat]
    BY <1>6, <1>7
  <1> QED
    BY <1>4, <1>5, <1>8

\* _normalize_group_weights gives every group that has a score a number.
LEMMA GroupWeightsIs ==
  ASSUME setup \in DOMAIN Loaded, NEW S, IsFiniteSet(S), NEW score \in [S -> Nat], NEW previous \in Previous
  PROVE  GroupWeights(score, previous) \in [S -> Nat]
  <1> DEFINE base == Shares(score)
             Old(g) == IF g \in DOMAIN previous THEN previous[g] ELSE base[g]
             blended == [g \in DOMAIN base |-> 6 * base[g] + 4 * Old(g)]
             mixed == IF previous = <<>> \/ ~config.rotation.migrates THEN base ELSE Shares(blended)
             lo == config.rotation.minWeight
             hi == config.rotation.maxWeight
             cut == [g \in DOMAIN mixed |-> Clamp(lo, mixed[g], hi)]
  <1>1. GroupWeights(score, previous) = IF Total(cut) = 0 THEN cut ELSE Shares(cut)
    BY DEF GroupWeights
  <1>2. lo \in Nat /\ hi \in Nat
    BY SizesAssumption DEF config
  <1>3. base \in [S -> Nat]
    BY SharesIs
  <1> HIDE DEF base, lo, hi
  <1>4. blended \in [S -> Nat]
    <2>1. DOMAIN base = S
      BY <1>3
    <2>2. ASSUME NEW g \in S PROVE 6 * base[g] + 4 * Old(g) \in Nat
      <3>1. base[g] \in Nat
        BY <1>3
      <3>2. Old(g) \in Nat
        BY <3>1, PreviousIs
      <3> DEFINE a == base[g]
                 b == Old(g)
      <3> HIDE DEF a, b
      <3>3. a \in Nat /\ b \in Nat
        BY <3>1, <3>2 DEF a, b
      <3>4. 6 * a + 4 * b \in Nat
        BY <3>3
      <3> QED
        BY <3>4 DEF a, b
    <2> HIDE DEF Old
    <2> QED
      BY <2>1, <2>2
  <1> HIDE DEF blended
  <1>5. mixed \in [S -> Nat]
    BY <1>3, <1>4, SharesIs
  <1> HIDE DEF mixed
  <1>6. cut \in [S -> Nat]
    <2>1. DOMAIN mixed = S /\ \A g \in S : mixed[g] \in Nat
      BY <1>5
    <2>2. \A g \in S : Clamp(lo, mixed[g], hi) \in Nat
      BY <1>2, <2>1, ClampIs
    <2> QED
      BY <2>1, <2>2
  <1> HIDE DEF cut
  <1> QED
    BY <1>1, <1>6, SharesIs

\* The positions that the cut leaves, in the order of their groups, are positions.
LEMMA OutIs ==
  ASSUME NEW home, NEW cut, IsSeq(cut)
  PROVE  LET First(k) == Min({l \in 1..Len(cut) : home[cut[l]] = home[cut[k]]})
             out      == Ordered(1..Len(cut), [k \in 1..Len(cut) |-> First(k)])
         IN  \A k \in 1..Len(cut) : out[k] \in 1..Len(cut)
  <1> DEFINE all == 1..Len(cut)
             Mates(k) == {l \in all : home[cut[l]] = home[cut[k]]}
             First(k) == Min(Mates(k))
             key == [k \in all |-> First(k)]
             out == Ordered(all, key)
  <1>1. Len(cut) \in Nat
    BY SeqFacts
  <1>2. IsFiniteSet(all) /\ Cardinality(all) = Len(cut) /\ all \subseteq Nat
    <2> DEFINE n == Len(cut)
    <2>1. n \in Nat
      BY <1>1
    <2> HIDE DEF n
    <2>2. IsFiniteSet(1..n) /\ Cardinality(1..n) = n
      BY ONLY <2>1, FS_Interval, 1 \in Int, n \in Int
    <2> QED
      BY <2>2 DEF n
  <1>3. \A k \in all : key[k] \in Nat
    <2> SUFFICES ASSUME NEW k \in all PROVE Min(Mates(k)) \in Nat
      OBVIOUS
    <2>1. Mates(k) \in SUBSET all /\ Mates(k) # {}
      OBVIOUS
    <2> HIDE DEF Mates
    <2>2. IsFiniteSet(Mates(k)) /\ Mates(k) \subseteq Nat
      BY <2>1, Positions
    <2>3. Min(Mates(k)) \in Mates(k)
      BY <2>1, <2>2, HasMin
    <2> QED
      BY <2>2, <2>3
  <1> HIDE DEF key
  <1>4. IsOrder(out, all)
    BY <1>2, <1>3, RankedOrder
  <1> HIDE DEF out
  <1>5. \A k \in all : out[k] \in all
    BY <1>2, <1>4 DEF IsOrder
  <1> QED
    BY <1>5 DEF out, key

\* apply_asset_rotation gives every signal it keeps its share of the weight of its group.
LEMMA RotatedNumeric ==
  ASSUME NEW sigs, IsSeq(sigs), AllNumeric(sigs), Weighed(sigs), NEW home, NEW weight,
         \A i \in 1..Len(sigs) : weight[home[i]] \in Nat, NEW cut, IsSeq(cut),
         \A k \in 1..Len(cut) : cut[k] \in 1..Len(sigs)
  PROVE  IsSeq(Rotated(sigs, home, weight, cut)) /\ AllNumeric(Rotated(sigs, home, weight, cut))
  <1> DEFINE all == 1..Len(cut)
             First(k) == Min({l \in all : home[cut[l]] = home[cut[k]]})
             out == Ordered(all, [k \in all |-> First(k)])
             Mine(g) == {cut[k] : k \in {l \in all : home[cut[l]] = g}}
             Strong(g) == SumOf(Mine(g), sigs)
             Share(i)  == IF Strong(home[i]) = 0 THEN 0
                          ELSE (sigs[i].weight * weight[home[i]] * sigs[i].strength)
                                   \div (100 * Strong(home[i]))
             t == [k \in all |-> [sigs[cut[out[k]]] EXCEPT !.weight = Share(cut[out[k]])]]
             A == {[sigs[cut[out[k]]] EXCEPT !.weight = Share(cut[out[k]])] : k \in all}
  <1>1. Rotated(sigs, home, weight, cut) = t
    BY DEF Rotated
  <1>2. \A k \in all : out[k] \in all
    BY OutIs
  <1> HIDE DEF out
  <1>3. \A g : Strong(g) \in Nat
    <2> SUFFICES ASSUME NEW g PROVE SumOf(Mine(g), sigs) \in Nat
      OBVIOUS
    <2>1. Mine(g) \in SUBSET (1..Len(sigs))
      OBVIOUS
    <2> HIDE DEF Mine
    <2>2. IsFiniteSet(Mine(g))
      BY <2>1, Positions
    <2>3. \A i \in Mine(g) : sigs[i].strength \in Nat
      BY <2>1 DEF AllNumeric, Numeric
    <2> QED
      BY <2>2, <2>3, SumOfIs
  <1> HIDE DEF Strong
  <1>4. ASSUME NEW i \in 1..Len(sigs) PROVE Share(i) \in Nat
    <2> DEFINE s == Strong(home[i])
               a == sigs[i].weight
               b == weight[home[i]]
               c == sigs[i].strength
    <2>1. s \in Nat /\ a \in Nat /\ b \in Nat /\ c \in Nat
      BY <1>3 DEF AllNumeric, Numeric, Weighed
    <2>2. Share(i) = IF s = 0 THEN 0 ELSE (a * b * c) \div (100 * s)
      OBVIOUS
    <2> HIDE DEF s, a, b, c
    <2>3. a * b * c \in Nat
      BY <2>1, ProductIs
    <2>4. ASSUME s # 0 PROVE (a * b * c) \div (100 * s) \in Nat
      <3> DEFINE p == a * b * c
                 q == 100 * s
      <3>1. p \in Nat /\ q \in Nat \ {0}
        BY <2>1, <2>3, <2>4
      <3> HIDE DEF p, q
      <3>2. p \div q \in Nat
        BY <3>1, Quotients
      <3> QED
        BY <3>2 DEF p, q
    <2> QED
      BY <2>2, <2>4
  <1> HIDE DEF Share
  <1>5. t \in [all -> A] /\ \A k \in all : t[k] = [sigs[cut[out[k]]] EXCEPT !.weight = Share(cut[out[k]])]
    OBVIOUS
  <1> HIDE DEF t, A
  <1>6. IsSeq(t) /\ Len(t) = Len(cut)
    BY <1>5, FunSeq, SeqFacts
  <1>7. ASSUME NEW x, Numeric(x), NEW w \in Nat PROVE Numeric([x EXCEPT !.weight = w])
    BY <1>7 DEF Numeric
  <1>8. ASSUME NEW k \in 1..Len(t) PROVE Numeric(t[k])
    <2> DEFINE i == cut[out[k]]
    <2>1. k \in all /\ i \in 1..Len(sigs)
      BY <1>2, <1>6
    <2>2. t[k] = [sigs[i] EXCEPT !.weight = Share(i)]
      BY <1>5, <2>1
    <2> HIDE DEF i
    <2>3. Numeric(sigs[i]) /\ Share(i) \in Nat
      BY <1>4, <2>1 DEF AllNumeric
    <2> QED
      BY <1>7, <2>2, <2>3
  <1> QED
    BY <1>1, <1>6, <1>8 DEF AllNumeric

\* PortfolioConstructionAgent.allocate keeps the numbers, with or without the rotation.
LEMMA AllocatesNumeric ==
  ASSUME setup \in DOMAIN Loaded, IsSeq(signals), AllNumeric(signals),
         NEW vol \in Vols, NEW previous \in Previous, Allocates(vol, previous)
  PROVE  IsSeq(signals') /\ AllNumeric(signals')
  <1> DEFINE sized == Optimized(signals, vol)
             score == GroupScore(sized)
  <1>1. IsSeq(sized) /\ AllNumeric(sized) /\ Weighed(sized)
    BY OptimizedNumeric
  <1>2. config.rotation.maxSymbols \in Int
    BY SignalFlowAssumption DEF config
  <1>3. \/ signals' = sized
        \/ \E weight \in {GroupWeights(score, previous)}, home \in {HomeNames(sized)} :
           \E active \in {{i \in 1..Len(sized) : home[i] \in ActiveGroups(weight)}} :
           \E rank \in {Ranks(sized, home, weight, active)} : \E cut \in {Cut(active, rank)} :
               signals' = Rotated(sized, home, weight, cut)
    BY DEF Allocates
  <1> HIDE DEF sized
  <1>4. PICK S : /\ IsFiniteSet(S) /\ score \in [S -> Nat]
                 /\ \A i \in 1..Len(sized) : Home(sized[i].symbol).name \in S
    BY <1>1, ScoreIs
  <1> HIDE DEF score
  <1>5. CASE signals' = sized
    BY <1>1, <1>5
  <1>6. CASE \E weight \in {GroupWeights(score, previous)}, home \in {HomeNames(sized)} :
             \E active \in {{i \in 1..Len(sized) : home[i] \in ActiveGroups(weight)}} :
             \E rank \in {Ranks(sized, home, weight, active)} : \E cut \in {Cut(active, rank)} :
                 signals' = Rotated(sized, home, weight, cut)
    <2>1. PICK weight, home, active, rank, cut :
                 /\ weight = GroupWeights(score, previous) /\ home = HomeNames(sized)
                 /\ active = {i \in 1..Len(sized) : home[i] \in ActiveGroups(weight)}
                 /\ rank = Ranks(sized, home, weight, active) /\ cut = Cut(active, rank)
                 /\ signals' = Rotated(sized, home, weight, cut)
      BY <1>6
    <2>2. active \in SUBSET (1..Len(sized))
      BY <2>1
    <2>3. IsSeq(cut) /\ \A k \in 1..Len(cut) : cut[k] \in 1..Len(sized)
      BY <1>1, <1>2, <2>1, <2>2, CutsOfRanks
    <2>4. weight \in [S -> Nat]
      BY <1>4, <2>1, GroupWeightsIs
    <2>5. \A i \in 1..Len(sized) : weight[home[i]] \in Nat
      <3>1. \A i \in 1..Len(sized) : home[i] \in S
        BY <1>4, <2>1 DEF HomeNames
      <3> QED
        BY <2>4, <3>1
    <2>6. /\ IsSeq(Rotated(sized, home, weight, cut))
          /\ AllNumeric(Rotated(sized, home, weight, cut))
      BY <1>1, <2>3, <2>5, RotatedNumeric
    <2> QED
      BY <2>1, <2>6
  <1> QED
    BY <1>3, <1>5, <1>6

-----------------------------------------------------------------------------
(* The invariant of the sizes                                              *)

\* The run is degraded by a level that is one, the signals carry numbers, and each leg of
\* the jobs that are left has a place of its own in the room of the account.
SizeInv ==
  /\ level \in Normal..Safe
  /\ IsSeq(signals) /\ AllNumeric(signals)
  /\ JobSeqs(jobs) /\ Roomy(setup, jobs, account)

\* No jobs have room.
LEMMA NoJobs ==
  ASSUME NEW n, NEW acct, acct.equity \in Nat, Room(acct) \in Nat
  PROVE  JobSeqs(<<>>) /\ Roomy(n, <<>>, acct)
  <1> DEFINE js == <<>>
  <1>1. IsSeq(js) /\ 1..Len(js) = {}
    BY NoElements
  <1> HIDE DEF js
  <1>2. JobSeqs(js)
    BY <1>1 DEF JobSeqs
  <1>3. Spaced(n, js, acct, js)
    BY <1>1 DEF Spaced
  <1>4. Roomy(n, js, acct)
    BY <1>1, <1>3 DEF Roomy
  <1> QED
    BY <1>2, <1>4 DEF js

\* The invariant of the sizes holds where a run begins.
LEMMA SizesBegin == Init => SizeInv
  <1> SUFFICES ASSUME Init PROVE SizeInv
    OBVIOUS
  <1>1. level = Normal /\ signals = <<>> /\ account = NoAccount /\ jobs = <<>>
    BY DEF Init
  <1>2. level \in Normal..Safe
    BY <1>1 DEF Normal, Safe
  <1>3. NoAccount.equity \in Nat /\ Room(NoAccount) \in Nat
    <2>1. NoAccount.equity = 0 /\ NoAccount.exposure = 0
      BY DEF NoAccount
    <2>2. MaxTotalPct \in Nat
      BY SizingAssumption
    <2>3. MaxTotalPct - NoAccount.exposure \in Int
      BY <2>1, <2>2
    <2>4. Positive(MaxTotalPct - NoAccount.exposure) \in Nat
      BY <2>3, PositiveIs
    <2> QED
      BY <2>1, <2>4, ProductIs DEF Room
  <1>4. JobSeqs(jobs) /\ Roomy(setup, jobs, account)
    BY <1>1, <1>3, NoJobs
  <1> QED
    BY <1>1, <1>2, <1>4, NoneNumeric DEF SizeInv

\* Steps that leave the account and the jobs alone
LEMMA SignalsKeep ==
  ASSUME SizeInv, UNCHANGED <<setup, level, account, jobs>>, IsSeq(signals'), AllNumeric(signals')
  PROVE  SizeInv'
  <1> DEFINE v == signals'
  <1>1. SizeInv
    OBVIOUS
  <1>2. IsSeq(v) /\ AllNumeric(v)
    OBVIOUS
  <1> HIDE DEF v
  <1>3. (level \in Normal..Safe /\ JobSeqs(jobs) /\ Roomy(setup, jobs, account))'
    BY <1>1 DEF SizeInv
  <1>4. (IsSeq(signals) /\ AllNumeric(signals))'
    BY <1>2 DEF v
  <1> QED
    BY <1>3, <1>4 DEF SizeInv

\* An assessment is at one of the levels, and the worst of two levels is one.
LEMMA LevelKept ==
  ASSUME level \in Normal..Safe, NEW a
  PROVE  Max({level, Assessed(a).level}) \in Normal..Safe
  <1> DEFINE l == LevelOf(a)
  <1>1. l \in {Normal, Cautious, Defensive}
    BY DEF LevelOf
  <1>2. Assessed(a).level = l
    BY DEF Assessed
  <1> HIDE DEF l
  <1>3. l \in Normal..Safe /\ l \in Int /\ level \in Int
    BY <1>1 DEF Normal, Cautious, Defensive, Safe
  <1>4. Max({level, l}) = IF level >= l THEN level ELSE l
    BY <1>3, LargerOf
  <1> QED
    BY <1>2, <1>3, <1>4

\* The analysis changes the level only.
LEMMA AnalysisSizes ==
  ASSUME SizeInv, StartTask \/ WaitTimesOut \/ EndAnalysis \/ \E t \in Tasks : EndTask(t) \/ TaskRaises(t)
  PROVE  SizeInv'
  <1>1. UNCHANGED <<setup, signals, account, jobs>>
    BY DEF StartTask, WaitTimesOut, EndAnalysis, EndTask, TaskRaises, analysing
  <1>2. level' \in Normal..Safe
    <2>1. level \in Normal..Safe
      BY DEF SizeInv
    <2>2. ASSUME NEW t \in Tasks, EndTask(t) PROVE level' \in Normal..Safe
      <3>1. level' = level \/ \E a \in {Assessed(x) : x \in Assessments[t]} : level' = Max({level, a.level})
        BY <2>2 DEF EndTask
      <3>2. level' = level \/ \E x : level' = Max({level, Assessed(x).level})
        BY <3>1
      <3> QED
        BY <2>1, <3>2, LevelKept
    <2>3. ASSUME StartTask \/ WaitTimesOut \/ EndAnalysis \/ \E t \in Tasks : TaskRaises(t)
          PROVE  level' = level
      BY <2>3 DEF StartTask, WaitTimesOut, EndAnalysis, TaskRaises
    <2> QED
      BY <2>1, <2>2, <2>3
  <1> QED
    BY <1>1, <1>2 DEF SizeInv

\* The scan of a symbol adds signals that carry numbers.
LEMMA SymbolSizes ==
  ASSUME FlowInv, SizeInv, ScanSymbol
  PROVE  SizeInv'
  <1> DEFINE s == scan[cursor]
  <1>1. /\ phase = "scan" /\ cursor <= Len(scan)
        /\ UNCHANGED <<setup, level, account, jobs>>
        /\ \/ UNCHANGED signals
           \/ \E own \in TrendAgent(s) \union MeanReversionAgent(s), grid \in Grid(s), ml \in MlAgent(s) :
                 signals' = AddNew(AddNew(AddNew(signals, own), grid), ml)
    BY DEF ScanSymbol, settled
  <1>2. setup \in DOMAIN Loaded /\ cursor \in Nat \ {0}
    BY <1>1 DEF FlowInv, Begun, Signalled
  <1>3. s \in Symbols
    <2>1. cursor \in 1..Len(scan)
      BY <1>1, <1>2, ScanIs, SeqFacts DEF scan
    <2> QED
      BY <1>2, <2>1, ScanIs DEF scan
  <1> HIDE DEF s
  <1>4. level \in Normal..Safe /\ IsSeq(signals) /\ AllNumeric(signals)
    BY DEF SizeInv
  <1>5. IsSeq(signals') /\ AllNumeric(signals')
    <2>1. CASE UNCHANGED signals
      BY <1>4, <2>1
    <2>2. ASSUME NEW own \in TrendAgent(s) \union MeanReversionAgent(s), NEW grid \in Grid(s), NEW ml \in MlAgent(s),
                 signals' = AddNew(AddNew(AddNew(signals, own), grid), ml)
          PROVE  IsSeq(signals') /\ AllNumeric(signals')
      <3>1. ASSUME NEW answer \in TrendAgent(s) \union MeanReversionAgent(s) \union Grid(s) \union MlAgent(s)
            PROVE  answer = <<>> \/ \E x : answer = <<x>> /\ Numeric(x)
        BY <1>3, <1>4, AgentsNumeric
      <3> DEFINE a == AddNew(signals, own)
                 b == AddNew(a, grid)
                 c == AddNew(b, ml)
      <3>2. IsSeq(a) /\ AllNumeric(a)
        BY <1>4, <2>2, <3>1, AddedNumeric
      <3> HIDE DEF a
      <3>3. IsSeq(b) /\ AllNumeric(b)
        BY <2>2, <3>1, <3>2, AddedNumeric
      <3> HIDE DEF b
      <3>4. IsSeq(c) /\ AllNumeric(c)
        BY <2>2, <3>1, <3>3, AddedNumeric
      <3>5. signals' = c
        BY <2>2 DEF a, b
      <3> HIDE DEF c
      <3> QED
        BY <3>4, <3>5
    <2> QED
      BY <1>1, <2>1, <2>2
  <1> QED
    BY <1>1, <1>5, SignalsKeep

\* The scan of a pair adds legs that carry numbers.
LEMMA PairSizes ==
  ASSUME FlowInv, SizeInv, ScanPair
  PROVE  SizeInv'
  <1> DEFINE k == cursor - Len(scan)
             p == config.pairs[k]
             legs == <<LabelOf(p[1]), LabelOf(p[2])>>
  <1>1. /\ phase = "scan" /\ cursor \in Len(scan) + 1 .. Len(scan) + Len(config.pairs)
        /\ UNCHANGED <<setup, level, account, jobs>>
        /\ \/ UNCHANGED signals
           \/ \E m \in Measures, z \in ZScores :
                 signals' = signals \o PairLegs(p, PairSide(z), EntryStrength(m, z, ZEntry, legs))
    BY DEF ScanPair, settled
  <1>2. setup \in DOMAIN Loaded
    BY DEF FlowInv, Begun
  <1>3. p[1] \in Symbols /\ p[2] \in Symbols
    <2>1. Len(scan) \in Nat /\ Len(config.pairs) \in Nat
      BY <1>2, ScanIs, SeqFacts, PairsOfSettings DEF scan, config
    <2>2. k \in 1..Len(config.pairs)
      BY <1>1, <2>1
    <2> QED
      BY <1>2, <2>2, PairsOfSettings DEF config
  <1> HIDE DEF p, legs
  <1>4. IsSeq(signals) /\ AllNumeric(signals)
    BY DEF SizeInv
  <1>5. IsSeq(signals') /\ AllNumeric(signals')
    <2>1. CASE UNCHANGED signals
      BY <1>4, <2>1
    <2>2. ASSUME NEW m \in Measures, NEW z \in ZScores,
                 signals' = signals \o PairLegs(p, PairSide(z), EntryStrength(m, z, ZEntry, legs))
          PROVE  IsSeq(signals') /\ AllNumeric(signals')
      <3> DEFINE strength == EntryStrength(m, z, ZEntry, legs)
                 both == PairLegs(p, PairSide(z), strength)
      <3>1. strength \in Nat
        BY PairStrengthIs
      <3>2. signals' = signals \o both
        BY <2>2
      <3> HIDE DEF strength
      <3>3. IsSeq(both) /\ AllNumeric(both)
        BY <1>3, <3>1, LegsNumeric
      <3> HIDE DEF both
      <3>4. IsSeq(signals \o both) /\ AllNumeric(signals \o both)
        BY <1>4, <3>3, AppendNumeric
      <3> QED
        BY <3>2, <3>4
    <2> QED
      BY <1>1, <2>1, <2>2
  <1> QED
    BY <1>1, <1>5, SignalsKeep

\* The stages before the sizing keep the numbers of the signals.
LEMMA ArrangeSizes ==
  ASSUME FlowInv, SizeInv, Arbitrate \/ ScanRaises \/ Construct \/ Adapt \/ Vote \/ StateRaises
  PROVE  SizeInv'
  <1>1. UNCHANGED <<setup, level, account, jobs>>
    BY DEF Arbitrate, ScanRaises, Construct, Adapt, Vote, StateRaises, shaped, settled
  <1>2. IsSeq(signals) /\ AllNumeric(signals) /\ setup \in DOMAIN Loaded
    BY DEF SizeInv, FlowInv, Begun
  <1>3. CASE Arbitrate
    <2>1. signals' = ResolveConflicts(SingleVsPair(signals))
      BY <1>3 DEF Arbitrate
    <2>2. IsSeq(signals') /\ AllNumeric(signals')
      BY <1>2, <2>1, ArbitratedNumeric
    <2> QED
      BY <1>1, <2>2, SignalsKeep
  <1>4. CASE ScanRaises \/ StateRaises
    <2>1. signals' = <<>>
      BY <1>4 DEF ScanRaises, StateRaises
    <2> QED
      BY <1>1, <2>1, NoneNumeric, SignalsKeep
  <1>5. CASE Construct
    <2>1. UNCHANGED signals \/ \E vol \in Vols, previous \in Previous : Allocates(vol, previous)
      BY <1>5 DEF Construct
    <2>2. IsSeq(signals') /\ AllNumeric(signals')
      BY <1>2, <2>1, AllocatesNumeric
    <2> QED
      BY <1>1, <2>2, SignalsKeep
  <1>6. CASE Adapt
    <2>1. PICK least : signals' = IF ApplyThreshold THEN Adapted(signals, least) ELSE signals
      BY <1>6 DEF Adapt
    <2>2. IsSeq(signals') /\ AllNumeric(signals')
      BY <1>2, <2>1, AdaptedNumeric
    <2> QED
      BY <1>1, <2>2, SignalsKeep
  <1>7. CASE Vote
    <2>1. UNCHANGED signals \/ \E S \in SUBSET (1..Len(signals)) : signals' = Keep(signals, S)
      BY <1>7 DEF Vote
    <2>2. IsSeq(signals') /\ AllNumeric(signals')
      BY <1>2, <2>1, KeepNumeric
    <2> QED
      BY <1>1, <2>2, SignalsKeep
  <1> QED
    BY <1>3, <1>4, <1>5, <1>6, <1>7

\* decide sizes the signals within the room, and the partition makes jobs of the orders.
LEMMA DecideSizes ==
  ASSUME FlowInv, SizeInv, Decide
  PROVE  SizeInv'
  <1>1. /\ phase' = "risk" /\ signals' = <<>> /\ UNCHANGED <<setup, level>>
        /\ \E acct \in Accounts, vol \in Vols : \E closed, unknown :
              account' = acct /\ jobs' = Partition(Decided(signals, acct, vol, closed, unknown))
    BY DEF Decide
  <1>2. PICK acct \in Accounts, vol \in Vols : \E closed, unknown :
               account' = acct /\ jobs' = Partition(Decided(signals, acct, vol, closed, unknown))
    BY <1>1
  <1> PICK closed, unknown : account' = acct /\ jobs' = Partition(Decided(signals, acct, vol, closed, unknown))
    BY <1>2
  <1>3. IsSeq(signals) /\ AllNumeric(signals) /\ setup \in DOMAIN Loaded /\ level \in Normal..Safe
    BY DEF SizeInv, FlowInv, Begun
  <1> DEFINE orders == Decided(signals, acct, vol, closed, unknown)
             js == Partition(orders)
  <1>4. IsSeq(orders)
    BY <1>3, DecidedDerives DEF Derived
  <1>5. InRoom(setup, orders, acct)
    BY <1>3, DecidedInRoom
  <1> HIDE DEF orders
  <1>6. Roomy(setup, js, acct)
    BY <1>4, <1>5, PartitionRoomy
  <1>7. JobSeqs(jobs')
    <2>1. FlowInv'
      BY DecideKeeps
    <2>2. Working(phase, setup, jobs, ready, sent, opened)'
      BY <2>1 DEF FlowInv
    <2> QED
      BY <1>1, <2>2 DEF Working, Reviewing
  <1>8. jobs' = js /\ account' = acct
    BY <1>2 DEF orders
  <1> HIDE DEF js
  <1>9. Roomy(setup', jobs', account')
    BY <1>1, <1>6, <1>8
  <1>10. IsSeq(signals') /\ AllNumeric(signals')
    BY <1>1, NoneNumeric
  <1>11. level' \in Normal..Safe
    BY <1>1, <1>3
  <1> QED
    BY <1>7, <1>9, <1>10, <1>11 DEF SizeInv

\* The gates of the legs keep the jobs or go on to the next one.
LEMMA GateSizes ==
  ASSUME FlowInv, SizeInv,
         LoadGates \/ SkipBrokenPair \/ RiskReview \/ CostGate \/ InfoRaises \/ Finish \/ Ended \/ UNCHANGED vars
  PROVE  SizeInv'
  <1>1. UNCHANGED <<setup, level, account, signals>>
    BY DEF LoadGates, SkipBrokenPair, RiskReview, CostGate, InfoRaises, Finish, Ended, vars, gated, settled
  <1>2. jobs' = jobs \/ (jobs # <<>> /\ jobs' = Tail(jobs))
    <2>1. CASE SkipBrokenPair \/ RiskReview
      BY <2>1 DEF SkipBrokenPair, RiskReview, NextJob
    <2>2. CASE CostGate
      <3>1. phase = "cost" /\ (jobs' = jobs \/ jobs' = Tail(jobs))
        BY <2>2 DEF CostGate, PassLeg, NextJob
      <3>2. jobs # <<>>
        BY <3>1, AtReview DEF Reviewing, AtCost
      <3> QED
        BY <3>1, <3>2
    <2>3. CASE LoadGates \/ InfoRaises \/ Finish \/ Ended \/ UNCHANGED vars
      BY <2>3 DEF LoadGates, InfoRaises, Finish, Ended, vars, settled
    <2> QED
      BY <2>1, <2>2, <2>3
  <1>3. JobSeqs(jobs) /\ Roomy(setup, jobs, account)
    BY DEF SizeInv
  <1> DEFINE js == jobs'
  <1>4. JobSeqs(js) /\ Roomy(setup, js, account)
    <2>1. CASE js = jobs
      BY <1>3, <2>1
    <2>2. CASE jobs # <<>> /\ js = Tail(jobs)
      BY <1>3, <2>2, TailMade, TailRoomy
    <2> QED
      BY <1>2, <2>1, <2>2
  <1>5. (IsSeq(signals) /\ AllNumeric(signals) /\ level \in Normal..Safe)'
    BY <1>1 DEF SizeInv
  <1> QED
    BY <1>1, <1>4, <1>5 DEF SizeInv

\* Every step keeps the invariant of the sizes.
LEMMA SizesKeep == FlowInv /\ SizeInv /\ [Next]_vars => SizeInv'
  <1> SUFFICES ASSUME FlowInv, SizeInv, [Next]_vars PROVE SizeInv'
    OBVIOUS
  <1>1. CASE StartTask \/ WaitTimesOut \/ EndAnalysis \/ \E t \in Tasks : EndTask(t) \/ TaskRaises(t)
    BY <1>1, AnalysisSizes
  <1>2. CASE ScanSymbol
    BY <1>2, SymbolSizes
  <1>3. CASE ScanPair
    BY <1>3, PairSizes
  <1>4. CASE Arbitrate \/ ScanRaises \/ Construct \/ Adapt \/ Vote \/ StateRaises
    BY <1>4, ArrangeSizes
  <1>5. CASE Decide
    BY <1>5, DecideSizes
  <1>6. CASE LoadGates \/ SkipBrokenPair \/ RiskReview \/ CostGate \/ InfoRaises \/ Finish \/ Ended \/ UNCHANGED vars
    BY <1>6, GateSizes
  <1>7. QED
    BY <1>1, <1>2, <1>3, <1>4, <1>5, <1>6 DEF Next, Run

\* What the orders of a run are worth together is within the exposure the account had
\* left, and none of them is more than a single position may be or loses more at its
\* stop than a trade may risk (decision_agent.py), whatever the run is asked for and
\* loses on the way to its jobs: as long as no lots are fallback ones, no confidence
\* has been scaled past the full one and no lot multiplier is above 1.
THEOREM FlowSizesShareTheRoom == Spec => []SizesShareTheRoom
  <1>1. Init => SizeInv
    BY SizesBegin
  <1>2. FlowInv /\ SizeInv /\ [Next]_vars => SizeInv'
    BY SizesKeep
  <1>3. SizeInv => SizesShareTheRoom
    BY RoomySizes DEF SizeInv
  <1> QED
    BY <1>1, <1>2, <1>3, FlowInvariant, PTL DEF Spec
=============================================================================
