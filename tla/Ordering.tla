------------------------------ MODULE Ordering ------------------------------
(***************************************************************************)
(* What sorted() and list comprehensions of Python do to the positions of  *)
(* a sequence.  Sorting by a key is stable: of two positions with the same *)
(* key, the smaller one comes first.                                       *)
(***************************************************************************)
EXTENDS Integers, FiniteSets, Sequences

\* the members of a set of positions, sorted by a key
Ordered(S, key) ==
    LET Ahead(i) == {j \in S : key[j] < key[i] \/ (key[j] = key[i] /\ j < i)}
    IN  [k \in 1..Cardinality(S) |-> CHOOSE i \in S : Cardinality(Ahead(i)) = k - 1]
Ascending(S) == [k \in 1..Cardinality(S) |-> CHOOSE i \in S : Cardinality({j \in S : j < i}) = k - 1]

\* the function on 1..n as it is; TLC computes it once
Sequence(f, n) == SubSeq(f, 1, n)

\* what a sequence has at these positions, in its own order
Keep(seq, S) == Sequence([k \in 1..Cardinality(S) |-> seq[Ascending(S)[k]]], Cardinality(S))
=============================================================================
