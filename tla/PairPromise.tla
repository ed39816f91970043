---------------------------- MODULE PairPromise ----------------------------
(***************************************************************************)
(* What src/agents/pair_execution.py promises in its first line, stated   *)
(* without orders, replies, retries or circuit breakers: the pairs of a   *)
(* pipeline run are entered one after the other, each one ends with both  *)
(* of its legs open at the broker or with neither, and a pair that has    *)
(* ended is never touched again.  The promise is made by a program that   *)
(* may trust what the broker tells it; once `trusted` is lost the         *)
(* exposure of every pair is up to the broker.                            *)
(***************************************************************************)
EXTENDS Naturals

CONSTANT Pairs      \* the pairs in the run, natural numbers in their order

VARIABLES exposure, \* exposure[p]: which of the two legs of p are open
          left,     \* the pairs that have been left for good
          trusted   \* no broker fault has happened yet

promiseVars == <<exposure, left, trusted>>

\* The pair being entered: the first that has not been left.
Active(p) == p \in Pairs \ left /\ \A q \in Pairs \ left : p <= q

BothOrNeither(p) == exposure[p] \in {{}, {1, 2}}

Init == /\ exposure = [p \in Pairs |-> {}]
        /\ left = {}
        /\ trusted = TRUE

\* One more leg of the active pair is filled.
Enter(p, leg) ==
    /\ trusted /\ Active(p)
    /\ leg \notin exposure[p]
    /\ exposure' = [exposure EXCEPT ![p] = @ \cup {leg}]
    /\ UNCHANGED <<left, trusted>>

\* The only leg of the active pair is closed again and the pair is left for good.
Unwind(p) ==
    /\ trusted /\ Active(p)
    /\ exposure[p] \in {{1}, {2}}
    /\ exposure' = [exposure EXCEPT ![p] = {}]
    /\ left' = left \cup {p}
    /\ UNCHANGED trusted

\* The active pair is left as it is.
Leave(p) ==
    /\ trusted /\ Active(p)
    /\ BothOrNeither(p)
    /\ left' = left \cup {p}
    /\ UNCHANGED <<exposure, trusted>>

\* A broker fault: from here on nothing is promised about the exposure.
LoseTrust ==
    /\ trusted' = FALSE
    /\ exposure' \in [Pairs -> SUBSET {1, 2}]
    /\ left' = left \/ \E p \in Pairs : Active(p) /\ left' = left \cup {p}

Next == \/ \E p \in Pairs : (\E leg \in {1, 2} : Enter(p, leg)) \/ Unwind(p) \/ Leave(p)
        \/ LoseTrust

Spec == Init /\ [][Next]_promiseVars
=============================================================================
