-------------------------- MODULE MCPairExecution --------------------------
(***************************************************************************)
(* A run with one single signal, one complete pair and one pair that lost *)
(* a leg on the way; an earlier run left a position open on the symbol of *)
(* the first leg of the pair.                                             *)
(***************************************************************************)
EXTENDS PairExecution

CONSTANTS solo, first, second, widow, old

MCLegs == {solo, first, second, widow, old}

MCSymbolOf == [l \in MCLegs |-> CASE l \in {first, old} -> "sym1"
                                  [] l = second         -> "sym2"
                                  [] OTHER              -> "sym3"]

MCJobs == << [kind |-> "single", legs |-> <<solo>>],
             [kind |-> "pair",   legs |-> <<first, second>>],
             [kind |-> "pair",   legs |-> <<widow>>] >>

MCPriorOpen == {<<old, 0>>}
=============================================================================
