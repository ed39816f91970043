--------------------------- MODULE MCResidentLoop ---------------------------
(***************************************************************************)
(* A loop and a forced review that compete for the lock, and two traded   *)
(* symbols with a parameter store each; only silver has sessions that end. *)
(***************************************************************************)
EXTENDS ResidentLoop

CONSTANTS loop, review, gold, silver

MCProcs == {loop, review}
MCKind == [p \in MCProcs |-> IF p = loop THEN "loop" ELSE "review"]
MCSymbols == {gold, silver}
MCTradeSymbols == <<gold, silver>>
MCKeys == << [target |-> gold, strategy |-> "trend_following"],
             [target |-> silver, strategy |-> "mean_reversion"] >>
MCMaxBar == [s \in MCSymbols |-> IF s = gold THEN 2 ELSE 1]

MCOneProc == {loop}
MCOneKind == [p \in MCOneProc |-> "loop"]
=============================================================================
