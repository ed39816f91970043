---------------------------- MODULE MCRiskControl ----------------------------
(***************************************************************************)
(* Two symbols of one group and the pair of them.  The equities reach all  *)
(* three drawdown levels.  One step of lots is 4 to 5 % of them: two steps *)
(* fit into the cap of a single position, three into that of the symbol and *)
(* four into that of the sector, so that the room a cap leaves may be one  *)
(* step, and what an earlier cap has cut may still exceed a later one.     *)
(***************************************************************************)
EXTENDS RiskControl

CONSTANTS gold, silver, loop

MCSymbols == {gold, silver}
MCSector == [s \in MCSymbols |-> MCSymbols]
MCPrice == [s \in MCSymbols |-> 4]
MCJobs == {<<gold>>, <<gold, silver>>}
=============================================================================
