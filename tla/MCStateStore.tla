---------------------------- MODULE MCStateStore ----------------------------
(***************************************************************************)
(* Two threads, of one process or of two (Init chooses), with the adopted  *)
(* parameters, the mark of the resident loop and one lesson.               *)
(***************************************************************************)
EXTENDS StateStore

CONSTANTS t1, t2, p1, p2

MCThreads == {t1, t2}
MCProcs == {p1, p2}
MCHomes == {[t \in MCThreads |-> p1], [t \in MCThreads |-> IF t = t1 THEN p1 ELSE p2]}
MCStateFields == {"params", "last_processed_bar"}
MCLessons == {"lesson"}
=============================================================================
