---------------------------- MODULE MCFiveState ----------------------------
(***************************************************************************)
(* The two users of the regime's classification under the thresholds of    *)
(* config/settings.yaml: the live detector, on scores at and around them,  *)
(* one for each label and for what keeps a label that is not entered, and  *)
(* the search of MCParameterLoop on its histories.  They share nothing but *)
(* the thresholds, so a behaviour is one of the one or of the other.       *)
(***************************************************************************)
EXTENDS RegimeSwitch, MCParameterLoop, TLC

CONSTANTS a1, a2

At(trend, er, vol) == [trend |-> trend, er |-> er, vol |-> vol, corr |-> 0, spread |-> 0]

MCScores == { At(55, 45, 50),   \* stable trend
              At(60, 50, 70),   \* high-vol trend
              At(35, 40, 69),   \* no class, still a trend, still a range
              At(30, 35, 69),   \* stable range
              At(30, 20, 70),   \* chop
              [At(60, 50, 70) EXCEPT !.corr = 85] } \* stress

MCAssessors == {a1, a2}
MCSymmetry == Permutations(MCAssessors)

\* a search that is over, without a bar
NoSearch ==
    /\ closes = << >>
    /\ phase = "done" /\ mode = "none" /\ strategy = 1 /\ spec = 1 /\ at = 1
    /\ current = << >> /\ working = BaseConfig /\ best = NoResult /\ initial = 0
    /\ hard = 0 /\ seen = {} /\ trials = << >> /\ adopted = << >> /\ stopped = FALSE
    /\ first = NoResult /\ measured = << >> /\ newBars = 0 /\ faults = 0

Detects  == closes = << >> /\ Next /\ UNCHANGED matrixVars
Searches == closes # << >> /\ MatrixNext /\ UNCHANGED vars

EitherInit == Init /\ (NoSearch \/ MatrixInit)
EitherNext == Detects \/ Searches

EitherSpec == EitherInit /\ [][EitherNext]_<<vars, matrixVars>>
=============================================================================
