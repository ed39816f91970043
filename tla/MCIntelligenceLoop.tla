------------------------ MODULE MCIntelligenceLoop ------------------------
(***************************************************************************)
(* Two knobs, one whose default is among the allowed values and one whose  *)
(* default is not; a backtest that fails the gate, one that passes and one *)
(* that is better; two processes on the store, either of which may begin a *)
(* review or an optimisation.  The dialogues: two proposals, one of them   *)
(* reviewed twice; a Checker that rejects, that answers about something    *)
(* else, or whose reply is cut or never comes; a Maker whose proposal is   *)
(* cut into another one; values that are no numbers; attempts that run out.*)
(***************************************************************************)
EXTENDS IntelligenceLoop, TLC

CONSTANTS adx, rsi, typo, narrow, wide, text, resident, optimize

MCKnobs == {adx, rsi}
MCNames == {adx, rsi, typo}
MCValues == {narrow, wide}
MCAllowed == [k \in MCKnobs |-> IF k = adx THEN {narrow, wide} ELSE {wide}]
MCDefaults == [k \in MCKnobs |-> narrow]
MCGrid == << << [k \in {adx} |-> narrow], [k \in {adx} |-> wide] >>, << [k \in {rsi} |-> wide] >> >>

MCResult(wf, mdd, robust) == [wf |-> wf, mdd |-> mdd, sound |-> TRUE, robust |-> robust, gate |-> robust]
MCResults == {MCResult(0, 3, FALSE), MCResult(1, 2, TRUE), MCResult(2, 1, TRUE)}

MCEnvironments == {[google |-> "placeholder", gemini |-> "short"], [google |-> "short", gemini |-> "express"]}

Item(o, decision) == [overrides |-> o, decision |-> decision]
Adx == adx :> wide
Rsi == rsi :> wide
Both == Adx @@ Rsi

NoCut == [items |-> 0, names |-> {}, last |-> typo, value |-> wide]
Reply(kind, items, cut) == [text |-> kind, items |-> items, cut |-> cut]
Whole(items) == Reply("whole", items, NoCut)
Says(failures, answer) == [failures |-> failures, reply |-> answer]
Talk(maker, checker) == [client |-> TRUE, maker |-> maker, checker |-> checker]

Proposes == Says(<<>>, Whole(<<Item(Adx, ""), Item(Rsi, ""), Item(typo :> wide, "")>>))
Rejects == Item(Adx, "reject")
Nothing == Says(<<"empty">>, Whole(<<>>))

MCDialogues == {
    \* two candidates, the second one approved twice, and one that was not proposed
    Talk(Proposes, Says(<<"rate", "server">>,
        Whole(<<Item(Rsi, "approve"), Item(Both, "approve"), Item(Adx, "accept"), Item(Rsi, "approve")>>))),
    \* the proposal loses the end of its value, which reads as another one, and is approved
    Talk(Says(<<"timeout">>, Reply("cut", <<Item(Adx, ""), Item(Rsi, "")>>,
                                        [items |-> 0, names |-> {adx}, last |-> adx, value |-> narrow])),
              Says(<<>>, Whole(<<Item(adx :> narrow, "approve"), Item(Adx, "approve")>>))),
    \* the approval is cut off
    Talk(Proposes, Says(<<>>, Reply("cut", <<Rejects, Item(Rsi, "approve")>>,
                                         [items |-> 1, names |-> {rsi}, last |-> rsi, value |-> wide]))),
    \* values that are no numbers, alone and beside an unknown name
    Talk(Says(<<>>, Whole(<<Item(Adx, ""), Item((adx :> text) @@ (typo :> wide), "")>>)),
              Says(<<>>, Whole(<<Item(Adx, "approve")>>))),
    Talk(Proposes, Says(<<>>, Whole(<<Item(rsi :> text, "approve")>>))),
    \* no attempts left, nothing said, and no package
    Talk(Says(<<"rate", "overloaded", "timeout">>, Whole(<<Item(Adx, "")>>)), Nothing),
    Talk(Proposes, Says(<<"billing">>, Whole(<<Item(Adx, "approve")>>))),
    Talk(Proposes, Says(<<>>, Reply("lost", <<Item(Adx, "approve")>>, NoCut))),
    [client |-> FALSE, maker |-> Proposes, checker |-> Nothing]}

MCProcs == {resident, optimize}
MCSymmetry == Permutations(MCProcs)
=============================================================================
