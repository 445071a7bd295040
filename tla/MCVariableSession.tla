--------------------------- MODULE MCVariableSession ---------------------------
(***************************************************************************)
(* A variable-economy session: actions are paid out of activation budgets, *)
(* a turn lasts until it is ended, and leaving the reach of participant 2  *)
(* or 3 opens a movement reaction.                                         *)
(***************************************************************************)
EXTENDS Checkpoint

MCBudgets == {"action", "parry", "reaction", "move"}
MCInitial == [action |-> 1, parry |-> 1, reaction |-> 1, move |-> 2]
MCReset   == [b \in MCBudgets |-> IF b = "parry" THEN "roundStart" ELSE "ownerTurnStart"]

Costs(action, parry, reaction) ==
    [action |-> action, parry |-> parry, reaction |-> reaction, move |-> 0]

Plain == [timing |-> "action", team |-> "hostile", targets |-> "participant",
          range |-> 1, costs |-> Costs(1, 0, 0), check |-> FALSE,
          program |-> <<"none", "none", "none">>, reduction |-> 0,
          guard |-> Costs(0, 1, 0), damage |-> 1, dice |-> FALSE,
          shift |-> "push", distance |-> 2]

MCActions ==
    [attack  |-> [Plain EXCEPT !.check = TRUE, !.reduction = 1,
                               !.damage = 2,
                               !.program = <<"window", "strike", "none">>],
     walk    |-> [Plain EXCEPT !.targets = "cell", !.range = 2, !.costs = Costs(0, 0, 0),
                               !.program = <<"step", "none", "none">>],
     hex     |-> [Plain EXCEPT !.range = 3, !.program = <<"afflict", "strike", "none">>,
                               !.damage = 0],
     riposte |-> [Plain EXCEPT !.timing = "reaction", !.costs = Costs(0, 0, 1),
                               !.check = TRUE,
                               !.program = <<"strike", "none", "none">>]]

MCParticipants == {1, 2, 3}
MCTeam         == <<"a", "b", "a">>
MCInitiative   == <<2, 1, 3>>
MCOwned        == <<{"attack", "walk"}, {"attack", "walk", "riposte", "hex"}, {"riposte", "attack"}>>
MCRegistration == [reach |-> 1, response |-> "riposte", budget |-> "reaction",
                   cost |-> 1, maximum_uses |-> 1]
MCVitality     == <<2, 1, 1>>
MCPosition     == <<3, 2, 6>>

\* The one window of these actions can be declined within the evidence.
ASSUME VariableAnswersFit == AnswersFit
================================================================================
