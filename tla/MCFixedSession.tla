---------------------------- MODULE MCFixedSession ----------------------------
(***************************************************************************)
(* A fixed-economy session: every accepted action ends its actor's turn.   *)
(* Two against one on a row of five cells, with a guarded attack, a push,  *)
(* a slide, a step and a save-ends effect.                                 *)
(***************************************************************************)
EXTENDS Checkpoint

NoCost == [b \in {} |-> 0]

Plain == [timing |-> "action", team |-> "hostile", targets |-> "participant",
          range |-> 2, costs |-> NoCost, check |-> FALSE,
          program |-> <<"none", "none", "none">>, reduction |-> 0,
          guard |-> NoCost, damage |-> 1, dice |-> FALSE,
          shift |-> "push", distance |-> 2]

MCActions ==
    [attack |-> [Plain EXCEPT !.check = TRUE, !.dice = TRUE, !.reduction = 1,
                              !.program = <<"strike", "window", "strike">>],
     hex    |-> [Plain EXCEPT !.range = 4, !.program = <<"afflict", "none", "none">>],
     shove  |-> [Plain EXCEPT !.range = 1, !.program = <<"shift", "strike", "none">>],
     hurl   |-> [Plain EXCEPT !.check = TRUE, !.range = 4, !.shift = "slide",
                              !.program = <<"strike", "shift", "none">>],
     walk   |-> [Plain EXCEPT !.targets = "cell", !.program = <<"step", "none", "none">>]]

MCParticipants == {1, 2, 3}
MCTeam         == <<"a", "b", "b">>
MCInitiative   == <<2, 1, 3>>
MCOwned        == <<{"attack", "shove", "hex"}, {"attack", "hurl"}, {"walk", "hex"}>>
MCRegistration == [reach |-> 1, response |-> "attack", budget |-> "none",
                   cost |-> 1, maximum_uses |-> 1]
MCVitality     == <<3, 2, 1>>
MCPosition     == <<3, 2, 5>>
===============================================================================
