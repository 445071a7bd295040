---------------------------- MODULE MCSlideSession ----------------------------
(***************************************************************************)
(* A fixed-economy session in which participant 1 owns a slide, so that    *)
(* commands are suspended on a destination.  ComposedActions puts a        *)
(* reaction window before the slide, which the compiler accepts.           *)
(***************************************************************************)
EXTENDS Checkpoint

NoCost == [b \in {} |-> 0]

Plain == [timing |-> "action", team |-> "hostile", targets |-> "participant",
          range |-> 4, costs |-> NoCost, check |-> FALSE,
          program |-> <<"none", "none", "none">>, reduction |-> 0,
          guard |-> NoCost, damage |-> 2, dice |-> FALSE,
          shift |-> "slide", distance |-> 2]

MCActions ==
    [hurl |-> [Plain EXCEPT !.check = TRUE, !.program = <<"strike", "shift", "none">>],
     hex  |-> [Plain EXCEPT !.program = <<"afflict", "none", "none">>]]

ComposedActions ==
    [MCActions EXCEPT !.hurl.program = <<"window", "strike", "shift">>]

MCParticipants == {1, 2}
MCTeam         == <<"a", "b">>
MCInitiative   == <<1, 2>>
MCOwned        == <<{"hurl", "hex"}, {"hurl", "hex"}>>
MCRegistration == [reach |-> 1, response |-> "hex", budget |-> "none",
                   cost |-> 1, maximum_uses |-> 1]
MCVitality     == <<3, 3>>
MCPosition     == <<2, 4>>
===============================================================================
