------------------------------- MODULE MCRecorded -------------------------------
(***************************************************************************)
(* Commands below and beyond the limits of four values and three attempts, *)
(* three of which are suspended for a decision.                            *)
(***************************************************************************)
EXTENDS ReplayedSession

Command(checks, decision, dice) == [checks |-> checks, decision |-> decision, dice |-> dice]

MCCommands ==
    [strike |-> Command(1, "reaction", 2),
     hurl   |-> Command(1, "slide", 1),
     stride |-> Command(0, "movement", 1),
     volley |-> Command(4, "none", 0),
     salvo  |-> Command(1, "none", 2),
     blast  |-> Command(0, "none", 5)]

MCSaves == [r \in 0 .. 3 |-> <<0, 2, 1, 0>>[r + 1]]
===============================================================================
