------------------------------- MODULE Compiler --------------------------------
(***************************************************************************)
(* The two results of a compilation that the runtime computes with: the    *)
(* plan of the derived ruleset values, and the programs of the actions.    *)
(* Neither reads the other, so that each is followed by itself.            *)
(***************************************************************************)
EXTENDS RulesetValues, ProgramRun

compilerVars == <<valueVars, programVars>>

\* A bundle without ruleset values, and one without actions.
NoValues ==
    /\ ruleset = None /\ supplied = None /\ values = None
    /\ phase = "absent"
    /\ dependencies = None /\ remaining = None /\ ready = {} /\ order = <<>>

NoProgram ==
    /\ case = None
    /\ targets = 0 /\ stats = <<>> /\ outcomes = <<>> /\ current = 0 /\ work = <<>>
    /\ chosen = {} /\ held = {} /\ drawn = <<>> /\ dealt = {} /\ moved = 0
    /\ reaction_consumed = FALSE /\ executed = 0
    /\ status = At("absent")

Init == \/ ValuesInit /\ NoProgram
        \/ ProgramInit /\ NoValues

Next == \/ ValuesNext /\ UNCHANGED programVars
        \/ ProgramNext /\ UNCHANGED valueVars

Spec == Init /\ [][Next]_compilerVars
===============================================================================
