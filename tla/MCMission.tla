----------------------------- MODULE MCMission -----------------------------
(* Small missions: two independent tasks, or two with a third that depends on *)
(* both.                                                                      *)
EXTENDS MissionRuntime, TLC

Two == 1..2

Independent == [t \in Two |-> {}]

Three == 1..3

Joined == [t \in Three |-> IF t = 3 THEN {1, 2} ELSE {}]

AllOps == Operations

Symmetry == Permutations(Callers)
=============================================================================
