---------------------------- MODULE MCAgentRuns ----------------------------
(* Small instances of an agent run. *)
EXTENDS AgentRuns, TLC

\* Calls and the requests of people are interchangeable.
Symmetry == Permutations(Calls) \cup Permutations(Users)
=============================================================================
